# Verification of EzRepo

EzRepo tracks repositories of GitHub, GitLab, Gitea and Forgejo accounts: an
API process (NestJS, Prisma, PostgreSQL) synchronizes workflow runs, issues,
pull requests and security alerts into its database, and turns what changed
into notifications. This directory holds TLA+ modules translated from the
source, TLC configurations that check them on small instances, and proofs that
hold for every instance.

Everything below names source files relative to the repository; `providers/`,
`notifications/` and so on stand for `apps/api/src/modules/providers/` etc.

## Inventory

| Part | State it keeps | Operations | What is hard |
|---|---|---|---|
| Synchronization queue (`providers/sync-queue.service.ts`) | one `repository_sync_requests` row per repository (status, attempt, generation, scopes, lease); a lease and a rate-limit deadline per provider account | upserts by webhooks, reconciliation and manual starts; claim; settle; retry; purge of what is disabled | overlapping workers, leases that expire, crashes between claim and settlement, requests merged while a run is in progress, read-then-write settlement |
| Synchronization (`providers/sync.service.ts`, `work-item-sync.service.ts`, `security-alert-sync.service.ts`) | workflow runs, work items, alerts, cursors and baselines per repository | fetch, upsert, advance a cursor, emit lifecycle events | a failure between the stored change and its event; two synchronizations of one repository; pages that move under a cursor |
| Notification rules and deliveries (`notifications/notifications.service.ts`, `notification-delivery.service.ts`) | channels, `notification_deliveries` (status, next attempt), `notification_delivery_attempts` | emit an event, match rules, create deliveries once, send, record the attempt, retry | two deliverers with snapshots of one row, a crash between sending and recording, channels that change or vanish meanwhile |
| Browser push (`notifications/browser-push.service.ts`) | subscriptions per user | register, remove, send to each device, drop dead devices | partial success over devices, a device removed while it is sent to |
| Webhook intake (`webhooks/`, `providers/provider-accounts.service.ts`) | `webhook_deliveries` (provider's delivery id) | authenticate, deduplicate, enqueue in one transaction; track a repository | redelivery of one id in parallel, a rollback between record and enqueue, accounts deleted meanwhile |
| Retention (`jobs/workflow-run-retention.service.ts`) | total durations of deleted runs | sum and delete in one transaction; delete ended work items | runs and periods that change between the read and the delete |
| Sign-in (`auth/`, `auth/oidc/`) | users, session version, OIDC configuration, pending logins, links | password sign-in, setup, OIDC start, callback, reset | a configuration that changes during the exchange, single use of a state, the first administrator |
| Access tokens (`mcp/mcp-token.service.ts`) | hashed tokens with expiry and revocation | create, list, revoke, authenticate | little: one statement each |
| Provider adapters (`providers/{github,gitlab,gitea,forgejo}`) | none | paginated reads, status mapping, errors and retries | pages that shift while they are read, four providers with rules of their own, clocks and headers |
| Queries and controllers (dashboard, workflow runs, issues, pull requests, alerts, users, settings, CASL) | none of their own | read, filter, authorize | authorization in every filter |
| Web application (`apps/web`) | session and cached pages in the browser | views over the API | little that a model checker reaches |

The parts meet in the database and in two synchronous calls. A webhook or a
timer upserts a queue row; a worker claims it and calls
`ProviderSyncService.syncRepositoryById`; that stores what the provider says
and calls `NotificationsService.evaluate…`/`emitEvent` for what is new, which
creates delivery rows and calls the deliverer at once; a timer retries
deliveries. Nothing is a message broker: every hand-over is a row, and every
timer (`@Interval`) starts its job again whether or not the previous invocation
has ended, in each API process. The hazards of the system are therefore
interleavings of statements and transactions at PostgreSQL's default isolation,
READ COMMITTED. They are listed one by one under `hazards` in `PROJECT.json`.

## SyncQueue: the synchronization queue

`SyncQueue.tla` models `sync-queue.service.ts` with the retry decision of
`provider-retry.ts`, the runner of `job-runner.service.ts` and the two switches
(repository and account `enabled`). A worker is one invocation of
`processDueRequests`; `pc` is where it is:

| pc | in the code | steps that leave it |
|---|---|---|
| `idle` | not running | `StartProcessing` (purge disabled rows, line 210) |
| `polling` | about to call `claimNextRequest` | `ReadCandidates` (`now`, `findMany`) |
| `choosing` | in the loop over the candidates | `ClaimCandidate`, `SkipCandidate` (one transaction each) |
| `claimed` | `syncRepositoryById` reads the repository | `BeginSync` |
| `syncing` | the synchronization runs | `EndSync` with the class of its outcome |
| `settling` | `completeRequest`/`failRequest` begin | `ReadCurrent` (`findUnique`) |
| `writing` | between that read and the writes | `WriteCompletion`, `WriteFailure`, `RejectMissing` |

Producers are `Enqueue` under its two callers (`ReconcileRepository`,
`EnqueueWebhook`) and the manual start, which reads first and writes later
(`ReadAvailability`, then `StartAvailable` or `RefuseStart`). Faults are
`AbortRun` (the process dies, or the failure handler itself is rejected),
`RejectCompletion` (the database rejects a completion) and `OverrunLease` (a
run takes longer than its hour). `Switch…` are the administrator's switches.

What is abstract, and why it loses nothing the properties speak of:

- **Time.** There is no clock. `elapsed` holds the deadlines that lie in the
  past and `seen[w]` those that lay in the past at the worker's `now`, which
  all its claims keep comparing with. A producer computes `runAfter` before its
  statement commits, so a worker whose `now` falls in between sees the new
  deadline as past already: `late` in `Arm`. Retry deadlines and rate limits
  are at least a second ahead of the statement that stores them and are never
  seen as past.
- **Row identity.** A row's uuid is `live` in whoever holds it.
- **Candidates** are ordered by `runAfter` and read 25 at a time; the model
  takes them in any order, a superset of the behaviours. Liveness is checked
  with one repository, where order cannot matter.
- **The outcome of a synchronization** is one of the classes the retry
  decision tells apart; whether alerts are unavailable is a free choice.
- **History.** `owed[r]` are the scopes asked of an enabled repository that no
  settled synchronization covers; `covers[w]` those the run of `w` will cover,
  fixed when it starts; `exposed[r]` those asked while a settlement that had
  read the row as current had not written it yet. Disabling a repository
  forgives what it is owed, as the purge deletes its row.

### Properties and runs

| Property | What it says |
|---|---|
| `AccountExclusion` | while their leases last, two workers never work on repositories of one account |
| `RetainsRequestedWork` | scopes asked and not covered are in a row that waits or runs, except those asked inside a settlement's read and write |
| `RunningRowsAreLeased` | a running row carries the lease whose expiry makes it claimable |
| `ClaimsOnlyDueWork` | no claim while the account is rate limited or the request is not due, even from an outdated candidate list |
| `ImplementsAccountLock` | the leases of an account implement `AccountLock`: one holder at a time, none while the account is limited, and no outdated worker limits it under its holder |
| `ImplementsRequestRows` | the rows implement `RequestRows`: no scope leaves a row that goes on, work waits until it is begun, and only a begun synchronization ends a row (with the scopes that joined it meanwhile, which are `RetainsRequestedWork`'s subject) |
| `RequestsSettle` | what is asked is in the end covered or given up visibly |

| Run | Instance | Distinct states |
|---|---|---|
| `sync_takeover` | 1 repository, 2 workers, 2 tokens, 2 attempts, 2 merged requests, 1 fault, no symmetry | 276 000 |
| `sync_producers` | 1 repository, 2 workers, 2 scopes, all producers, both switches, no fault | 1 154 000 |

`AccountLock.tla` and `RequestRows.tla` are what the queue promises to its two
kinds of clients, each in a page: a lock per account for those who talk to the
provider, and a dependable row per repository for those who ask for work.
`SyncQueueRefinement.tla` holds the two refinement mappings (`HoldersOf`,
`View`) and states each abstract specification as a property of the detailed
one. `RequestRows` is also the queue that `RepositoryIntake` composes with, so
that what is shown there holds for the real queue.

The bounds: `MaxGeneration` merges per row (two are needed for a request to
supersede a claim), `MaxFaults`, the number
of tokens (one per worker), `MaximumAttempts`
(5 in the code; 2 reach both branches of the retry decision), and
`Environment`, which chooses the producers of a run. Two workers suffice for
every hazard listed: they involve one worker that is late and one that is not.

Fairness (`Fairness` in `SyncQueue.tla`): weak fairness of each worker's next
step, because `@Interval` fires every five seconds, provider requests have
finite time-outs and the process manager restarts the API; weak fairness of
each deadline passing. None of faults, producers, switches or of a lease that
is being outlived.

One run shows where the code does less than its comment says:
`sync_lost_request` (a request merged between the read and the delete of a
settlement is lost). Its finding in `PROJECT.json` quotes the lines. Nothing
renews the lease of a synchronization that takes longer than an hour
(`OverrunLease`), so `AccountExclusion` speaks of unexpired leases only: two
synchronizations of one account, or of one repository, can overlap after that.
The same read-then-write settlement lets `failRequest` reset the lease
of a worker that took the request over in between: the model contains that
step (`WriteFailure` tests nothing but `RowExists`), and the passing properties
hold in spite of it.

### Proofs

`SyncQueueProofs.tla` proves, for every value of the constants that satisfies
`ConstantsAssumption` and `DeadlinesAssumption`:

- `TypeCorrect`: `TypeOK`, with `ClaimPhase` (a worker has a claim exactly in
  the phases that execute one) as the strengthening: a settlement uses the
  fields of its claim, which have a type only where there is a claim.
- `AccountExclusionHolds`. `AccountExclusion` is not inductive: it must be
  known why a claim cannot succeed while another lease lasts.
  `LeaseInvariant` says that whoever holds an unexpired lease is the account's
  registered owner, that no two claims share a token, and that no worker takes
  for expired a token that is not. Exclusion then follows because an account
  has one owner. A claim succeeds only on a free or expired account lease
  (`SeenLeaseIsLost`), and a settlement clears only its own token
  (`ReleaseKeepsOthers`).

Of the rows it proves, building on these:

- `RunningRowsAreLeasedHolds`. The property is inductive together with
  `TypeOK`. Its argument is about each way a row is written: a merge keeps the
  lease of a running row (`RowsStayLeased`), a claim sets one, and every
  settlement writes a status that is not RUNNING or deletes the row.
- `ClaimsOnlyDueWorkHolds`, an action property. A claim compares the row and the
  account it locks with the worker's `now`; `SeenIsPast` says that what lay in
  the past at that moment still does, and with it the guard `Acquirable`
  implies the deadlines have passed when the claim commits.
- `RetainsRequestedWorkHolds`. `WorkIsRetained` adds to the property why no
  settlement can end a request too early: whoever holds the id of a row that is
  there has read that row, at its generation or an earlier one (`Readers`), so a
  claim of the row's generation has the row's scopes; a settlement that finds
  its claim current, or has found it so, has therefore covered all that is owed
  (`Covered`); and nothing is owed for what is disabled (`Forgiven`), which is
  why the purge loses nothing. Producers only add (`AskingRetains`); every other
  step keeps a row, resets it, or ends it when nothing more is needed of it
  (`FadingFrame`).

The same module proves the two refinements, under `QueueInvariant`, the
invariants above taken together:

- `ImplementsAccountLockHolds`. The mapping shows as holder of an account who
  has an unexpired lease that is registered for it. Each step changes holders
  and limits as one action of `AccountLock` does, or not at all: claims
  acquire, settlements release or limit, a passing deadline ends a lease or a
  limit, and everything else keeps the holders (`Keeps`).
- `ImplementsRequestRowsHolds`. Rows are mapped by `View`. The refinement rests
  on `ClaimsAreRunning`: as long as no lease was outlived or abandoned, a claim
  whose row was not deleted is the running row's, so that a settlement finishes
  what was begun. After such a fault a late settlement may finish what somebody
  else has begun, which `RequestRows` allows when `faulty`.

## NotificationDelivery: creation and delivery of notifications

`NotificationDelivery.tla` models `emitEvent` and `testChannel` of
`notifications.service.ts`, `notification-delivery.service.ts` and
`browser-push.service.ts`. A deliverer is one invocation of `deliverPending`:
`Emitters` start it for the rows they have just created, `Timers` for every
pending row that is due.

| pc | in the code | steps that leave it |
|---|---|---|
| `idle` | not running | `Emit` (`findMatchingChannels`, `testChannel`), `ReadDue` (`scheduleRetries`) |
| `creating` | before `createMany` | `CreateDeliveries` |
| `created` | before the emission's own reads | `ReadOwn` |
| `delivering` | in the loop of `deliverPending` | `Deliver` |
| `sending`, `recording` | `deliverApprise` | `SendApprise`; `RecordApprise`, `RejectRecord` |
| `users` | the loop over recipients | `ReadSubscriptions` |
| `pushing`, `results` | `Promise.all` over the devices, then one record per result | `Push`; `RecordResult` |
| `closing` | a recipient failed, or there is none | `RecordFailure` |
| `finishing` | before `finish` | `Finish` |

`Crash` may happen at every one of them. `UpdateChannel`, `DeleteChannel`,
`RegisterDevice`, `RemoveDevice` and `RemoveUser` are what administrators and
users do meanwhile. A subscription that was removed does not come back: its
endpoint would be registered under a new id.

What is abstract:

- **Snapshots** hold what `deliver` derives from the row it was given (its next
  number, the devices reached, whether the channel was reached) in place of the
  attempts themselves. Nothing between the read and the use changes them.
- **Attempts** are a set: two equal attempts are one. No property counts them.
- **Time** is `due`, as in the queue. A retry deadline is a minute ahead and is
  never seen as past by the statement that stores it.
- **Rules**: a delivery is a channel that matches its event, so the matching by
  repository and workflow pattern is the choice of `Deliveries` and `EventOf`.
- **Reads that nothing can come between usefully** are one step:
  `createEventDeliveries` reads the ids and `deliverPending` the rows.
- A push service's "gone" and the delete it causes are one step, and
  `Promise.all` ends when each of its sends has; in the code a rejected send
  ends it sooner, while the other sends go on unobserved. Their results are
  dropped either way.
- **History.** `sent[d][t]` counts successful sends of a row to a target;
  `lost` those whose success was never recorded.

### Properties and runs

| Property | What it says |
|---|---|
| `DeliveredIsRecorded` | an Apprise delivery shown as delivered has a successful attempt on record |
| `DuplicatesAreBounded` | a target is reached again only by deliverers that overlap or because a success could not be recorded |
| `OnlyOverlapReopens` | nobody takes up a row that is delivered or failed, and only a deliverer that had read it before changes its status, and is done with it then |
| `DeliveriesSettle` | a pending row is delivered, given up, or its channel is off |

| Run | Instance | Distinct states |
|---|---|---|
| `notifications` | an Apprise and a push channel, a notification by either and a test, 1 user with 1 device, an emitter and a timer that overlap, 1 fault, 1 change | 334 000 |

The bounds: `maximumAttempts` is 2 (3 in the code): one attempt that leaves the
row pending and one that settles it. `MaxEvents` is 1: one of the three has a row
at a time, and the two deliverers meet in it. What this run does not reach, an
emission with rows of two channels and a recipient with two devices of which one
is reached and one is not, is in the model and in the theorems below, which hold
for any rows, users and devices. Deadlock is not checked
where channels can be deleted: when every channel is gone, or the single test
of a run has been sent, the system has nothing left to do.

Fairness: weak fairness of each deliverer's next step and of each deadline, for
the reasons given for the queue; an emission that dies is finished by the
timer. Emissions, faults and changes are not assumed to happen or to stop
other than by their bounds.

A recipient whose only device turned out to be gone counts as reached, so that
no property claims that everybody received what is marked delivered.
With two deliverers `finish`, which writes by id, can reopen or fail a row that
the other one has settled. No document says that it may not, and the code does
nothing against it: `OnlyOverlapReopens` confines it to deliverers that had read
the row before it was settled, each of which writes it once, and
`DuplicatesAreBounded` says how many sends that can cost. Its bound is that of
all deliverers and losses together, and not of those that touched the target.

### Proofs

`NotificationDeliveryProofs.tla` proves for any channels, deliveries, devices
and deliverers:

- `TypeCorrect`. `TypeOK` needs two strengthenings. `Numbered` says that the
  attempts of a row have a highest number, without which `NextNumber` chooses
  nothing; `Working` that a deliverer in a phase that has a job works on a row,
  with finitely many results, so that what is lost with them can be counted.
- `DeliveredIsRecordedHolds`, from the invariant `Evidence`. `finish` writes by
  id what its snapshot says, whatever became of the row meanwhile; so the
  invariant speaks of what deliverers carry. Rows they know of exist or were
  deleted with their channel for good (`Known`), and a snapshot that saw a
  success, or a job that is about to finish with one, has a successful attempt
  behind it (`Safe`). `Persists` shows that no step takes that away: attempts
  are only added, lose a device's name, or go with the row itself.
- `DuplicatesAreBoundedHolds`, the bound on repeated notifications, for finitely
  many emitters and timers. The property counts, so its invariant does:
  `Balance` says that the successes of a row at a target exceed the lost ones
  by no more than the deliverers that are spent. What makes a deliverer spent
  (`Spent`) depends on the target. Before a success is on record, it is one
  that holds an unrecorded success (`HasSent`); afterwards, one whose snapshot
  and job no longer allow it a send (`MaySend`), since whoever reads the rows
  from then on sees the record (`Off`). So a send makes its deliverer spent and
  a record may free only those that could still send, but makes everyone else
  spent for good (`Lasts`); a crash or a rejected statement pays for what it
  loses with `lost` (`Accounts`, one lemma per action). `Shape` says that a row
  a deliverer works on is in its batch no more, and a user or device it is
  done with not in its job: without it a deliverer might send twice. TLC
  checked `Balance` before it was proved, on both instances above and on more
  than ten million states of a push channel with two deliverers.
- `OnlyOverlapReopensHolds`, for any deliverers and however they overlap, from
  `Shape`: a row is taken up only as it is read pending (`PendingDue`), and whoever
  writes a row has it in its job and not in its batch, so that it is done with it
  when it has written.

## WorkItemSync: issues and pull requests

`WorkItemSync.tla` models one domain (issues, or pull requests) of one
repository: `synchronizeIssues` and `synchronizePullRequests` of
`work-item-sync.service.ts`, `listPages` of the adapters and the events of
`notifications.service.ts`. A syncer is one execution:

| pc | in the code | steps that leave it |
|---|---|---|
| `idle` | not running | `BeginSync` (the time it synchronizes through) |
| `window` | in `syncWindow` | `ReadCursor` |
| `listing` | in `listPages` | `ListPage`, one request each: recent items, and at first all open ones |
| `persisting` | the loop over the items | `ReadPrevious`, `AdvanceCursor` when there is none left |
| `upserting` | before the transaction | `Upsert` |
| `emitting` | events left to emit | `Emit` |

`Crash` may end it anywhere; the queue then starts another one. The provider's
items are opened, closed, merged, reopened and edited at any time, also between
two pages.

What is abstract:

- **Time** is a clock of a few ticks, because here order is not enough: windows
  compare stamps. A stamp lags by at most `Skew` (rounding to seconds, another
  clock); `WorkItemConstants` assumes what the code relies on, that the overlap
  of five minutes is not less. Two changes of one item have different stamps.
- **Listings** are sorted by time of update. GitHub and GitLab ask for it;
  Gitea and Forgejo sort issues their own way. Where the update boundary is
  applied by the adapter (pull requests) the pages are the same.
- **Items are persisted in any order**, a superset of the listing's.
- **Nothing is deleted or transferred** at the provider. A deletion shifts pages as
  an issue that closes does; `ProviderListing` has it.
- **One channel** is subscribed to everything; an event's delivery is
  `NotificationDelivery`'s subject.
- **History**: `real` (when an item changed, by the true clock),
  `first` (the first cursor), `told[i]` (the state subscribers know `i` to be
  in, from the silent baseline or from events) and `lost` (a synchronization
  died before its events of an item).

### Properties and runs

| Property | What it says |
|---|---|
| `CursorCoversChanges` | what changed before the cursor is stored as it is |
| `SubscribersAreCurrent` | subscribers know the stored state of every item, unless a synchronization died between storing and announcing |
| `NewsIsNew` | no event repeats what subscribers know |
| `ChangesAreStored` | every change arrives in the database |

| Run | Instance | Distinct states |
|---|---|---|
| `items_sync` | 2 pull requests, pages of 1, 2 changes, 1 crash, skew 1 | 886 000 |

Pages of one item make two items enough for every shift between pages; three
ticks give a window before, at and after a cursor. The passing runs have one
syncer: they say what holds as long as the queue keeps synchronizations of a
repository apart. It does not when one outlives its lease (`OverrunLease`), and then an
upsert, which compares no stamps, can put an older state behind a newer cursor.
Fairness is weak fairness of each syncer's next step, which includes being
started again: a reconciliation polls every 30 minutes.

### Proofs

`WorkItemSyncProofs.tla` proves `CursorCoversChanges`, `SubscribersAreCurrent`
and `NewsIsNew` for any finite set of items, any page size, clock, lag within
the overlap, and numbers of changes and crashes. Each theorem has the hypothesis
`OneSyncer`: there is one synchronization of the repository at a time. That is
what the queue guarantees while leases last (`AccountExclusion`, proved for the
queue); without it the three are false, as said above. One invariant gives all of
them, `Invariant`:

- `Versions`. What a synchronization has read, what is stored, and what is at
  the provider are versions of an item in this order (`IsEarlier`); none of them
  can be overtaken, because an item's stamps grow.
- `News`. Between the upsert and the last event, what is left to emit is what
  leads from the state subscribers know to the stored one (`Emits`).
- `Coverage`. A change before the start of a synchronization has a stamp in its
  window (`Window`, from the overlap and the lag), and is stored or still to be
  read (`Covers`). While pages are read items move between them, and a listing
  is not a snapshot; but an item that has not changed since can only move towards the end of
  the listing, so its rank is never before the page that is read next. When a page
  comes back short, the ranks before it are all taken by others, and none is left
  for an item that was not read (`RanksFill`, by the pigeonhole principle).

## WorkflowRunSync: workflow runs and a pull request's aggregate

`WorkflowRunSync.tla` models the workflow part of `syncRepository` in
`sync.service.ts` for one repository, `evaluateWorkflowRun`, and the
association and aggregate of `work-item-sync.service.ts`.

| pc | in the code | steps that leave it |
|---|---|---|
| `idle` | not running | `BeginSync` (`synchronizationStartedAt`; the cursor has been read) |
| `listing` | before `listWorkflowRuns` | `ListRuns` (with the reads that say which stored runs to refresh) |
| `working` | refreshing runs one by one, then storing them | `FetchRun`, `LoseRun`; `PersistRun`; `AssociateRuns` when there is none left |
| `announcing` | a run is stored, its event is not emitted | `AnnounceRun` |
| `aggregating` | before `refreshPullRequestWorkflowStatus` | `RefreshAggregate` |
| `finishing` | before `markSynchronizationSuccess` | `MarkSuccess` |

`Crash` may end it at each of them. `PersistPullRequest` is the refresh that
the synchronization of pull requests makes. The provider starts, ends, reruns
and deletes runs at any time.

What is abstract:

- **Listings** select runs by a stamp: the time of creation at GitHub, of the
  last update at GitLab (`query`, chosen once). They are one request here; how
  pages shift is `ProviderListing`'s subject. Gitea and Forgejo are not modelled.
- **One pull request**, open, stored before its runs, on whose source branch all
  runs are. The provider names it for the runs in `Named`; the others get it
  from `AssociateRuns` and lose it again whenever they are stored.
- **Statuses**: RUNNING stands for QUEUED too, CANCELLED for SKIPPED.
- **History**: `ahead` (runs changed since the synchronization that set the
  cursor began; `moved` collects them), `missed` (runs with a change whose stamp
  no later listing selects), `unsaid` (a stored status no event told: baseline,
  or a crash), `interrupted` (a crash between a row and the aggregate).

### Properties and runs

| Property | What it says |
|---|---|
| `CursorCoversRuns` | what changed before the cursor is stored as it is, apart from `missed` |
| `OutcomesAreAnnounced` | every stored outcome was announced, apart from `unsaid` |
| `RecoveriesFollowFailures` | a recovery follows a failure that subscribers could know of |
| `AggregateIsCurrent` | a completed synchronization leaves the newest runs' aggregate, apart from `interrupted` |
| `ActiveRunsSettle` | no run stays active in the database after it ended or vanished |

| Run | Instance | Distinct states |
|---|---|---|
| `runs_sync` | 2 runs of one workflow, one of them named, both kinds of listing, 2 changes, 1 crash, skew 1 | 633 000 |

Two runs are what a comparison of runs needs (newest, previous outcome); two
changes make a run start and end, or end and run again, between two
synchronizations. The exceptions in the properties are what the code leaves
open, and each is needed: the workflow cursor is the start of the last
synchronization without the overlap that work items have, so that a change with
a lagging stamp, or a rerun of an old run at GitHub, is seen only while the run
is failed or active; and an event is emitted after its row is stored, and
never if the process dies in between. Fairness is weak fairness of the
synchronization's next step, its start included, as for work items.

### Proofs

`WorkflowRunSyncProofs.tla` proves the four safety properties for any runs,
workflows, stamps, lags, changes and crashes; the module has one synchronization
by construction. `Invariant` has these parts:

- `Order` and `Real`: the stored cursor lies before the start of the
  synchronization, nothing is queued when it finishes, and what is stored or
  queued exists or has existed at the provider.
- `Coverage`. `CursorCoversRuns` says nothing of runs that changed since the cursor was
  set, and is not inductive. What has to be known of them is that
  the next listing or the next refresh will see them: the stored status is the
  provider's, or the stamp is not before the cursor, or the run is stored as
  active. Once the listing is over the same must hold for the time at which the
  synchronization started, because that is the next cursor: of each run that is
  stored, of each that is queued (`Fits`), and of no other, as all that need it
  are queued or to be fetched (`Pending`). A run that ends without a listing to
  show it was active before, and is stored as such: this is why
  `findWorkflowRuns` has to refresh what is active.
- `Aggregates`. The aggregate may be out of date while runs are stored, because a
  run for which the provider names no pull request loses the one it had. Then
  there is a run without one (`Loose`), for which `AssociateRuns` refreshes the
  aggregate.
- `OutcomesAreAnnounced`, inductive with the types. `RecoveriesFollowFailures`
  follows from it: the failure before a recovery is stored, thus announced or in
  `unsaid`.

`ListRuns` chooses its order among `SetToSeqs(Listed)`; that there is exactly one
order is not needed, only that it lists every run (`QueueListed`).
## RepositoryIntake: webhooks and tracked repositories

`RepositoryIntake.tla` composes three sources of work with the queue's
abstraction `RequestRows` (the module that `SyncQueue` is shown to implement):
`addRepository` of `provider-accounts.service.ts`, `receive` of
`webhook.service.ts` and the reconciliation.

| Actor | in the code | its steps |
|---|---|---|
| a request of the provider | `WebhookController`, `receive` | `Send`; `Authenticate` (one read of the repository, then the signature); `InsertDelivery` and `CommitDelivery` (one transaction, in which `EnqueueWebhookRepository` reads the repository again); `LoseRequest` |
| an administrator who adds a repository | `addRepository` | `Discover`, `Track`, `AskFirst`; `AbandonAdding` |
| other administrators | account, repository, secret | `UpdateAccount`, `RemoveAccount`, `SwitchRepository`, `ChangeSecret`, `ConfigureHook` |
| the queue | timers | `Reconcile`, `Begin`, `Finish`, `DropUnwanted` |

A transaction that has inserted a delivery blocks another insert of the same
key and the deletion of its repository (`Open`); everything else of PostgreSQL's
locking is left out. A signature is the secret it was made with.

| Property | What it says |
|---|---|
| `EnqueuedOnce` | a delivery is enqueued once if it is on record and never if it is not, however often it is sent, apart from `overtaken` |
| `AcceptedIsEnqueued` | an answer of 202 means that the work was enqueued, for duplicates too, apart from `overtaken` |
| `QueuedAreTracked` | no request outlives its repository |
| `TrackedIsSynchronized` | a tracked repository is synchronized although the process may die before it asks |
| `DisabledIsDropped` | requests of what is switched off go away |

`overtaken` is history: the deliveries whose repository or account was switched
off while a request for them was between the read that authenticates it and the
one in its transaction. The second read then enqueues nothing, `receive` ignores
that (`webhook.service.ts:79-93`), and the delivery is committed and answered as
accepted; sent again it is a duplicate. The code loses no other delivery, and
what is lost is work for a repository that was just switched off: when it is
switched on again, the reconciliation asks for it (`TrackedIsSynchronized`).

Run `repository_intake`: 1 repository, 1 delivery sent twice by 2 parallel
requests, 2 administrators who add it, 3 changes, 1 crash. One delivery suffices
because deliveries meet only in the row, which keeps every scope
(`ImplementsRequestRows`). Fairness: the timers fire and transactions end.
The scopes a delivery asks for are a constant of the module; its instance takes
them from the provider's events by way of `ProviderAdapters`.

`RepositoryIntakeProofs.tla` proves `EnqueuedOnce`, `AcceptedIsEnqueued` and
`QueuedAreTracked` for every instance, from one invariant of four parts. An open
transaction is the only one with its key and its repository is there
(`Transacting`), which is what the unique index and the foreign key give; a
delivery is enqueued just if it is on record, or was overtaken, until its account goes
(`Recording`), because between the two reads its repository accepts, or it has been
overtaken (`Receiving`); and only what is tracked is enabled or has a request
(`Tracking`). The two liveness properties are TLC's.

## RecordRetention: expired runs and work items

`RecordRetention.tla` models `workflow-run-retention.service.ts` statement by
statement: `Start`, `Sum` (the `groupBy`) and `DeleteRuns` (increments, delete
and commit) for the default period, `ReadOverrides` and `NextRepository` for
the repositories with one of their own, then `DeleteIssues` and `DeletePulls`.
Synchronizations store, read and write runs again meanwhile, work items close,
reopen and are told of, and administrators change the periods.

| Property | What it says |
|---|---|
| `TotalIsKept` | the total runtime (retained and stored) is what the runs ever took, except for runs that were written, or whose period changed, between a sum and its delete, or were written again from an old read |
| `OnlyExpiredGo` | a run goes only under a period that was in force for its repository since the cleanup began |
| `ExpiredRecordsGo` | what has expired goes in the end, a pull request after its runs |

`total`, `raced` and `periods` are history. The exception in `TotalIsKept` is
what READ COMMITTED leaves open, and is needed: without it the model shows a run
that expires between the two statements and is deleted without being summed.
`OnlyExpiredGo` speaks of periods rather than of the period: an override that is
read once is applied later, whatever it has become.

Run `retention`: 1 repository, 1 run, 1 issue, 1 pull request, 2 periods,
3 days, 2 changes, 1 crash, 1 cleanup. Two runs differ in nothing but the sum
they belong to. The two safety properties were also checked with two cleanups
at once and four changes (11.4 million states). Fairness: time passes and a
cleanup that has started goes on, or another one starts.

`RecordRetentionProofs.tla` proves `OnlyExpiredGo` for any number of cleanups.
`PeriodsAreKept` is the invariant: whatever period a cleanup carries, read from
the settings or from a list of overrides it works off, was in force for its
repository since a cleanup began, and so was the one in force now; with the
cleanup's `now` in the past a run it deletes has expired under that period.

It also proves `TotalIsKept`, for any finite set of runs. `Accounts` is the
invariant: as long as no run of a repository has raced, the sum an open cleanup
has read is that of the runs it would delete now (`SumsHold`), and two cleanups
that are open have raced each other over every run (`OneIsOpen`), so that the
delete of one never takes what the other has summed. The delete then moves to
the retained duration exactly what it removes (`TimeSplit`). These sums are
`MapThenSumSet` of the community modules, and what it computes is proved from its
definition (`SumExists`, `SumsAgree`, `TimeAny`): of the sizes of sets for which
it is wrong there would be a least one (`LeastElement`), which takes the place of
an induction theorem. `RetentionConstants` asks for finitely many runs, for only
finite sets have sums. TLC checked `Accounts` first, with two repositories, two
cleanups and three changes, on the first 18 million states of a search it did
not complete.

## SecurityAlertSync: security alerts

`SecurityAlertSync.tla` models `security-alert-sync.service.ts`: listings of
each kind (`ListKind` at GitHub, `ListAll` at GitLab, `ListNothing` elsewhere),
then for each kind `ReadSyncState`, for each alert `ReadPrevious`, `Upsert` and
`Emit`, and `StoreSyncState`. Alerts and access to them change at the provider,
and `Crash` may end the synchronization anywhere.

| Property | What it says |
|---|---|
| `SubscribersAreCurrent` | subscribers know the state of every stored alert, unless a synchronization died between storing and announcing it |
| `BaselineIsSilent` | an event follows an established baseline of its kind and tells something new, however often access was refused |
| `AlertsAreStored` | an alert of a readable kind arrives although other kinds are refused |

Run `alerts`: 2 alerts of different kinds, GitHub, GitLab and Gitea, 2 changes,
1 crash (672 000 states). Two kinds are enough to tell one kind's refusal from
the other's. What a provider calls a state and what is stored for it
(`ProviderStates`, `AlertState`) are part of the module.

`AdapterProofs.tla` (its last part) proves the two safety properties for any kinds,
alerts, changes of access, refusals and crashes, with `OneSyncer` (one
synchronization of the repository at a time, as the queue guarantees) as a
hypothesis. `Persists` is the invariant of a synchronization: the alerts it
works off are of the kind in progress, whose state and whose rows are still as
it has read them, so that an event that is not silent follows a baseline that is
stored, and tells something else than what was stored before; what was stored
before is what subscribers know (`SubscribersAreCurrent`, which is needed for
`BaselineIsSilent` and the other way round).

## ProviderAdapters and ProviderListing

`ProviderAdapters.tla` holds what is a function in the four adapters, in
`workflow-status.ts`, `provider-request.error.ts` and `provider-retry.ts`:
when a listing ends, duplicates, the status of a run, the delivery id and the
scopes of a webhook, headers and delays.
An answer is the record of the fields a decision depends on.

`ProviderListing.tla` lets a synchronization use them: `ReadPage` is a round of
a listing's loop, while items are created, changed and deleted between two
pages; `Fail` is any response or error at any page, after which the
synchronization is repeated from the start or given up; `Refresh` is
`getWorkflowRun` with every answer a provider gives.

Listings are not alike. Work items and GitLab's runs are selected and sorted by
their update. GitHub's runs are selected by their creation
(`github-actions.adapter.ts:254`, `SelectedBy`). Gitea and Forgejo are not asked
to sort runs, and return the last created first; the adapters stop at the first
page with a run that was not updated since the boundary all the same
(`gitea-actions.adapter.ts:204`, `forgejo-actions.adapter.ts:217`), so that an old
run that was run again is skipped behind a newer one that rests. `Promised` says
what each listing is read for, given that, and `outdated` is history: the ids
that were out of date when the reading began. What a listing skips is still
refreshed one by one while it is stored as active (`WorkflowRunSync`).

| Property | What it says |
|---|---|
| `AllIsRead` | what the listing is read for (`Promised`) and was not touched meanwhile is read, wherever pages and boundary fall, unless an item left the listing |
| `LatestReadingCounts` | of an item that was read twice the later reading is stored |
| `StatusesFollowRuns` | runs that are under way or wait are stored as active, those that are over are not, and a completed one is only if it asks for an approval, at every provider |
| `RetriesBackOff` | retries lie ahead, within a day, and further out each time; a rate limit holds the account back even when the synchronization is given up |

Run `listing`: pages of 2, 3 items, 1 change, random numbers at both ends. Page
size 2 with 3 items has full, partial and empty last pages; a boundary lies
before, at and after each item.

`Underway` and `Over` are what a provider answers for a run: with and without a
conclusion, a time of completion and a duration, which GitLab counts in seconds
and Forgejo in nanoseconds, also of a run that has not stopped (`GitLabRun`,
`ForgejoRun`). GitLab's `canceling` and `waiting_for_callback` (`Unknown`) have no
case in `normalizeWorkflowRunStatus` and are stored as UNKNOWN, which is not
active, although the pipeline goes on: `StatusesFollowRuns` excepts them. No
property speaks of durations, which are shown and decide nothing.
One clock parses a header and takes the decision; that a header misread because
of another clock (`provider-request.error.ts:81`) does little harm is seen
through the cap of one day.

`AdapterProofs.tla` proves all four properties for any page size, any number of
items and of changes, and any random numbers:

- `ListingInvariant` is the inductive invariant of `AllIsRead` and
  `LatestReadingCounts`. An item's rank is the number of items before it in a
  listing (`Rank`); the page that is read next begins at a rank. `ReadIsComplete`
  says that of what was not touched all of a smaller rank has
  been read that the listing is read for (`Owed`): reading a page extends it by the page (`KeptIs`), and a change at
  the provider can only push an untouched item to a larger rank, because what
  changes becomes the latest (`EditsOK`) and, as long as nothing has left, none
  moves up. `ReadIsCurrent` says that what was read of an untouched item is what
  is there, and `InOrderOfReading` that the last reading of an item comes last
  among all that was read, from which `UniqueById` takes it. TLC checked
  `ListingInvariant` with pages of one and of two before it was proved. Of Gitea's and
  Forgejo's runs an untouched one that is newer than all that was out of date is on
  no page after one that ends the listing.
- The lemmas beneath it are about finite orders: the elements of a finite set
  have different ranks (`RanksDiffer`) without gaps (`RanksFill`, by the
  pigeonhole principle), so that `InOrder`, by which a listing is sorted and
  filtered, names each of them once. `InOrder` picks by rank because what a
  recursive definition of sorting computes could not be proved.
- `RetriesBackOff` rests on `JitterIsBounded`: up to a fifth on top of a delay
  that doubles, both capped, never exceeds the next delay. `Waiting` carries the
  bound from one attempt to the next.
- `StatusesFollowRuns` is proved provider by provider (`GitHubRunFollows` and its
  siblings) over the answers the model has.

What remains bounded are the responses and answers: `Responses`, `Underway` and `Over`
are the cases the code distinguishes, with one or a few numbers for each.

## Identity: users, passwords and single sign-on

`Identity.tla` models who may use the application. A request is one invocation
of `setup`, `signIn`, `updatePassword`, `create`, `remove`, `updateConfig`,
`begin`, `callback` or `exchange`; `pc` says before which statement it stands,
and `request` what it has read so far. Two of the transactions are split into
their statements, because nothing locks what they read (`CountPending` and
`CreateLogin`; `FindLogin` and `ConsumeLogin`); the setup holds its advisory
lock. `updateConfig` is two steps, a read and a transaction that writes every field:
what was chosen, and otherwise what was read. If what it says of security differs
from what was read it counts as a change (`ChangeSettings`: a new revision, logins
and codes deleted, sessions void), and else as a `RewriteSettings`, which voids
nothing. `Settings` are what a configuration can say of security, `Ready` those
with which users can sign in. A token says which user, of which creation, and the session version.

| Property | What it says |
|---|---|
| `SignsInOnce` | a login leads to one code and one session at most |
| `StaysInitialized` | the setup stays closed unless two administrators delete each other at once |
| `AcceptedSessionsAreCurrent` | no session is accepted that was signed with what was read before a change of the password, a denial or a change of the configuration, unless the last of these is a rewrite that put back what another update had replaced (`restored`) |
| `ChangesInvalidateSessions` | what `docs/authentication.md` says: a step that changes what the configuration says of security leaves no session of the provider's users accepted (violated) |
| `PendingIsBounded` | the pending logins of a browser exceed their limit by no more than the requests that count at once |

`epoch` is history: how many events should have voided a user's sessions,
independently of the version the code stores; and so is `restored`. A browser
without a cookie begins under a new binding, so that nothing bounds the pending
logins of all browsers together.

Run `identity_stale` shows the exception at work. Two updates read the
configuration; one changes it, a login yields a session, then the other, which
wanted another display name, writes the old settings back, with the revision of
the new ones and without voiding anything: the configuration has changed and the
session stays accepted. The finding in `PROJECT.json` quotes the document.

Run `identity`: 2 local users and 1 subject,
2 browsers, 3 logins, 2 settings, 2 requests at once, at most 7 operations, with symmetry. Two requests
are what every race here needs; seven operations reach a login that begins,
returns twice and is exchanged, after a setup and a configuration.

The four that hold are proved for any number of users, browsers, logins, settings and requests.
`IdentityProofs.tla` has `TypeCorrect`, with what a request must have read
before each of its statements (`KnowsEnough`), and
`AcceptedSessionsAreCurrentHolds`: versions are given in order and a version tells one epoch, so that a session
signed with the stored version was read in the epoch that lasts, or settings were stored back since; and a user who
is created again is another one (`SessionsFollow`). Of the other three: at most one request at a time bears a login that is spent and has
no code yet, or redeems a code that is spent and has no session yet
(`OneSignIn`); a setup follows only the deletion of a last user, and without overlapping
deletions another user remains after each one under way (`SetupIsClosed`); and the pending logins of a browser, together with those that its requests which have counted are
about to add, stay within the limit and the requests (`PendingIsCounted`).


## Plan

Done, in this order: the queue with its refinements and its safety
properties proved; notification delivery, with its safety properties proved; work items, workflow runs and security alerts, with their safety
properties proved; the intake of webhooks
and repositories, composed with the queue's abstraction and proved; retention and sign-in,
with their safety properties proved; the adapters' functions and listings, with
their properties proved.

Left, the most useful first:

1. Two synchronizations of one repository at once, after a lease was outlived
   (`OverrunLease`): the previous states they read and the events they announce
   twice, and which of them writes a cursor or an aggregate last. One hazard
   in `PROJECT.json` without a property (`work-item-sync.service.ts:322`, with three
   more places) is of this kind.
2. The deletion of a repository or an account as a step of the queue. For the
   row it is what disabling and purging do in two steps, which are modelled.
3. The order of changes within one listing (`sync.service.ts:285`), and the
   change-request state cached on runs.


## What is model-checked only

Liveness (`RequestsSettle`, `DeliveriesSettle`, `ChangesAreStored`,
`ActiveRunsSettle`, `TrackedIsSynchronized`, `DisabledIsDropped`,
`ExpiredRecordsGo`, `AlertsAreStored`)
is checked by TLC and not proved: fairness and ENABLED are out of the prover's
reach. Every safety and action property a passing run checks has a theorem.
What a recursive definition computes can be proved only where
its values are numbered by something finite, as the sums of `RecordRetention`
are by the sizes of sets.

The proofs assume nothing but the named assumptions on constants
(`ConstantsAssumption`, `DeadlinesAssumption`, `NotificationConstants`,
`RetentionConstants`, `IntakeConstants`, `IdentityAssumption`,
`WorkItemConstants`, `WorkflowRunConstants`, `AlertConstants`,
`BoundsAssumption`, `MissingAssumption`), which TLC
evaluates in the runs, and one hypothesis that is part of its theorems:
`OneSyncer` for work items and alerts, whose runs `items_sync` and `alerts` have
one syncer. What must be finite, the deliverers whose sends are
counted and the runs whose durations are summed, is so in a process with
finitely many invocations and a table with finitely many rows.

## Deviations seen that no run states

- One rejected delivery ends the loop over the others
  (`notification-delivery.service.ts:90`), for instance when the row was deleted
  with its channel: the remaining ones wait for the timer, although the comment
  (line 74) says "Attempt every requested pending delivery once". `DeliveriesSettle` shows that
  they are delivered in the end.
- An accepted delivery is not enqueued, and cannot be sent again, if its repository
  is switched off between the two reads of `receive` (`webhook.service.ts:79-93`
  ignores what `enqueueWebhookRepository` returns): `overtaken` in `EnqueuedOnce`
  and `AcceptedIsEnqueued`.
- A recently updated run is not listed when it is older than the boundary (GitHub),
  or than a run that rests (Gitea, Forgejo): `Promised` in `AllIsRead`.
- GitLab's `canceling` and `waiting_for_callback` become UNKNOWN and are not refreshed
  until a listing shows them again: `Unknown` in `StatusesFollowRuns`.
- A pending delivery of a disabled channel is retried every minute for as long as
  the channel is disabled (`notification-delivery.service.ts:103`).
- An open issue can be missing from a first listing when another one is closed
  while its pages are read. It arrives once it changes or the first listing is
  repeated; `AllIsRead` and `CursorCoversChanges` name the case.
- A process that dies between storing a state and emitting its event loses the event
  (`lost` and `unsaid` in `SubscribersAreCurrent` and `OutcomesAreAnnounced`); two
  administrators who delete each other at once leave nobody (`overlapped` in
  `StaysInitialized`); and runs that change while they are summed are counted wrongly
  (`raced` in `TotalIsKept`). These properties show that there is no other way.
- After a crash between a run and the aggregate of its pull request, the
  aggregate stays old until the next change of a run (`interrupted` in
  `AggregateIsCurrent`).

## Not modelled

- **Parts without control of their own**: queries, the dashboard's aggregates,
  controllers, DTOs and the table of abilities. They read, filter and copy; the
  state they show is that of the modules above.
- **Single writes**: avatars, access tokens of the MCP server, the creation and
  configuration of accounts, channels and repositories apart from what other
  parts race with (switches, secrets, recipients, deletion).
- **Transport and formatting**: HTTP, Apprise, the OIDC protocol, payloads,
  encryption, the fields of provider answers that are only copied.
- **The web application**, 13 000 of the 31 000 lines of the implementation:
  pages and cards over the API, whose state is the browser's.
- **Durations**: nothing bounds how long anything takes.
- Within modelled parts: labels, assignees and actors of work items, workflow
  filters, runs that await approval, consolidated identities of workflows,
  the change-request state cached on runs (`refreshChangeRequestStates`),
  severities of alerts, progress reports, the matching of channels by
  repository and workflow pattern.

These are most of the repository's lines, which is why the map names about a
tenth of them. What is mapped is where state changes hands: every place named
under `hazards`. `PROJECT.json` lists every component with its status and the
reason.
