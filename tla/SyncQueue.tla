------------------------------ MODULE SyncQueue ------------------------------
(***************************************************************************)
(* The durable repository synchronization queue of                         *)
(* apps/api/src/modules/providers/sync-queue.service.ts: one request row   *)
(* per repository, one synchronization lease per provider account, and any *)
(* number of overlapping invocations of processDueRequests, in one process *)
(* or in several, that claim, run and settle the requests.                 *)
(*                                                                         *)
(* Every database statement or transaction that commits by itself is one   *)
(* step.  A settlement transaction is two steps, because it reads the row  *)
(* (findUnique takes no lock) before it writes it by id and PostgreSQL     *)
(* runs it at READ COMMITTED.                                              *)
(*                                                                         *)
(* There is no clock.  A deadline (runAfter of a repository's request,     *)
(* rateLimitResetAt of an account, leaseExpiresAt of a lease token) is in  *)
(* `elapsed' once it lies in the past; a deadline that is null counts as   *)
(* elapsed.  `seen[w]' are the deadlines that had passed at the instant    *)
(* `now' worker w took before it read its candidates, the one its claims   *)
(* keep comparing with.                                                    *)
(*                                                                         *)
(* A row's uuid is abstracted to `live' in whoever read the row: whether   *)
(* the row that was read still exists.                                     *)
(***************************************************************************)
EXTENDS Integers, FiniteSets

CONSTANTS
  Repositories,        \* tracked repositories
  Accounts,            \* provider accounts
  AccountOf,           \* the account of each repository
  Workers,             \* concurrent invocations of processDueRequests
  Tokens,              \* lease tokens: randomUUID, never equal to one in use
  NoToken,             \* a lease column that is null
  Scopes,              \* provider synchronization scopes
  Alerts,              \* the scope whose failure is a warning
  MaximumAttempts,     \* maximumProviderSyncAttempts
  Environment,         \* bound: who acts besides the workers, see Produce
  MaxGeneration,       \* bound: requests merged into one row of a repository
  MaxFaults            \* bound: aborted runs, rejected commits, overrun leases

ASSUME ConstantsAssumption ==
  /\ AccountOf \in [Repositories -> Accounts]
  /\ Alerts \in Scopes
  /\ MaximumAttempts \in Nat \ {0}
  /\ MaxGeneration \in Nat
  /\ MaxFaults \in Nat
  /\ Environment \subseteq {"reconciliation", "webhook", "manual", "switches"}

ASSUME DeadlinesAssumption ==
  /\ Repositories \cap Accounts = {}
  /\ Repositories \cap Tokens = {}
  /\ Accounts \cap Tokens = {}
  /\ NoToken \notin Repositories \cup Accounts \cup Tokens

NoRequest == [status |-> "NONE"]
NoClaim   == [token |-> NoToken]

VARIABLES
  repositoryEnabled,   \* repository.enabled
  accountEnabled,      \* providerAccount.enabled
  request,             \* the repository_sync_requests row of each repository
  accountLease,        \* providerAccount.syncLeaseToken
  elapsed,             \* deadlines that lie in the past
  pc,                  \* where each worker is in processDueRequests
  seen,                \* deadlines past at the worker's `now'
  candidates,          \* rows the worker read and has not tried to claim
  claim,               \* the ClaimedSyncRequest the worker executes
  verdict,             \* how the synchronization ended: retry classification
  found,               \* what findUnique told the settlement transaction
  pass,                \* repositories a reconciliation still has to enqueue
  manual,              \* what a manual start decided from its read
  faults,              \* faults that happened so far
  owed,                \* history: requested scopes no synchronization covered
  covers,              \* history: requested scopes the running one covers
  exposed              \* history: owed scopes requested inside a settlement

rows      == <<request, accountLease>>
switches  == <<repositoryEnabled, accountEnabled>>
producers == <<pass, manual>>
local     == <<pc, seen, candidates, claim, verdict, found>>
history   == <<owed, covers, exposed>>
vars      == <<switches, rows, elapsed, local, producers, faults, history>>

Statuses == {"PENDING", "RUNNING", "FAILED", "WARNING"}
Verdicts == {"synchronized", "rateLimited", "transient", "permanent"}

Request == [status: Statuses, attempt: Nat, generation: Nat,
            scopes: SUBSET Scopes, lease: Tokens \cup {NoToken}]
Candidate == [repository: Repositories, live: BOOLEAN, attempt: Nat,
              generation: Nat, scopes: SUBSET Scopes]
Claim == [repository: Repositories, live: BOOLEAN, attempt: Nat,
          generation: Nat, scopes: SUBSET Scopes, token: Tokens]
Deadlines == Repositories \cup Accounts \cup Tokens

Enabled(r)   == repositoryEnabled[r] /\ accountEnabled[AccountOf[r]]
Queued(r)    == request[r] # NoRequest
Claiming(w)  == claim[w] # NoClaim
Holding(w)   == /\ Claiming(w)
                /\ claim[w].token \notin elapsed
Running(w)   == pc[w] \in {"syncing", "settling", "writing"}
TokensInUse  == {accountLease[a] : a \in Accounts}
                  \cup {request[r].lease : r \in {q \in Repositories : Queued(q)}}
                  \cup {claim[w].token : w \in Workers}

-----------------------------------------------------------------------------
(* Deadlines. *)

\* Write new deadlines ds in the future.  They were computed before the
\* statement that stores them, so a worker in `late', whose `now' is more recent
\* than they are, already sees them as past.
Arm(ds, late) ==
  /\ elapsed' = IF late = {} THEN elapsed \ ds ELSE elapsed \cup ds
  /\ seen' = [w \in Workers |-> IF w \in late THEN seen[w] \cup ds
                                              ELSE seen[w] \ ds]

\* Set the deadlines ds to null: every `now' accepts them.
Clear(ds) ==
  /\ elapsed' = elapsed \cup ds
  /\ seen' = [w \in Workers |-> IF pc[w] = "choosing" THEN seen[w] \cup ds
                                                      ELSE seen[w]]

\* Workers between the capture of their `now' and their last claim attempt.
Choosing == {w \in Workers : pc[w] = "choosing"}

-----------------------------------------------------------------------------
(* Rows. *)

\* Mutation: count attempts so that the first claim is attempt zero.
NewRequestZeroBased(S) ==
  [status |-> "PENDING", attempt |-> -1, generation |-> 1, scopes |-> S,
   lease |-> NoToken]

NewRequest(S) ==
  [status |-> "PENDING", attempt |-> 0, generation |-> 1, scopes |-> S,
   lease |-> NoToken]

\* Mutation: the upsert resets the lease of a running row.
MergeDroppingLease(row, S) ==
  IF row = NoRequest THEN NewRequest(S)
  ELSE [row EXCEPT !.generation = @ + 1,
                   !.scopes     = @ \cup S,
                   !.status     = IF @ = "RUNNING" THEN @ ELSE "PENDING",
                   !.attempt    = IF row.status = "RUNNING" THEN @ ELSE 0,
                   !.lease      = NoToken]

\* Mutation: the upsert replaces the requested scopes.
MergeReplacingScopes(row, S) ==
  IF row = NoRequest THEN NewRequest(S)
  ELSE [row EXCEPT !.generation = @ + 1,
                   !.scopes     = S,
                   !.status     = IF @ = "RUNNING" THEN @ ELSE "PENDING",
                   !.attempt    = IF row.status = "RUNNING" THEN @ ELSE 0,
                   !.lease      = IF row.status = "RUNNING" THEN @ ELSE NoToken]

\* INSERT ... ON CONFLICT ("repositoryId") DO UPDATE.
Merge(row, S) ==
  IF row = NoRequest THEN NewRequest(S)
  ELSE [row EXCEPT !.generation = @ + 1,
                   !.scopes     = @ \cup S,
                   !.status     = IF @ = "RUNNING" THEN @ ELSE "PENDING",
                   !.attempt    = IF row.status = "RUNNING" THEN @ ELSE 0,
                   !.lease      = IF row.status = "RUNNING" THEN @ ELSE NoToken]

\* The reset every superseded or restarted request gets.
Restarted(row) ==
  [row EXCEPT !.status = "PENDING", !.attempt = 0, !.lease = NoToken]

\* A finished request that is started by hand asks for everything again.
RestartedAnew(row) ==
  [Restarted(row) EXCEPT !.generation = row.generation + 1, !.scopes = Scopes]

\* The rows of R are deleted.  Whoever read one keeps its id, but an update or
\* delete by that id matches nothing any more.
Orphaned(c, R) ==
  IF c # NoClaim /\ c.repository \in R THEN [c EXCEPT !.live = FALSE] ELSE c

Delete(R) ==
  /\ request' = [r \in Repositories |-> IF r \in R THEN NoRequest
                                                  ELSE request[r]]
  /\ candidates' = [w \in Workers |-> {Orphaned(c, R) : c \in candidates[w]}]

\* A settlement has read the row of r as current and not written it yet.
InSettlement(r) ==
  \E w \in Workers :
    /\ pc[w] = "writing" /\ found[w] = "current"
    /\ claim[w].repository = r /\ claim[w].live

\* The row worker w claimed still exists.
RowExists(w) == claim[w].live /\ Queued(claim[w].repository)

\* Scopes S of r are wanted from now on; what already runs does not cover them.
Ask(r, S) ==
  /\ owed' = IF Enabled(r) THEN [owed EXCEPT ![r] = @ \cup S] ELSE owed
  /\ exposed' = [exposed EXCEPT ![r] =
       IF Enabled(r) /\ InSettlement(r) THEN @ \cup S ELSE @ \ S]
  /\ covers' = [w \in Workers |->
       IF Running(w) /\ claim[w].repository = r THEN covers[w] \ S
                                                ELSE covers[w]]

-----------------------------------------------------------------------------
(* Producers. *)

\* enqueueRepository: every producer's upsert.
Enqueue(r, S) ==
  /\ Queued(r) => request[r].generation < MaxGeneration
  /\ request' = [request EXCEPT ![r] = Merge(@, S)]
  /\ \E late \in SUBSET Choosing : Arm({r}, late)
  /\ Ask(r, S)
  /\ UNCHANGED <<switches, accountLease, pc, candidates, claim, verdict, found,
                 faults>>

\* enqueueEnabledRepositories reads the enabled repositories once ...
StartReconciliation ==
  /\ pass = {}
  /\ pass' = {r \in Repositories : Enabled(r)}
  /\ pass' # {}
  /\ UNCHANGED <<switches, rows, elapsed, local, manual, faults, history>>

\* ... and upserts them one by one, without looking at their switches again.
ReconcileRepository(r) ==
  /\ r \in pass
  /\ pass' = pass \ {r}
  /\ Enqueue(r, Scopes)
  /\ UNCHANGED manual

\* enqueueWebhookRepository, inside the transaction that records the delivery.
EnqueueWebhook(r, S) ==
  /\ Enabled(r)
  /\ Enqueue(r, S)
  /\ UNCHANGED producers

\* enqueueRepositorySyncIfAvailable reads the request ...
ReadAvailability(r) ==
  /\ manual[r] = "none"
  /\ Enabled(r)
  /\ Queued(r) => request[r].status \in {"FAILED", "WARNING"}
  /\ manual' = [manual EXCEPT ![r] = IF Queued(r) THEN "update" ELSE "create"]
  /\ UNCHANGED <<switches, rows, elapsed, local, pass, faults, history>>

\* ... then updates it if it is still finished, or creates it if there is none.
StartAvailable(r) ==
  /\ \/ /\ manual[r] = "update"
        /\ Queued(r) /\ request[r].status \in {"FAILED", "WARNING"}
        /\ request[r].generation < MaxGeneration
        /\ request' = [request EXCEPT ![r] = RestartedAnew(@)]
     \/ /\ manual[r] = "create"
        /\ ~Queued(r)
        /\ request' = [request EXCEPT ![r] = NewRequest(Scopes)]
  /\ manual' = [manual EXCEPT ![r] = "none"]
  /\ \E late \in SUBSET Choosing : Arm({r}, late)
  /\ Ask(r, Scopes)
  /\ UNCHANGED <<switches, accountLease, pc, candidates, claim, verdict, found,
                 pass, faults>>

\* The row changed under the manual start: it reports that nothing was queued.
RefuseStart(r) ==
  /\ \/ /\ manual[r] = "update"
        /\ Queued(r) => request[r].status \notin {"FAILED", "WARNING"}
     \/ /\ manual[r] = "create"
        /\ Queued(r)
  /\ manual' = [manual EXCEPT ![r] = "none"]
  /\ UNCHANGED <<switches, rows, elapsed, local, pass, faults, history>>

-----------------------------------------------------------------------------
(* Workers. *)

\* processDueRequests drops the requests of everything disabled.
StartProcessing(w) ==
  LET disabled == {r \in Repositories : ~Enabled(r)} IN
  /\ pc[w] = "idle"
  /\ pc' = [pc EXCEPT ![w] = "polling"]
  /\ Delete(disabled)
  /\ claim' = [v \in Workers |-> Orphaned(claim[v], disabled)]
  /\ UNCHANGED <<switches, accountLease, elapsed, seen, verdict, found,
                 producers, faults, history>>

\* Mutation: only pending requests are candidates.
ClaimablePending(row, r, past) ==
  /\ row # NoRequest
  /\ row.status = "PENDING" /\ r \in past

\* The request is due, or its lease ran out, at the instant whose past
\* deadlines are `past'.
Claimable(row, r, past) ==
  /\ row # NoRequest
  /\ \/ row.status = "PENDING" /\ r \in past
     \/ row.status = "RUNNING" /\ row.lease \in past

\* The account is not rate limited and nobody holds its lease.
Available(a, past) ==
  /\ accountEnabled[a]
  /\ accountLease[a] \in past \cup {NoToken}
  /\ a \in past

\* claimNextRequest takes `now' and reads the candidates.
ReadCandidates(w) ==
  LET due == {r \in Repositories :
                /\ repositoryEnabled[r]
                /\ Available(AccountOf[r], elapsed)
                /\ Claimable(request[r], r, elapsed)}
  IN
  /\ pc[w] = "polling"
  /\ pc' = [pc EXCEPT ![w] = IF due = {} THEN "idle" ELSE "choosing"]
  /\ seen' = [seen EXCEPT ![w] = IF due = {} THEN {} ELSE elapsed]
  /\ candidates' = [candidates EXCEPT ![w] =
       {[repository |-> r, live |-> TRUE, attempt |-> request[r].attempt,
         generation |-> request[r].generation, scopes |-> request[r].scopes] :
           r \in due}]
  /\ UNCHANGED <<switches, rows, elapsed, claim, verdict, found, producers,
                 faults, history>>

\* Mutation: the account's rate limit is not looked at again.
AcquirableRateLimited(w, c) ==
  /\ accountEnabled[AccountOf[c.repository]]
  /\ accountLease[AccountOf[c.repository]] \in seen[w] \cup {NoToken}
  /\ c.live
  /\ Claimable(request[c.repository], c.repository, seen[w])

\* claimCandidate's transaction can lease both the account and the request.
Acquirable(w, c) ==
  /\ Available(AccountOf[c.repository], seen[w])
  /\ c.live
  /\ Claimable(request[c.repository], c.repository, seen[w])

\* claimCandidate leases account and request with a fresh token.  The attempt,
\* generation and scopes it returns are those of the earlier read.
ClaimCandidate(w, c, t) ==
  LET r == c.repository IN
  /\ pc[w] = "choosing" /\ c \in candidates[w]
  /\ Acquirable(w, c)
  /\ t \notin TokensInUse
  /\ accountLease' = [accountLease EXCEPT ![AccountOf[r]] = t]
  /\ request' = [request EXCEPT ![r].status  = "RUNNING",
                                ![r].attempt = @ + 1,
                                ![r].lease   = t]
  /\ elapsed' = elapsed \ {t}
  /\ seen' = [v \in Workers |-> IF v = w THEN {} ELSE seen[v] \ {t}]
  /\ claim' = [claim EXCEPT ![w] =
       [repository |-> r, live |-> TRUE, attempt |-> c.attempt + 1,
        generation |-> c.generation, scopes |-> c.scopes, token |-> t]]
  /\ candidates' = [candidates EXCEPT ![w] = {}]
  /\ pc' = [pc EXCEPT ![w] = "claimed"]
  /\ UNCHANGED <<switches, verdict, found, producers, faults, history>>

\* claimCandidate returns null; an account lease it took over is released again.
SkipCandidate(w, c) ==
  LET a    == AccountOf[c.repository]
      last == candidates[w] = {c}
  IN
  /\ pc[w] = "choosing" /\ c \in candidates[w]
  /\ ~Acquirable(w, c)
  /\ accountLease' = [accountLease EXCEPT ![a] =
       IF Available(a, seen[w]) THEN NoToken ELSE @]
  /\ candidates' = [candidates EXCEPT ![w] = @ \ {c}]
  /\ seen' = [seen EXCEPT ![w] = IF last THEN {} ELSE @]
  /\ pc' = [pc EXCEPT ![w] = IF last THEN "idle" ELSE @]
  /\ UNCHANGED <<switches, request, elapsed, claim, verdict, found, producers,
                 faults, history>>

\* syncRepositoryById reads the repository again; a disabled one is skipped.
BeginSync(w) ==
  LET r == claim[w].repository IN
  /\ pc[w] = "claimed"
  /\ pc' = [pc EXCEPT ![w] = IF Enabled(r) THEN "syncing" ELSE "settling"]
  /\ covers' = [covers EXCEPT ![w] = IF Enabled(r) THEN claim[w].scopes ELSE {}]
  /\ UNCHANGED <<switches, rows, elapsed, seen, candidates, claim, verdict,
                 found, producers, faults, owed, exposed>>

\* The synchronization ends; an error is what providerRetryDecision makes of it.
EndSync(w, v) ==
  /\ pc[w] = "syncing"
  /\ pc' = [pc EXCEPT ![w] = "settling"]
  /\ verdict' = [verdict EXCEPT ![w] = v]
  /\ UNCHANGED <<switches, rows, elapsed, seen, candidates, claim, found,
                 producers, faults, history>>

\* Mutation: a settlement does not compare generations.
ReadCurrentIgnoringGeneration(w) ==
  LET c == claim[w] IN
  /\ pc[w] = "settling"
  /\ pc' = [pc EXCEPT ![w] = "writing"]
  /\ found' = [found EXCEPT ![w] =
       IF RowExists(w) /\ request[c.repository].lease = c.token THEN "current"
                                                                ELSE "lost"]
  /\ UNCHANGED <<switches, rows, elapsed, seen, candidates, claim, verdict,
                 producers, faults, history>>

\* findUnique in completeRequest and failRequest.
ReadCurrent(w) ==
  LET c   == claim[w]
      row == request[c.repository]
  IN
  /\ pc[w] = "settling"
  /\ pc' = [pc EXCEPT ![w] = "writing"]
  /\ found' = [found EXCEPT ![w] =
       IF ~RowExists(w) \/ row.lease # c.token THEN "lost"
       ELSE IF row.generation > c.generation THEN "superseded"
       ELSE "current"]
  /\ UNCHANGED <<switches, rows, elapsed, seen, candidates, claim, verdict,
                 producers, faults, history>>

\* Worker w is done with its claim and takes up pc p.
Forget(w, p) ==
  /\ pc' = [pc EXCEPT ![w] = p]
  /\ verdict' = [verdict EXCEPT ![w] = "synchronized"]
  /\ found' = [found EXCEPT ![w] = "lost"]

\* What the settled synchronization covered is no longer owed.
Discharge(w) ==
  LET r == claim[w].repository IN
  /\ owed' = [owed EXCEPT ![r] = @ \ covers[w]]
  /\ exposed' = [exposed EXCEPT ![r] = @ \ covers[w]]
  /\ covers' = [covers EXCEPT ![w] = {}]

\* Leave the history as it is, but for the end of the run.
Undischarged(w) ==
  /\ covers' = [covers EXCEPT ![w] = {}]
  /\ UNCHANGED <<owed, exposed>>

\* Mutation: the account lease is cleared whoever holds it.
ReleaseAccountAlways(w) ==
  accountLease' = [accountLease EXCEPT ![AccountOf[claim[w].repository]] = NoToken]

\* updateMany on the account where the token still is the worker's.
ReleaseAccount(w) ==
  LET a == AccountOf[claim[w].repository] IN
  accountLease' = [accountLease EXCEPT ![a] =
                     IF @ = claim[w].token THEN NoToken ELSE @]

OwnsAccount(w) == accountLease[AccountOf[claim[w].repository]] = claim[w].token

\* retry in providerRetryDecision.
Retries(w) == /\ verdict[w] \in {"rateLimited", "transient"}
              /\ claim[w].attempt < MaximumAttempts

\* The write of completeRequest: restart a superseded request, keep a warning,
\* delete the rest.  The row is addressed by its id alone.
WriteCompletion(w) ==
  LET c == claim[w]
      r == c.repository
      a == AccountOf[r]
      unclaimed == [claim EXCEPT ![w] = NoClaim]
  IN
  /\ pc[w] = "writing" /\ verdict[w] = "synchronized"
  /\ \/ /\ found[w] = "lost"
        /\ claim' = unclaimed
        /\ Undischarged(w)
        /\ UNCHANGED <<request, candidates>>
     \/ /\ found[w] = "superseded" /\ RowExists(w)
        /\ request' = [request EXCEPT ![r] = Restarted(@)]
        /\ claim' = unclaimed
        /\ Discharge(w)
        /\ UNCHANGED candidates
     \/ /\ found[w] = "current" /\ RowExists(w)
        /\ Alerts \in c.scopes
        /\ request' = [request EXCEPT ![r].status = "WARNING",
                                      ![r].lease = NoToken]
        /\ claim' = unclaimed
        /\ Discharge(w)
        /\ UNCHANGED candidates
     \/ /\ found[w] = "current" /\ RowExists(w)
        /\ Delete({r})
        /\ claim' = [v \in Workers |-> IF v = w THEN NoClaim
                                       ELSE Orphaned(claim[v], {r})]
        /\ Discharge(w)
  /\ ReleaseAccount(w)
  /\ IF OwnsAccount(w) THEN Clear({a}) ELSE UNCHANGED <<elapsed, seen>>
  /\ Forget(w, "polling")
  /\ UNCHANGED <<switches, producers, faults>>

\* The write of failRequest: restart a superseded request, schedule a retry or
\* keep the failure; pass a rate limit on to the account.  The deadlines it
\* writes lie at least a second ahead: no worker sees them as past.
WriteFailure(w) ==
  LET c == claim[w]
      r == c.repository
      a == AccountOf[r]
      kept  == found[w] = "current"
      limit == verdict[w] = "rateLimited" /\ OwnsAccount(w)
      armed == (IF kept /\ Retries(w) THEN {r} ELSE {})
                 \cup (IF limit THEN {a} ELSE {})
      nulled == IF OwnsAccount(w) /\ ~limit THEN {a} ELSE {}
  IN
  /\ pc[w] = "writing" /\ verdict[w] # "synchronized"
  /\ found[w] = "lost" \/ RowExists(w)
  /\ request' =
       CASE found[w] = "superseded" -> [request EXCEPT ![r] = Restarted(@)]
         [] kept /\ Retries(w)  -> [request EXCEPT ![r].status = "PENDING",
                                                   ![r].lease = NoToken]
         [] kept /\ ~Retries(w) -> [request EXCEPT ![r].status = "FAILED",
                                                   ![r].lease = NoToken]
         [] OTHER -> request
  /\ ReleaseAccount(w)
  /\ elapsed' = (elapsed \ armed) \cup nulled
  /\ seen' = [v \in Workers |->
       IF v \in Choosing THEN (seen[v] \ armed) \cup nulled ELSE seen[v]]
  /\ claim' = [claim EXCEPT ![w] = NoClaim]
  /\ IF kept /\ ~Retries(w) THEN Discharge(w) ELSE Undischarged(w)
  /\ Forget(w, "polling")
  /\ UNCHANGED <<switches, candidates, producers, faults>>

\* update and delete by id reject when the row is gone.  A rejected completion is
\* handed to failRequest, a rejected failure ends the whole invocation.
RejectMissing(w) ==
  /\ pc[w] = "writing" /\ found[w] # "lost" /\ ~RowExists(w)
  /\ \/ /\ verdict[w] = "synchronized"
        /\ pc' = [pc EXCEPT ![w] = "settling"]
        /\ verdict' = [verdict EXCEPT ![w] = "permanent"]
        /\ found' = [found EXCEPT ![w] = "lost"]
        /\ UNCHANGED <<claim, covers>>
     \/ /\ verdict[w] # "synchronized"
        /\ Forget(w, "idle")
        /\ claim' = [claim EXCEPT ![w] = NoClaim]
        /\ covers' = [covers EXCEPT ![w] = {}]
  /\ UNCHANGED <<switches, rows, elapsed, seen, candidates, producers, faults,
                 owed, exposed>>

-----------------------------------------------------------------------------
(* Faults and environment. *)

\* The database rejects a completion, which then counts as a failed run.
RejectCompletion(w) ==
  /\ faults < MaxFaults
  /\ pc[w] \in {"settling", "writing"} /\ verdict[w] = "synchronized"
  /\ faults' = faults + 1
  /\ pc' = [pc EXCEPT ![w] = "settling"]
  /\ verdict' = [verdict EXCEPT ![w] = "permanent"]
  /\ found' = [found EXCEPT ![w] = "lost"]
  /\ UNCHANGED <<switches, rows, elapsed, seen, candidates, claim, producers,
                 history>>

\* The process dies, or failRequest itself is rejected: the leases stay behind.
AbortRun(w) ==
  /\ faults < MaxFaults
  /\ Claiming(w)
  /\ faults' = faults + 1
  /\ Forget(w, "idle")
  /\ claim' = [claim EXCEPT ![w] = NoClaim]
  /\ covers' = [covers EXCEPT ![w] = {}]
  /\ UNCHANGED <<switches, rows, elapsed, seen, candidates, producers, owed,
                 exposed>>

\* A deadline that no running synchronization depends on passes.
Elapse(d) ==
  /\ d \in Repositories \cup Accounts \cup (TokensInUse \ {NoToken})
  /\ d \notin elapsed
  /\ \A w \in Workers : claim[w].token # d
  /\ elapsed' = elapsed \cup {d}
  /\ UNCHANGED <<switches, rows, local, producers, faults, history>>

\* A synchronization outlives syncLeaseMs: nothing renews a lease.
OverrunLease(w) ==
  /\ faults < MaxFaults
  /\ Holding(w)
  /\ elapsed' = elapsed \cup {claim[w].token}
  /\ faults' = faults + 1
  /\ UNCHANGED <<switches, rows, local, producers, history>>

\* What is no longer enabled is no longer owed a synchronization.
Forgive(R) ==
  /\ owed' = [r \in Repositories |-> IF r \in R THEN {} ELSE owed[r]]
  /\ exposed' = [r \in Repositories |-> IF r \in R THEN {} ELSE exposed[r]]
  /\ UNCHANGED covers

\* RepositoriesController.update.
SwitchRepository(r) ==
  /\ repositoryEnabled' = [repositoryEnabled EXCEPT ![r] = ~@]
  /\ Forgive({r})
  /\ UNCHANGED <<accountEnabled, rows, elapsed, local, producers, faults>>

\* ProviderAccountsService.update.
SwitchAccount(a) ==
  /\ accountEnabled' = [accountEnabled EXCEPT ![a] = ~@]
  /\ Forgive({r \in Repositories : AccountOf[r] = a})
  /\ UNCHANGED <<repositoryEnabled, rows, elapsed, local, producers, faults>>

-----------------------------------------------------------------------------
Init ==
  /\ repositoryEnabled = [r \in Repositories |-> TRUE]
  /\ accountEnabled = [a \in Accounts |-> TRUE]
  /\ request = [r \in Repositories |-> NoRequest]
  /\ accountLease = [a \in Accounts |-> NoToken]
  /\ elapsed = Repositories \cup Accounts
  /\ pc = [w \in Workers |-> "idle"]
  /\ seen = [w \in Workers |-> {}]
  /\ candidates = [w \in Workers |-> {}]
  /\ claim = [w \in Workers |-> NoClaim]
  /\ verdict = [w \in Workers |-> "synchronized"]
  /\ found = [w \in Workers |-> "lost"]
  /\ pass = {}
  /\ manual = [r \in Repositories |-> "none"]
  /\ faults = 0
  /\ owed = [r \in Repositories |-> {}]
  /\ covers = [w \in Workers |-> {}]
  /\ exposed = [r \in Repositories |-> {}]

Produce ==
  \/ /\ "reconciliation" \in Environment
     /\ StartReconciliation \/ \E r \in Repositories : ReconcileRepository(r)
  \/ /\ "webhook" \in Environment
     /\ \E r \in Repositories : \E S \in (SUBSET Scopes) \ {{}} : EnqueueWebhook(r, S)
  \/ /\ "manual" \in Environment
     /\ \E r \in Repositories :
          ReadAvailability(r) \/ StartAvailable(r) \/ RefuseStart(r)

Claims(w) ==
  \E c \in candidates[w] :
    \/ \E t \in Tokens : ClaimCandidate(w, c, t)
    \/ SkipCandidate(w, c)

\* One step of the code of processDueRequests.
Work(w) ==
  \/ StartProcessing(w)
  \/ ReadCandidates(w)
  \/ Claims(w)
  \/ BeginSync(w)
  \/ \E v \in Verdicts : EndSync(w, v)
  \/ ReadCurrent(w)
  \/ WriteCompletion(w)
  \/ WriteFailure(w)
  \/ RejectMissing(w)

Fault ==
  \E w \in Workers :
    \/ RejectCompletion(w)
    \/ AbortRun(w)
    \/ OverrunLease(w)

Switch ==
  /\ "switches" \in Environment
  /\ \/ \E r \in Repositories : SwitchRepository(r)
     \/ \E a \in Accounts : SwitchAccount(a)

Next ==
  \/ Produce
  \/ \E w \in Workers : Work(w)
  \/ \E d \in Deadlines : Elapse(d)
  \/ Fault
  \/ Switch

Spec == Init /\ [][Next]_vars

-----------------------------------------------------------------------------
(* Properties. *)

\* Every row, claim and deadline has the shape its columns allow.
TypeOK ==
  /\ repositoryEnabled \in [Repositories -> BOOLEAN]
  /\ accountEnabled \in [Accounts -> BOOLEAN]
  /\ request \in [Repositories -> Request \cup {NoRequest}]
  /\ accountLease \in [Accounts -> Tokens \cup {NoToken}]
  /\ elapsed \subseteq Deadlines
  /\ pc \in [Workers -> {"idle", "polling", "choosing", "claimed", "syncing",
                         "settling", "writing"}]
  /\ seen \in [Workers -> SUBSET Deadlines]
  /\ candidates \in [Workers -> SUBSET Candidate]
  /\ claim \in [Workers -> Claim \cup {NoClaim}]
  /\ verdict \in [Workers -> Verdicts]
  /\ found \in [Workers -> {"lost", "superseded", "current"}]
  /\ pass \subseteq Repositories
  /\ manual \in [Repositories -> {"none", "update", "create"}]
  /\ faults \in 0..MaxFaults
  /\ owed \in [Repositories -> SUBSET Scopes]
  /\ covers \in [Workers -> SUBSET Scopes]
  /\ exposed \in [Repositories -> SUBSET Scopes]

\* A worker has a claim exactly while it executes one.
ClaimedPhases == {"claimed", "syncing", "settling", "writing"}

ClaimPhase == \A w \in Workers : Claiming(w) <=> pc[w] \in ClaimedPhases

\* The part of the inductive invariant behind AccountExclusion: who holds an
\* unexpired lease is the registered owner of the account, no two claims share a
\* token, and no worker takes a token for expired that is not.
LeaseInvariant ==
  /\ \A w \in Workers :
       Holding(w) => accountLease[AccountOf[claim[w].repository]] = claim[w].token
  /\ \A v, w \in Workers :
       v # w /\ Claiming(v) /\ Claiming(w) => claim[v].token # claim[w].token
  /\ \A w \in Workers : seen[w] \cap Tokens \subseteq elapsed

\* While their leases last, two workers never work on repositories of one
\* account, whatever enqueues, retries, crashes and takeovers happen: claims go
\* through the account's lease, and only its owner or its expiry frees it.
AccountExclusion ==
  \A v, w \in Workers :
    v # w /\ Holding(v) /\ Holding(w)
      => AccountOf[claim[v].repository] # AccountOf[claim[w].repository]

\* Requested work is never forgotten: scopes asked of an enabled repository that
\* no synchronization has covered since are in a row that waits or runs, however
\* the request met a claim, a retry or a stale worker.  Excepted is what was
\* asked between the read and the write of a settlement.
RetainsRequestedWork ==
  \A r \in Repositories :
    owed[r] \ exposed[r] # {} =>
      /\ Queued(r)
      /\ request[r].status \in {"PENDING", "RUNNING"}
      /\ owed[r] \ exposed[r] \subseteq request[r].scopes

\* A running row can always be taken over: it carries the lease whose expiry
\* makes it claimable again.
RunningRowsAreLeased ==
  \A r \in Repositories :
    Queued(r) => (request[r].status = "RUNNING" <=> request[r].lease # NoToken)

\* No claim starts early, even from an outdated candidate: the account's rate
\* limit has passed and the request is due or its previous lease has run out.
ClaimsOnlyDueWork ==
  [][\A w \in Workers :
       pc[w] = "choosing" /\ pc'[w] = "claimed" =>
         LET r == claim'[w].repository IN
         /\ AccountOf[r] \in elapsed
         /\ Claimable(request[r], r, elapsed)]_vars

\* The timers fire, provider requests time out, the process manager restarts what
\* dies, and deadlines pass.  Nothing is assumed of producers, faults, switches or
\* of a lease that is being outlived.
Fairness ==
  /\ \A w \in Workers : WF_vars(Work(w))
  /\ \A d \in Deadlines : WF_vars(Elapse(d))

LiveSpec == Spec /\ Fairness

\* Queued work survives crashes, takeovers and retries: what is asked of an
\* enabled repository is in the end covered by a synchronization or given up
\* visibly (FAILED), or the repository is disabled.
RequestsSettle ==
  \A r \in Repositories : owed[r] # {} ~> owed[r] \ exposed[r] = {}

-----------------------------------------------------------------------------
(* What a comment of the code says, and the code does not do. *)

\* completeRequest: "retain work requested during the completed generation".
RetainsSupersedingWork ==
  \A r \in Repositories :
    owed[r] # {} => /\ Queued(r)
                    /\ request[r].status \in {"PENDING", "RUNNING"}
=============================================================================
