--------------------------- MODULE WorkflowRunSync ---------------------------
(***************************************************************************)
(* Synchronization of the workflow runs of one repository:                 *)
(* apps/api/src/modules/providers/sync.service.ts with the run listings of *)
(* the adapters, the workflow events of notifications.service.ts, and the  *)
(* runs' association with a pull request and its aggregate status in       *)
(* work-item-sync.service.ts.                                              *)
(*                                                                         *)
(* The queue runs one synchronization of a repository at a time.  Each     *)
(* request to the provider and each statement that writes is one step;     *)
(* reads of rows only this synchronization writes are part of the step     *)
(* that uses them.  The repository has one open pull request, stored since *)
(* before its runs; all runs are on its source branch and pass the         *)
(* workflow filters.  RUNNING stands for QUEUED too and CANCELLED for      *)
(* SKIPPED: nothing here tells them apart but the aggregate's precedence.  *)
(***************************************************************************)
EXTENDS Integers, Sequences, FiniteSets, SequencesExt

CONSTANTS
  Runs,            \* workflow runs, as the provider numbers them
  Workflows,       \* workflows
  WorkflowOf,      \* the workflow of each run
  Named,           \* runs for which the provider names the pull request
  Queries,         \* stamps listings select by: GitHub created, GitLab updated
  Skew,            \* how far a provider's stamp may lag behind
  Start, MaxTime,  \* bound: the clock runs from Start to MaxTime
  MaxChanges,      \* bound: changes of runs at the provider
  MaxFaults,       \* bound: synchronizations that die or are rejected
  NoCursor         \* the repository was never synchronized

ASSUME WorkflowRunConstants ==
  /\ Runs \subseteq Nat /\ IsFiniteSet(Runs)
  /\ WorkflowOf \in [Runs -> Workflows]
  /\ Named \subseteq Runs
  /\ Queries \subseteq {"created", "updated"}
  /\ {Skew, Start, MaxTime, MaxChanges, MaxFaults} \subseteq Nat
  /\ Start <= MaxTime /\ Skew <= Start
  /\ NoCursor \notin Int

VARIABLES
  query,           \* the provider's stamp that its listing selects by
  clock,
  remote,          \* the runs as the provider has them, with that stamp
  row,             \* the workflow_runs rows
  workflowStatus,  \* pullRequest.workflowStatus
  cursor,          \* repository.lastSyncAt
  announced,       \* notification events, by their deduplication key
  pc,              \* where the synchronization is
  sync,            \* its variables
  changes, faults, \* how much of the bounds is used
  moved,           \* history: runs changed since the synchronization started
  ahead,           \* history: runs changed since the one that set the cursor did
  missed,          \* history: runs with a change no listing window includes
  unsaid,          \* history: runs whose stored status no event told
  interrupted      \* history: a crash came between a row and the aggregate

provider == <<query, clock, remote, changes, missed>>
stored   == <<row, workflowStatus, cursor, announced>>
history  == <<unsaid, interrupted>>
recency  == <<moved, ahead>>
vars     == <<provider, stored, pc, sync, faults, history, recency>>

Times    == 0..MaxTime
Settled  == {"SUCCESS", "FAILED", "CANCELLED"}
NoRow    == [status |-> "ABSENT", created |-> 0, linked |-> FALSE]
NoSync   == [started |-> 0, cursor |-> NoCursor, refresh |-> {}, queue |-> <<>>,
             run |-> 0, then |-> "working"]

Known(r) == row[r] # NoRow

-----------------------------------------------------------------------------
(* The provider. *)

Tick ==
  /\ clock < MaxTime
  /\ clock' = clock + 1
  /\ UNCHANGED <<query, remote, changes, missed, stored, pc, sync, faults>>
  /\ UNCHANGED <<history, recency>>

\* Later listings select stamps from here on.
WindowStart == IF pc \in {"idle", "listing"} THEN cursor ELSE sync.started

Escapes(stamp) == WindowStart # NoCursor /\ stamp < WindowStart

\* The stamp that listings select by after a change of r at the provider.
Touched(r, t) ==
  /\ IF query = "updated" THEN t \in clock - Skew .. clock ELSE t = remote[r].stamp
  /\ t >= remote[r].stamp

\* Run r becomes v; if `out', no listing will select this change.
Alter(r, v, out) ==
  /\ changes < MaxChanges
  /\ changes' = changes + 1
  /\ remote' = [remote EXCEPT ![r] = v]
  /\ moved' = moved \cup {r} /\ ahead' = ahead \cup {r}
  /\ missed' = IF out THEN missed \cup {r} ELSE missed
  /\ UNCHANGED <<query, clock, stored, pc, sync, faults, history>>

StartRun(r, t) ==
  /\ remote[r].status = "ABSENT"
  /\ Alter(r, [status |-> "RUNNING", created |-> t, stamp |-> t], Escapes(t))

ConcludeRun(r, s, t) ==
  /\ remote[r].status = "RUNNING" /\ Touched(r, t)
  /\ Alter(r, [remote[r] EXCEPT !.status = s, !.stamp = t], FALSE)

\* A new attempt of a run keeps its number and time of creation.
Rerun(r, t) ==
  /\ remote[r].status \in Settled /\ Touched(r, t)
  /\ Alter(r, [remote[r] EXCEPT !.status = "RUNNING", !.stamp = t],
           Escapes(t))

DeleteRun(r) ==
  /\ remote[r].status \in Settled \cup {"RUNNING"}
  /\ Alter(r, [remote[r] EXCEPT !.status = "GONE"], FALSE)

-----------------------------------------------------------------------------
(* One synchronization. *)

Go(p, v) == pc' = p /\ sync' = v

\* syncRepository takes the time; the repository with its cursor has been read.
BeginSync ==
  /\ pc = "idle"
  /\ Go("listing", [NoSync EXCEPT !.started = clock, !.cursor = cursor])
  /\ moved' = {}
  /\ UNCHANGED <<provider, stored, faults, history, ahead>>

Listed == {r \in Runs : /\ remote[r].status \notin {"ABSENT", "GONE"}
                        /\ sync.cursor # NoCursor => remote[r].stamp >= sync.cursor}

\* Order of providerCreatedAt, then id.
Newer(q, r) ==
  row[q].created > row[r].created \/ (row[q].created = row[r].created /\ q > r)

SameContext(q, r) == /\ Known(q) /\ Known(r)
                     /\ WorkflowOf[q] = WorkflowOf[r] /\ row[q].linked = row[r].linked

\* The newest run of each workflow and scope.
Current ==
  {r \in Runs : Known(r) /\ ~\E q \in Runs : SameContext(q, r) /\ Newer(q, r)}

\* Mutation: only the current runs are refreshed.
RefreshableCurrent == {r \in Current : row[r].status \in {"FAILED", "RUNNING"}}

\* runsToRefresh in findWorkflowRuns.
Refreshable == {r \in Current : row[r].status = "FAILED"}
                 \cup {r \in Runs : row[r].status = "RUNNING"}

\* findWorkflowRuns lists runs, the latest first and in one page, and notes
\* the stored ones to refresh.
ListRuns ==
  LET latest(q, r) == \/ remote[q].stamp > remote[r].stamp
                      \/ remote[q].stamp = remote[r].stamp /\ q > r
      orders == {q \in SetToSeqs(Listed) :
                   \A i, j \in DOMAIN q : i < j => latest(q[i], q[j])}
  IN
  /\ pc = "listing"
  /\ \E runs \in orders :
       Go("working", [sync EXCEPT
          !.queue   = [i \in DOMAIN runs |-> <<runs[i], remote[runs[i]].status>>],
          !.refresh = Refreshable \ Listed])
  /\ UNCHANGED <<provider, stored, faults, history, recency>>

\* Mutation: the aggregate is not refreshed after a run has become unknown.
LoseRunQuietly(r) ==
  /\ pc = "working" /\ r \in sync.refresh
  /\ remote[r].status = "GONE"
  /\ row' = [row EXCEPT ![r].status = IF @ = "RUNNING" THEN "UNKNOWN" ELSE @]
  /\ Go("working", [sync EXCEPT !.refresh = @ \ {r}])
  /\ UNCHANGED <<provider, workflowStatus, cursor, announced, faults>>
  /\ UNCHANGED <<history, recency>>

\* getWorkflowRun found nothing: an active run's status is unknown from now on.
LoseRun(r) ==
  LET rest == [sync EXCEPT !.refresh = @ \ {r}] IN
  /\ pc = "working" /\ r \in sync.refresh
  /\ remote[r].status = "GONE"
  /\ IF row[r].status = "RUNNING"
     THEN /\ row' = [row EXCEPT ![r].status = "UNKNOWN"]
          /\ IF row[r].linked THEN Go("aggregating", [rest EXCEPT !.run = r])
                              ELSE Go("working", rest)
     ELSE row' = row /\ Go("working", rest)
  /\ UNCHANGED <<provider, workflowStatus, cursor, announced, faults>>
  /\ UNCHANGED <<history, recency>>

\* getWorkflowRun: the run goes behind those that were listed.
FetchRun(r) ==
  /\ pc = "working" /\ r \in sync.refresh
  /\ remote[r].status # "GONE"
  /\ Go("working", [sync EXCEPT !.refresh = @ \ {r},
                                !.queue = Append(@, <<r, remote[r].status>>)])
  /\ UNCHANGED <<provider, stored, faults, history, recency>>

baseline == sync.cursor = NoCursor

\* Mutation: only a run that ends after it was stored counts as news.
IsNewsOfKnown(previous, status) ==
  ~baseline /\ previous \notin {status, "ABSENT"} /\ status \in {"SUCCESS", "FAILED"}

\* The early return of evaluateWorkflowRun.
IsNews(previous, status) ==
  ~baseline /\ previous # status /\ status \in {"SUCCESS", "FAILED"}

\* Upsert the run as the provider described it, with the association it named,
\* and read the status it had.
PersistRun ==
  LET r == Head(sync.queue)[1]
      status == Head(sync.queue)[2]
      news == IsNews(row[r].status, status)
      rest == [sync EXCEPT !.queue = Tail(@)]
  IN
  /\ pc = "working" /\ sync.refresh = {} /\ sync.queue # <<>>
  /\ row' = [row EXCEPT ![r] = [status |-> status, created |-> remote[r].created,
                                linked |-> r \in Named]]
  /\ IF news THEN Go("announcing", [rest EXCEPT !.run = r])
     ELSE IF r \in Named THEN Go("aggregating", [rest EXCEPT !.run = r])
     ELSE Go("working", rest)
  /\ unsaid' = IF row[r].status = status THEN unsaid
               ELSE IF baseline THEN unsaid \cup {r} ELSE unsaid \ {r}
  /\ UNCHANGED <<provider, workflowStatus, cursor, announced, faults>>
  /\ UNCHANGED <<interrupted, recency>>

\* Mutation: whatever ended without success before counts as a failure.
RecoveredFromAnything(r) ==
  \E q \in Runs \ {r} :
    SameContext(q, r) /\ row[q].status \in {"FAILED", "CANCELLED", "UNKNOWN"}

\* The newest earlier run of the context that has ended had failed.
Recovered(r) ==
  \E q \in Runs \ {r} :
    LET earlier == {p \in Runs \ {r} : /\ SameContext(p, r)
                                       /\ row[p].created <= row[r].created
                                       /\ row[p].status # "RUNNING"}
    IN  /\ q \in earlier /\ row[q].status = "FAILED"
        /\ \A p \in earlier : ~Newer(p, q)

\* The event of a run that has ended.
Outcome(r) == IF row[r].status = "FAILED" THEN "FAILED"
              ELSE IF Recovered(r) THEN "RECOVERED" ELSE "SUCCEEDED"

\* evaluateWorkflowRun emits: one delivery per key and channel.
AnnounceRun ==
  /\ pc = "announcing"
  /\ announced' = announced \cup {<<sync.run, Outcome(sync.run)>>}
  /\ IF row[sync.run].linked THEN Go("aggregating", sync)
                             ELSE Go("working", [sync EXCEPT !.run = 0])
  /\ UNCHANGED <<provider, row, workflowStatus, cursor, faults>>
  /\ UNCHANGED <<history, recency>>

\* aggregateWorkflowStatus of the newest linked run of each workflow.
Aggregate ==
  LET statuses == {row[r].status : r \in {q \in Current : row[q].linked}} IN
  IF "FAILED" \in statuses THEN "FAILED"
  ELSE IF "RUNNING" \in statuses THEN "RUNNING"
  ELSE IF "CANCELLED" \in statuses THEN "CANCELLED"
  ELSE IF "SUCCESS" \in statuses THEN "SUCCESS"
  ELSE "UNKNOWN"

\* refreshPullRequestWorkflowStatus.
RefreshAggregate ==
  /\ pc = "aggregating"
  /\ workflowStatus' = Aggregate
  /\ interrupted' = FALSE
  /\ Go(sync.then, [sync EXCEPT !.run = 0])
  /\ UNCHANGED <<provider, row, cursor, announced, faults>>
  /\ UNCHANGED <<unsaid, recency>>

\* reconcileWorkflowRunChangeRequests: runs for which the provider named no pull
\* request get the one that was active on their branch.
AssociateRuns ==
  LET loose == {r \in Runs : Known(r) /\ ~row[r].linked} IN
  /\ pc = "working" /\ sync.refresh = {} /\ sync.queue = <<>>
  /\ row' = [r \in Runs |-> [row[r] EXCEPT !.linked = @ \/ r \in loose]]
  /\ IF loose = {} THEN Go("finishing", sync)
                   ELSE Go("aggregating", [sync EXCEPT !.then = "finishing"])
  /\ UNCHANGED <<provider, workflowStatus, cursor, announced, faults>>
  /\ UNCHANGED <<history, recency>>

\* Mutation: the cursor is when the synchronization ends.
MarkSuccessNow ==
  /\ pc = "finishing"
  /\ cursor' = clock
  /\ Go("idle", NoSync)
  /\ ahead' = moved
  /\ UNCHANGED <<provider, row, workflowStatus, announced, faults>>
  /\ UNCHANGED <<history, moved>>

\* markSynchronizationSuccess.
MarkSuccess ==
  /\ pc = "finishing"
  /\ cursor' = sync.started
  /\ Go("idle", NoSync)
  /\ ahead' = moved
  /\ UNCHANGED <<provider, row, workflowStatus, announced, faults>>
  /\ UNCHANGED <<history, moved>>

\* A request or statement is rejected or the process dies: the queue retries
\* the synchronization from the beginning.
Crash ==
  /\ pc # "idle" /\ faults < MaxFaults
  /\ faults' = faults + 1
  /\ Go("idle", NoSync)
  /\ unsaid' = IF pc = "announcing" THEN unsaid \cup {sync.run} ELSE unsaid
  /\ interrupted' = \/ interrupted
                    \/ pc = "aggregating"
                    \/ pc = "announcing" /\ row[sync.run].linked
  /\ UNCHANGED <<provider, stored, recency>>

\* persistPullRequest refreshes the aggregate, too: before the runs are listed,
\* or in a synchronization without them, if the pull request is in its window.
PersistPullRequest ==
  /\ pc \in {"idle", "listing"}
  /\ workflowStatus' = Aggregate
  /\ interrupted' = FALSE
  /\ UNCHANGED <<provider, row, cursor, announced, pc, sync, faults>>
  /\ UNCHANGED <<unsaid, recency>>

-----------------------------------------------------------------------------
Init ==
  /\ query \in Queries
  /\ clock = Start
  /\ remote \in [Runs -> {[status |-> "ABSENT", created |-> 0, stamp |-> 0]}
                   \cup [status: {"FAILED", "CANCELLED"}, created: {0}, stamp: {0}]]
  /\ changes = 0
  /\ row = [r \in Runs |-> NoRow]
  /\ workflowStatus = "UNKNOWN"
  /\ cursor = NoCursor
  /\ announced = {}
  /\ pc = "idle" /\ sync = NoSync
  /\ faults = 0
  /\ missed = {} /\ moved = {} /\ ahead = {} /\ unsaid = {} /\ interrupted = FALSE

Provider ==
  \E r \in Runs :
    \/ \E t \in clock - Skew .. clock : StartRun(r, t)
    \/ \E t \in Times : Rerun(r, t) \/ \E s \in Settled : ConcludeRun(r, s, t)
    \/ DeleteRun(r)

Step ==
  \/ BeginSync
  \/ ListRuns
  \/ \E r \in Runs : LoseRun(r) \/ FetchRun(r)
  \/ PersistRun
  \/ AnnounceRun
  \/ RefreshAggregate
  \/ AssociateRuns
  \/ MarkSuccess

Next == Tick \/ Provider \/ Step \/ PersistPullRequest \/ Crash

Spec == Init /\ [][Next]_vars

-----------------------------------------------------------------------------
(* Properties. *)

Exists(r) == remote[r].status \notin {"ABSENT", "GONE"}

\* The cursor and the refresh of active and failed runs together see everything:
\* a run that has not changed since the last completed synchronization started
\* is stored as it is, except where its change lies outside every listing's
\* window: a stamp before the start of a synchronization that listed already
\* (the window does not overlap), and a new attempt of an old run where listings
\* select by creation.
CursorCoversRuns ==
  cursor # NoCursor =>
    \A r \in Runs \ (missed \cup ahead) :
      Exists(r) => row[r].status = remote[r].status

\* Every stored outcome was announced, except the first synchronization's and that
\* of a run whose synchronization died between storing and announcing it.
OutcomesAreAnnounced ==
  \A r \in Runs \ unsaid :
    row[r].status \in {"SUCCESS", "FAILED"} /\ ~(pc = "announcing" /\ sync.run = r)
      => \E type \in IF row[r].status = "FAILED" THEN {"FAILED"}
                                                 ELSE {"SUCCEEDED", "RECOVERED"} :
           <<r, type>> \in announced

\* A recovery is announced only to subscribers who could know of the failure.
RecoveriesFollowFailures ==
  [][\A e \in announced' \ announced :
       e[2] = "RECOVERED" =>
         \E q \in Runs \ {e[1]} :
           /\ WorkflowOf[q] = WorkflowOf[e[1]]
           /\ \/ <<q, "FAILED">> \in announced
              \/ q \in unsaid /\ row[q].status = "FAILED"]_vars

\* A synchronization that completes leaves the aggregate of the newest runs,
\* although it moves runs out of the pull request and back: unless an earlier one
\* died between a row and the aggregate.
AggregateIsCurrent == pc = "finishing" /\ ~interrupted => workflowStatus = Aggregate

\* The queue carries out requested synchronizations (see RequestsSettle of
\* SyncQueue), and a reconciliation requests them every 30 minutes.
Fairness == WF_vars(Step)

LiveSpec == Spec /\ Fairness

\* No run stays active in the database after it has ended at the provider or is
\* gone from it, whatever listings select.
ActiveRunsSettle ==
  \A r \in Runs :
    row[r].status = "RUNNING" /\ remote[r].status # "RUNNING"
      ~> row[r].status # "RUNNING" \/ remote[r].status = "RUNNING"
=============================================================================
