--------------------------- MODULE RecordRetention ---------------------------
(***************************************************************************)
(* The nightly removal of expired records in                               *)
(* apps/api/src/jobs/workflow-run-retention.service.ts, which every        *)
(* process of the API starts, next to the synchronization that stores runs *)
(* and work items and to administrators who change retention periods.      *)
(*                                                                         *)
(* A transaction runs at READ COMMITTED: each of its statements sees what  *)
(* is committed when the statement starts.  Its increments and its delete  *)
(* become visible when it commits.  Days are units of the clock.           *)
(***************************************************************************)
EXTENDS Integers, FiniteSets, FiniteSetsExt

CONSTANTS
  Repositories,
  Runs, RepositoryOf,    \* workflow runs, and the repository of each run and item
  Issues, Pulls,         \* issues and pull requests
  PullOf, NoPull,        \* the pull request each run belongs to, if any
  Jobs,                  \* concurrent cleanups
  Days,                  \* retention periods
  ItemDays,              \* the period of work items in force for each repository
  NoOverride,            \* workflowRunRetentionDays that is null
  Durations,             \* durations of runs
  NoTime,                \* completedAt or closedAt that is null
  MaxTime, MaxChanges, MaxFaults   \* bounds

Items == Issues \cup Pulls

ASSUME RetentionConstants ==
  /\ RepositoryOf \in [Runs \cup Items -> Repositories]
  /\ PullOf \in [Runs -> Pulls \cup {NoPull}]
  /\ NoPull \notin Pulls /\ Issues \cap Pulls = {}
  /\ Days \subseteq Nat \ {0} /\ Days # {}
  /\ ItemDays \in [Repositories -> Days]
  /\ NoOverride \notin Days \cup Repositories
  /\ Durations \subseteq Nat
  /\ IsFiniteSet(Runs)
  /\ NoTime \notin Int
  /\ {MaxTime, MaxChanges, MaxFaults} \subseteq Nat

VARIABLES
  clock,
  default,       \* applicationSettings.workflowRunRetentionDays
  override,      \* repository.workflowRunRetentionDays
  retained,      \* repository.retainedRunDurationMs
  run,           \* workflow_runs
  item,          \* issues and pull_requests
  refreshing,    \* runs a synchronization has read and will write again
  job,           \* the cleanups
  changes, faults,
  total,         \* history: what the runs of each repository ever took
  raced,         \* history: runs that changed between a sum and its delete, or
                 \* were summed by two cleanups at once
  periods        \* history: overrides of each repository, and defaults under
                 \* NoOverride, since the cleanup began

policy  == <<default, override>>
records == <<run, item, refreshing>>
history == <<total, raced, periods>>
vars    == <<clock, policy, retained, records, job, changes, faults, history>>

NoRun    == [stored |-> FALSE, completedAt |-> NoTime, duration |-> 0]
NoItem   == [state |-> "ABSENT", closedAt |-> NoTime, referenced |-> FALSE]
Terminal == {"CLOSED", "MERGED"}
Idle     == [pc |-> "idle"]
NoSums   == [r \in Repositories |-> 0]
Scopes   == Repositories \cup {NoOverride}

\* The cleanups whose transaction is open.
Open == {j \in Jobs : job[j].pc = "summed"}

Before(t, u) == t # NoTime /\ t < u

\* getWorkflowRunRetentionCutoff.
Cutoff(days, now) == now - days

-----------------------------------------------------------------------------
(* Synchronization, administrators and time. *)

Tick ==
  /\ clock < MaxTime
  /\ clock' = clock + 1
  /\ UNCHANGED <<policy, retained, records, job, changes, faults, history>>

Change == changes < MaxChanges /\ changes' = changes + 1

\* What changes while a transaction is between its two statements races it.
Race(X) == raced' = IF Open = {} THEN raced ELSE raced \cup X

\* persistRun writes run x; a run that was removed as expired is stored anew.
WriteRun(x, completed, duration) ==
  /\ run' = [run EXCEPT ![x] =
       [stored |-> TRUE, completedAt |-> completed, duration |-> duration]]
  /\ total' = [total EXCEPT ![RepositoryOf[x]] = @ + duration - run[x].duration]
  /\ Race({x})

\* The provider lists a run that is active or has completed, now or long ago.
StoreRun(x) ==
  /\ Change
  /\ \/ WriteRun(x, NoTime, 0)
     \/ \E t \in 0..clock : \E d \in Durations : WriteRun(x, t, d)
  /\ UNCHANGED <<clock, policy, retained, item, refreshing, job, faults, periods>>

\* A synchronization reads the stored runs it will ask the provider for ...
ReadForRefresh(x) ==
  /\ run[x].stored
  /\ refreshing' = refreshing \cup {x}
  /\ UNCHANGED <<clock, policy, retained, run, item, job, changes, faults, history>>

\* ... and writes what it gets, even if the run was removed meanwhile.
Refresh(x) ==
  /\ Change
  /\ x \in refreshing
  /\ refreshing' = refreshing \ {x}
  /\ \E t \in 0..clock : \E d \in Durations :
       IF run[x].stored THEN WriteRun(x, t, d)
       ELSE /\ run' = [run EXCEPT ![x] =
                 [stored |-> TRUE, completedAt |-> t, duration |-> d]]
            /\ raced' = raced \cup {x}
            /\ UNCHANGED total
  /\ UNCHANGED <<clock, policy, retained, item, job, faults, periods>>

\* Work items open, close, open again and are told of.
StoreItem(i) ==
  /\ Change
  /\ \E s \in {"OPEN"} \cup (IF i \in Pulls THEN Terminal ELSE {"CLOSED"}) :
     \E told \in BOOLEAN :
       item' = [item EXCEPT ![i] =
         [state |-> s, closedAt |-> IF s = "OPEN" THEN NoTime ELSE clock,
          referenced |-> @.referenced \/ told]]
  /\ UNCHANGED <<clock, policy, retained, run, refreshing, job, faults, history>>

\* The channel of the deliveries is deleted and they go with it.
ForgetDeliveries(i) ==
  /\ item[i].referenced
  /\ item' = [item EXCEPT ![i].referenced = FALSE]
  /\ UNCHANGED <<clock, policy, retained, run, refreshing, job, changes, faults>>
  /\ UNCHANGED history

PeriodOf(r) == IF override[r] = NoOverride THEN default ELSE override[r]

\* The period the settings hold for a scope, as a set that is empty without one.
Periods(s) == IF s = NoOverride THEN {default}
              ELSE IF override[s] = NoOverride THEN {} ELSE {override[s]}

\* SettingsService.update or RepositoriesController.update.
ChangePeriod ==
  /\ Change
  /\ \/ default' \in Days /\ UNCHANGED override
     \/ \E r \in Repositories, d \in Days \cup {NoOverride} :
          override' = [override EXCEPT ![r] = d] /\ UNCHANGED default
  /\ periods' = [s \in Scopes |-> periods[s] \cup Periods(s)']
  /\ Race(Runs)
  /\ UNCHANGED <<clock, retained, records, job, faults, total>>

-----------------------------------------------------------------------------
(* The cleanup. *)

\* deleteExpiredRecords takes the time and reads the settings.
Start(j) ==
  /\ job[j] = Idle
  /\ job' = [job EXCEPT ![j] = [pc |-> "next", now |-> clock, scope |-> NoOverride,
                                days |-> default, rest |-> {}, sums |-> NoSums]]
  /\ periods' = IF \A k \in Jobs : job[k] = Idle
                THEN [s \in Scopes |-> Periods(s)] ELSE periods
  /\ UNCHANGED <<clock, policy, retained, records, changes, faults, total, raced>>

\* Mutation: the global period holds for every repository.
InScopeAlways(r, scope) == scope \in {NoOverride, r}

\* The repositories of a `where': those without an override at this moment, or
\* the one with an override that was read before.
InScope(r, scope) == IF scope = NoOverride THEN override[r] = NoOverride
                     ELSE r = scope

\* The runs that match a transaction's `where' at this moment.
Matching(j) ==
  {x \in Runs : /\ run[x].stored
                /\ Before(run[x].completedAt, Cutoff(job[j].days, job[j].now))
                /\ InScope(RepositoryOf[x], job[j].scope)}

SumOf(X) == MapThenSumSet(LAMBDA x : run[x].duration, X)

\* groupBy: the durations of the matching runs, by repository.
Sum(j) ==
  LET X == Matching(j) IN
  /\ job[j].pc = "next"
  /\ job' = [job EXCEPT ![j].pc = "summed",
       ![j].sums = [r \in Repositories |->
                      SumOf({x \in X : RepositoryOf[x] = r})]]
  /\ Race(Runs)
  /\ UNCHANGED <<clock, policy, retained, records, changes, faults, total, periods>>

\* Mutation: the retained duration is replaced.
Replaced(r, sums) == IF sums[r] > 0 THEN sums[r] ELSE retained[r]

Incremented(r, sums) == retained[r] + sums[r]

\* deleteMany deletes what matches by now, and the transaction commits: a
\* repository that another transaction increments has been waited for.
DeleteRuns(j) ==
  LET X == Matching(j) IN
  /\ job[j].pc = "summed"
  /\ run' = [x \in Runs |-> IF x \in X THEN NoRun ELSE run[x]]
  /\ retained' = [r \in Repositories |-> Incremented(r, job[j].sums)]
  /\ job' = [job EXCEPT ![j].pc = "done", ![j].sums = NoSums]
  /\ UNCHANGED <<clock, policy, item, refreshing, changes, faults, history>>

\* After the global period, the repositories with an override are read ...
ReadOverrides(j) ==
  /\ job[j].pc = "done" /\ job[j].scope = NoOverride
  /\ job' = [job EXCEPT ![j].pc = "choosing",
       ![j].rest = {<<r, override[r]>> :
                      r \in {q \in Repositories : override[q] # NoOverride}}]
  /\ UNCHANGED <<clock, policy, retained, records, changes, faults, history>>

\* ... and cleaned one by one with the periods that were read; then the issues.
NextRepository(j) ==
  /\ job[j].pc = "choosing" \/ (job[j].pc = "done" /\ job[j].scope # NoOverride)
  /\ \/ /\ job[j].rest = {}
        /\ job' = [job EXCEPT ![j].pc = "issues"]
     \/ \E p \in job[j].rest :
          job' = [job EXCEPT ![j].pc = "next", ![j].scope = p[1],
                             ![j].days = p[2], ![j].rest = @ \ {p}]
  /\ UNCHANGED <<clock, policy, retained, records, changes, faults, history>>

\* A work item ended before its cutoff, and neither a delivery nor a run refers
\* to it.
Expired(i, now) ==
  /\ item[i].state \in Terminal
  /\ Before(item[i].closedAt, Cutoff(ItemDays[RepositoryOf[i]], now))
  /\ ~item[i].referenced
  /\ \A x \in Runs : run[x].stored => PullOf[x] # i

DeleteItems(I, now) ==
  item' = [i \in Items |-> IF i \in I /\ Expired(i, now) THEN NoItem ELSE item[i]]

\* deleteExpiredIssues.
DeleteIssues(j) ==
  /\ job[j].pc = "issues"
  /\ DeleteItems(Issues, job[j].now)
  /\ job' = [job EXCEPT ![j].pc = "pulls"]
  /\ UNCHANGED <<clock, policy, retained, run, refreshing, changes, faults, history>>

\* Mutation: the period of the repository is not applied to pull requests.
DeleteNoPulls(j) ==
  /\ job[j].pc = "pulls"
  /\ job' = [job EXCEPT ![j] = Idle]
  /\ UNCHANGED <<clock, policy, retained, records, changes, faults, history>>

\* deleteExpiredPullRequests.
DeletePulls(j) ==
  /\ job[j].pc = "pulls"
  /\ DeleteItems(Pulls, job[j].now)
  /\ job' = [job EXCEPT ![j] = Idle]
  /\ UNCHANGED <<clock, policy, retained, run, refreshing, changes, faults, history>>

\* The process dies or the database rejects: an open transaction is undone.
Abort(j) ==
  /\ job[j] # Idle
  /\ faults < MaxFaults
  /\ faults' = faults + 1
  /\ job' = [job EXCEPT ![j] = Idle]
  /\ UNCHANGED <<clock, policy, retained, records, changes, history>>

-----------------------------------------------------------------------------
Init ==
  /\ clock = 0
  /\ default \in Days
  /\ override = [r \in Repositories |-> NoOverride]
  /\ retained = [r \in Repositories |-> 0]
  /\ run = [x \in Runs |-> NoRun]
  /\ item = [i \in Items |-> NoItem]
  /\ refreshing = {}
  /\ job = [j \in Jobs |-> Idle]
  /\ changes = 0 /\ faults = 0
  /\ total = [r \in Repositories |-> 0]
  /\ raced = {}
  /\ periods = [s \in Scopes |-> {}]

Clean(j) ==
  \/ Start(j) \/ Sum(j) \/ DeleteRuns(j)
  \/ ReadOverrides(j) \/ NextRepository(j)
  \/ DeleteIssues(j) \/ DeletePulls(j)

Synchronize ==
  \/ \E x \in Runs : StoreRun(x) \/ ReadForRefresh(x) \/ Refresh(x)
  \/ \E i \in Items : StoreItem(i) \/ ForgetDeliveries(i)

Next ==
  \/ Tick
  \/ Synchronize
  \/ ChangePeriod
  \/ \E j \in Jobs : Clean(j) \/ Abort(j)

Spec == Init /\ [][Next]_vars

\* Time passes and every night the timer starts a cleanup, which takes its next
\* step.  Nothing is assumed of synchronizations and administrators.
Fairness == WF_vars(Tick) /\ \A j \in Jobs : WF_vars(Clean(j))

LiveSpec == Spec /\ Fairness

-----------------------------------------------------------------------------
(* Properties. *)

RunsOf(r) == {x \in Runs : RepositoryOf[x] = r}

\* What the dashboard shows as total runtime: retained and stored durations.
Shown(r) == retained[r] + SumOf(RunsOf(r))

\* The total runtime of a repository survives the removal of its runs, crashes in
\* the middle and changes of the period, as long as no run is written, no period
\* changes and no other cleanup sums between the sum and the delete, and no run
\* is written again that was read before it was removed.
TotalIsKept ==
  \A r \in Repositories : RunsOf(r) \cap raced = {} => Shown(r) = total[r]

\* A run goes only if it is older than a period that was set for its repository, or
\* by default if the repository has none of its own, since the cleanup began, whoever
\* changes periods meanwhile.
OnlyExpiredGo ==
  [][\A x \in Runs :
       run[x].stored /\ ~run'[x].stored =>
         \E d \in periods[RepositoryOf[x]]
                  \cup (IF override[RepositoryOf[x]] = NoOverride
                        THEN periods[NoOverride] ELSE {}) :
           Before(run[x].completedAt, Cutoff(d, clock))]_vars

RunExpired(x) ==
  /\ run[x].stored
  /\ Before(run[x].completedAt, Cutoff(PeriodOf(RepositoryOf[x]), clock))

\* A run that is older than the period in force is removed in the end, and so is an
\* ended work item once nothing refers to it: a pull request after its runs.
ExpiredRecordsGo ==
  /\ \A x \in Runs  : RunExpired(x) ~> ~RunExpired(x)
  /\ \A i \in Items : Expired(i, clock) ~> ~Expired(i, clock)
=============================================================================
