--------------------------- MODULE ProviderAdapters ---------------------------
(***************************************************************************)
(* What the adapters in apps/api/src/modules/providers/{github,gitlab,     *)
(* forgejo,gitea} compute of the providers' answers, and what provider-    *)
(* request.error.ts and provider-retry.ts compute of their errors.  An     *)
(* answer is the record of the fields a decision depends on; fields that   *)
(* are copied (titles, authors, labels, URLs) are left out.  A header or a *)
(* field that is absent is Missing.  Times are milliseconds.               *)
(***************************************************************************)
EXTENDS Integers, FiniteSetsExt, SequencesExt

CONSTANT Missing   \* null, undefined, and a header that is not sent

Providers == {"GITHUB", "GITLAB", "FORGEJO", "GITEA"}

-----------------------------------------------------------------------------
(* Listings: sequences of items of which each has an id and times of creation and *)
(* of update, read in pages of a size.                                            *)

\* The page of number p.
Page(listing, size, p) ==
  SubSeq(listing, (p - 1) * size + 1, Min({p * size, Len(listing)}))

\* The elements of a set in the order of op: SetToSortSeq by rank.
InOrder(S, op(_, _)) ==
  [n \in 1..Cardinality(S) |->
     CHOOSE x \in S : Cardinality({y \in S : op(y, x)}) = n - 1]

Recent(items, since) ==
  LET kept == InOrder({n \in DOMAIN items : items[n].updated >= since}, <)
  IN  [n \in DOMAIN kept |-> items[kept[n]]]

\* Mutation: an item at the boundary ends the listing.
BoundaryReachedAt(result, since) ==
  result # <<>> /\ result[Len(result)].updated <= since

\* keepReading of the last item of a page.
BoundaryReached(result, since) ==
  result # <<>> /\ result[Len(result)].updated < since

\* How a repository's items are listed: the provider selects the recent ones and
\* pages are read until one is not full (listPages of GitLab, listIssues, and
\* listWorkflowRuns of GitHub); or the adapter selects, and stops at a page whose
\* last item is older (listPullRequests of GitHub, Forgejo, Gitea) or that holds any
\* older one (listWorkflowRuns of Gitea and Forgejo).
Listing(provider, kind) ==
  CASE provider = "GITLAB" \/ kind = "issues" -> "selected"
    [] provider = "GITHUB" /\ kind = "runs"   -> "selected"
    [] kind = "pulls" -> "to the boundary"
    [] OTHER -> "by page"

\* The time by which the provider selects: GitHub's runs are asked for by creation.
SelectedBy(provider, kind) ==
  IF provider = "GITHUB" /\ kind = "runs" THEN "created" ELSE "updated"

\* Only GitLab is asked to sort runs by their update; work items always are.
SortedByUpdate(provider, kind) == provider = "GITLAB" \/ kind # "runs"

\* The condition under which a page is the last to be read.
LastPageRead(listing, result, size, page, since, total) ==
  \/ Len(result) < size
  \/ listing = "to the boundary" /\ BoundaryReached(result, since)
  \/ /\ listing = "by page"
     /\ \/ Recent(result, since) # result
        \/ total # Missing /\ page * size >= total

\* listIssues and listPullRequests of GitLab read both listings at once.
Concurrent(provider) == provider = "GITLAB"

\* Mutation: of two readings the first counts.
UniqueByIdKeepingFirst(items) ==
  SelectSeq(items, LAMBDA i : i = items[SelectInSeq(items, LAMBDA j : j.id = i.id)])

\* A Map keeps the place of the first item of an id and the value of the last.
UniqueById(items) ==
  LET firsts == InOrder({n \in DOMAIN items : \A m \in 1..(n - 1) :
                            items[m].id # items[n].id}, <)
  IN  [n \in DOMAIN firsts |->
         items[SelectLastInSeq(items, LAMBDA j : j.id = items[firsts[n]].id)]]

\* listIssues and listPullRequests: what was updated since and, at first, all that
\* is open when it is listed after that.
ListWorkItems(recent, open, includeAllOpen) ==
  UniqueById(recent \o (IF includeAllOpen THEN open ELSE <<>>))

-----------------------------------------------------------------------------
(* Workflow runs and change requests. *)

RunningStates == {"in_progress", "running"}
QueuedStates  == {"blocked", "queued", "pending", "requested", "created", "waiting",
                  "waiting_for_resource", "preparing", "scheduled"}

Failures     == {"failure", "failed"}
Cancelations == {"cancelled", "canceled"}

\* isWorkflowRunAwaitingApproval.
IsWorkflowRunAwaitingApproval(provider, lifecycle, conclusion) ==
  IF provider = "GITLAB" THEN lifecycle = "manual"
  ELSE lifecycle = "waiting" \/ conclusion = "action_required"

\* Mutation: a manual pipeline is none that waits.
NormalizeWithoutManual(provider, lifecycle, conclusion) ==
  LET outcome == IF conclusion = Missing THEN lifecycle ELSE conclusion IN
  CASE lifecycle \in RunningStates -> "RUNNING"
    [] lifecycle \in QueuedStates  -> "QUEUED"
    [] OTHER ->
       CASE outcome = "success"         -> "SUCCESS"
         [] outcome \in Failures        -> "FAILED"
         [] outcome \in Cancelations    -> "CANCELLED"
         [] outcome = "skipped"         -> "SKIPPED"
         [] outcome = "action_required" -> "QUEUED"
         [] OTHER -> "UNKNOWN"

\* normalizeWorkflowRunStatus.
NormalizeWorkflowRunStatus(provider, lifecycle, conclusion) ==
  LET outcome == IF conclusion = Missing THEN lifecycle ELSE conclusion IN
  CASE lifecycle \in RunningStates -> "RUNNING"
    [] lifecycle \in QueuedStates  -> "QUEUED"
    [] OTHER ->
       CASE outcome = "success"         -> "SUCCESS"
         [] outcome \in Failures        -> "FAILED"
         [] outcome \in Cancelations    -> "CANCELLED"
         [] outcome = "skipped"         -> "SKIPPED"
         [] outcome = "action_required" -> "QUEUED"
         [] OTHER -> IF provider = "GITLAB" /\ lifecycle = "manual" THEN "QUEUED"
                     ELSE "UNKNOWN"

\* buildWorkflowRunScopeKey.
WorkflowRunScopeKey(changeRequestNumber, headBranch) ==
  IF changeRequestNumber # Missing THEN <<"change-request", changeRequestNumber>>
  ELSE IF headBranch # Missing THEN <<"branch", headBranch>>
  ELSE <<"repository">>

Duration(startedAt, completedAt) ==
  IF Missing \in {startedAt, completedAt} THEN Missing ELSE completedAt - startedAt

\* A normalized run, as far as the dashboard and the synchronization decide by it.
WorkflowRun(provider, run, awaitingApproval, completedAt, durationMs, number, branch) ==
  [awaitingApproval |-> awaitingApproval,
   completedAt |-> completedAt,
   durationMs |-> durationMs,
   changeRequestNumber |-> number,
   scopeKey |-> WorkflowRunScopeKey(number, branch),
   status |-> NormalizeWorkflowRunStatus(provider, run.status, run.conclusion)]

\* toWorkflowRun of GitHub, and resolveWorkflowRun: a run of a fork names no pull
\* request, but its commit may belong to one.
GitHubRun(run) ==
  LET completedAt == IF run.status = "completed" THEN run.updated ELSE Missing
      number == IF run.pullRequests # <<>> THEN run.pullRequests[1]
                ELSE IF run.event = "pull_request" /\ run.sha # Missing
                        /\ run.commitPulls # <<>>
                THEN run.commitPulls[1] ELSE Missing
  IN  WorkflowRun("GITHUB", run,
        IsWorkflowRunAwaitingApproval("GITHUB", run.status, run.conclusion),
        completedAt, Duration(run.started, completedAt), number, run.branch)

\* toWorkflowRun of Gitea.
GiteaRun(run) ==
  LET completedAt == IF run.completed # Missing THEN run.completed
                     ELSE IF run.status = "completed" THEN run.updated ELSE Missing
  IN  WorkflowRun("GITEA", run,
        IsWorkflowRunAwaitingApproval("GITEA", run.status, run.conclusion),
        completedAt, Duration(run.started, completedAt),
        IF run.pullRequests # <<>> THEN run.pullRequests[1] ELSE Missing, run.branch)

\* The events of Forgejo whose names start with "pull_request".
PullRequestEvents ==
  {"pull_request", "pull_request_target", "pull_request_sync", "pull_request_comment",
   "pull_request_review_approved", "pull_request_review_rejected"}

\* toWorkflowRun of Forgejo, which has no conclusions and tells what needs approval.
\* It counts durations in nanoseconds, also of a run that has not stopped.
ForgejoRun(run) ==
  LET number == IF run.payload.pullRequest # Missing THEN run.payload.pullRequest
                ELSE IF run.event \in PullRequestEvents THEN run.payload.number
                ELSE Missing
      measured == Duration(run.started, run.completed)
      told == IF run.duration = Missing THEN Missing ELSE run.duration \div 1000000
  IN  WorkflowRun("FORGEJO", run, run.needApproval, run.completed,
        IF measured # Missing THEN measured ELSE told, number,
        IF run.payload.branch # Missing THEN run.payload.branch ELSE run.branch)

\* toWorkflowRun of GitLab: a pipeline of refs/merge-requests/<n>/head belongs to n,
\* and durations are seconds.
GitLabRun(run) ==
  LET number == IF run.mergeRequest # Missing THEN run.mergeRequest
                ELSE IF run.branch # Missing /\ run.branch[1] = "merge-request"
                THEN run.branch[2] ELSE Missing
  IN  WorkflowRun("GITLAB", run,
        IsWorkflowRunAwaitingApproval("GITLAB", run.status, Missing), run.completed,
        IF run.duration = Missing THEN Duration(run.started, run.completed)
        ELSE run.duration * 1000, number, run.branch)

-----------------------------------------------------------------------------
(* Webhooks. *)

\* providerWebhookSyncScopes of the words an event's name contains.
WebhookSyncScopes(words) ==
  CASE "issue" \in words /\ "pull" \notin words -> {"ISSUES"}
    [] words \cap {"pull", "merge request"} # {} -> {"PULL_REQUESTS"}
    [] words \cap {"workflow", "pipeline", "job"} # {} -> {"WORKFLOWS"}
    [] words \cap {"security", "vulnerability", "dependabot"} # {} -> {"ALERTS"}
    [] OTHER -> {"WORKFLOWS", "ISSUES", "PULL_REQUESTS", "ALERTS"}

FirstPresent(headers) ==
  LET present == SelectSeq(headers, LAMBDA h : h # Missing)
  IN  IF present = <<>> THEN Missing ELSE present[1]

\* getDeliveryId: the headers that name a delivery, the preferred one first.
DeliveryId(provider, headers) ==
  FirstPresent(
    CASE provider = "GITHUB"  -> <<headers["x-github-delivery"]>>
      [] provider = "GITLAB"  -> <<headers["webhook-id"], headers["x-gitlab-event-uuid"]>>
      [] provider = "FORGEJO" -> <<headers["x-forgejo-delivery"],
                                   headers["x-gitea-delivery"]>>
      [] provider = "GITEA"   -> <<headers["x-gitea-delivery"]>>)

-----------------------------------------------------------------------------
(* Security alerts. *)

\* toAlertState of GitHub, and the state in toSecurityAlert of GitLab.
AlertState(provider, state) ==
  IF provider = "GITHUB"
  THEN CASE state = "open" -> "OPEN"
         [] state \in {"dismissed", "auto_dismissed"} -> "DISMISSED"
         [] OTHER -> "RESOLVED"
  ELSE CASE state \in {"DETECTED", "CONFIRMED"} -> "OPEN"
         [] state = "DISMISSED" -> "DISMISSED"
         [] OTHER -> "RESOLVED"

\* The kind in toSecurityAlert of GitLab; other reports are left out.
GitLabAlertKind(reportType) ==
  CASE reportType = "DEPENDENCY_SCANNING" -> "DEPENDENCY"
    [] reportType = "SAST" -> "CODE"
    [] reportType = "SECRET_DETECTION" -> "SECRET"
    [] OTHER -> Missing

\* readAlertKind and listVulnerabilities: what a failed response makes of a kind.
\* GitHub's rate limits are failures of the synchronization.
AlertAvailability(provider, status, rateLimited) ==
  IF status \in {403, 404} /\ ~(provider = "GITHUB" /\ rateLimited)
  THEN "UNAVAILABLE" ELSE "FAILED"

-----------------------------------------------------------------------------
(* Errors and retries. *)

Day == 24 * 60 * 60 * 1000
MaximumProviderSyncAttempts == 5

\* parseRetryAfter.
ParseRetryAfter(header, now) ==
  CASE header.kind = "number" /\ header.value >= 0 -> now + header.value * 1000
    [] header.kind = "date" -> header.value
    [] OTHER -> Missing

\* parseResetAt: a number far below the time is a delay.
ParseResetAt(header, now) ==
  CASE header.kind = "number" /\ header.value >= 0 ->
         IF header.value * 1000 >= now - 60000 THEN header.value * 1000
         ELSE now + header.value * 1000
    [] header.kind = "date" -> header.value
    [] OTHER -> Missing

\* providerRetryAt: the later of the two, if in the future, and at most a day ahead.
ProviderRetryAt(retryAfter, reset, now) ==
  LET times  == {ParseRetryAfter(retryAfter, now), ParseResetAt(reset, now)} \ {Missing}
      future == {t \in times : t > now}
  IN  IF future = {} THEN Missing ELSE Min({Max(future), now + Day})

\* providerRequestError: 403 is a rate limit if the headers say so.
RateLimited(response) ==
  \/ response.status = 429
  \/ /\ response.status = 403
     /\ response.remaining = 0 \/ response.retryAfter.kind # "none"

\* Mutation: jitter goes beyond the next delay.
JitteredDelayTwice(now, base, attempt, maximum, tenths) ==
  LET exponential == Min({base * 2 ^ Max({attempt - 1, 0}), maximum})
  IN  now + Min({exponential + (exponential * 2 * tenths) \div 10, maximum})

\* jitteredDelay with a random number of tenths.
JitteredDelay(now, base, attempt, maximum, tenths) ==
  LET exponential == Min({base * 2 ^ Max({attempt - 1, 0}), maximum})
      jitter == (exponential * 2 * tenths) \div 100
  IN  now + Min({exponential + jitter, maximum})

\* providerRetryDecision: rate limits hold the account back whether or not the
\* synchronization is tried again; so are transient responses and broken
\* connections (a TypeError of fetch), and nothing else.
RetryDecision(error, attempt, now, tenths) ==
  LET limited == error.kind = "request" /\ error.rateLimited
      transient == \/ error.kind = "network"
                   \/ /\ error.kind = "request"
                      /\ error.status \in {408, 425, 500, 502, 503, 504}
      retry == attempt < MaximumProviderSyncAttempts /\ (limited \/ transient)
      delay == IF ~limited THEN JitteredDelay(now, 1000, attempt, 60000, tenths)
               ELSE IF error.retryAt # Missing THEN error.retryAt
               ELSE JitteredDelay(now, 60000, attempt, 15 * 60000, tenths)
  IN  [retry |-> retry,
       runAfter |-> IF retry THEN delay ELSE Missing,
       rateLimitedUntil |-> IF limited THEN delay ELSE Missing]
=============================================================================
