---------------------------- MODULE ProviderListing ----------------------------
(***************************************************************************)
(* A synchronization asks an adapter of apps/api/src/modules/providers/    *)
(* {github,gitlab,forgejo,gitea} for a repository's workflow runs, issues  *)
(* or pull requests.  The adapter reads them page by page while the        *)
(* provider's items change; a page that cannot be read fails the           *)
(* synchronization, which provider-retry.ts repeats from the start; after  *)
(* the listing of workflow runs single runs are refreshed.                 *)
(***************************************************************************)
EXTENDS ProviderAdapters

CONSTANTS
  PageSize,    \* 100, and 50 for Forgejo
  MaxItems,    \* bound: items of the repository
  MaxEdits,    \* bound: changes at the provider while pages are read
  Rolls        \* the random numbers tried, in tenths

ASSUME BoundsAssumption ==
  /\ PageSize \in Nat \ {0} /\ MaxItems \in Nat /\ MaxEdits \in Nat
  /\ Rolls \subseteq 0..10

Updated == 1..3    \* before, at and after the boundary
Since   == 2       \* query.updatedAfter, or the lastSyncAt that bounds the runs
Clock   == 1000000 \* when a page fails: only differences to it matter

VARIABLES
  query,     \* what is asked of whom
  item,      \* the provider's items by id
  edits,     \* number of changes since the reading began
  touched,   \* ids changed since the reading began
  left,      \* an item has left a listing since the reading began
  outdated,  \* history: ids whose last update lay before the boundary at that time
  next,      \* number of the next page of each listing, Missing when it is read
  read,      \* what was read of each listing
  lastRead,  \* history: the last reading of each item
  attempt,   \* of the synchronization
  failure,   \* history: the last failure and what was decided upon it
  refreshed  \* the last run that was refreshed: the answer and what it is stored as

remoteItems == <<query, item, edits, touched, left, outdated>>
listingVars == <<query, item, edits, touched, left, outdated, next, read, lastRead, attempt,
                 failure, refreshed>>

Parts == {"recent", "open"}
Ids   == 1..(MaxItems + MaxEdits)

Queries ==
  {q \in [provider: Providers, kind: {"runs", "issues", "pulls"}, includeAllOpen: BOOLEAN] :
     /\ q.kind = "runs" => ~q.includeAllOpen
     /\ q.provider = "GITLAB" => q.kind # "pulls"     \* listed like issues
     /\ q.provider = "FORGEJO" => q.kind = "runs"}    \* lists the rest like Gitea

\* What a listing is made of ...
Listed(part, i) == item[i] # Missing /\ (part = "open" => item[i].open)

\* ... of which the provider makes pages.
Eligible(part, i) ==
  /\ Listed(part, i)
  /\ part = "recent" /\ Listing(query.provider, query.kind) = "selected" =>
       IF SelectedBy(query.provider, query.kind) = "created"
       THEN item[i].created >= Since ELSE item[i].updated >= Since

\* The latest update comes first or, where the provider is not asked to sort, what
\* was created last: ids are given in the order of creation.
Later(i, j) ==
  IF SortedByUpdate(query.provider, query.kind)
  THEN \/ item[i].updated > item[j].updated
       \/ item[i].updated = item[j].updated /\ i < j
  ELSE i > j

Selected(part) ==
  LET ids == InOrder({i \in Ids : Eligible(part, i)}, Later)
  IN  [n \in DOMAIN ids |-> item[ids[n]]]

\* Items whose last update lies before the boundary.
Old == {i \in Ids : item[i] # Missing /\ item[i].updated < Since}

Unread ==
  [part \in Parts |-> IF part = "recent" \/ query.includeAllOpen THEN 1 ELSE Missing]

Done    == next.recent = Missing /\ next.open = Missing
GivenUp == failure # Missing /\ ~failure.retry

\* What listWorkflowRuns, listIssues or listPullRequests returns.
Result ==
  IF query.kind = "runs" THEN read.recent
  ELSE ListWorkItems(read.recent, read.open, query.includeAllOpen)

ListingInit ==
  /\ query \in Queries
  /\ \E n \in 0..MaxItems :
     \E created, updated \in [1..n -> Updated], open \in [1..n -> BOOLEAN] :
       /\ \A i \in 1..n : created[i] <= updated[i]
       /\ SortedByUpdate(query.provider, query.kind) =>    \* the order of ids is free
            \A i, j \in 1..n : i < j => updated[i] >= updated[j]
       /\ IF SelectedBy(query.provider, query.kind) = "created"
          THEN \A i, j \in 1..n : i < j => created[i] <= created[j]
          ELSE \A i \in 1..n : created[i] = 1              \* it plays no part
       /\ query.includeAllOpen \/ \A i \in 1..n : open[i]   \* only then it is asked for
       /\ item = [i \in Ids |-> IF i \in 1..n
                                THEN [id |-> i, created |-> created[i],
                                      updated |-> updated[i], open |-> open[i]]
                                ELSE Missing]
  /\ edits = 0 /\ touched = {} /\ left = FALSE /\ outdated = Old
  /\ next = Unread
  /\ read = [p \in Parts |-> <<>>]
  /\ lastRead = [i \in Ids |-> Missing]
  /\ attempt = 1 /\ failure = Missing /\ refreshed = Missing

-----------------------------------------------------------------------------
(* The provider. *)

\* An item is created, with the next id, or changed, opened or closed.
ChangeItem(i) ==
  LET now == 4 + edits IN
  /\ edits < MaxEdits /\ ~Done
  /\ item[i] = Missing => \A j \in Ids : item[j] # Missing \/ j \in touched => j < i
  /\ \E open \in BOOLEAN :
       /\ query.includeAllOpen \/ open
       /\ item' = [item EXCEPT ![i] =
            [id |-> i, created |-> IF item[i] = Missing THEN now ELSE item[i].created,
             updated |-> now, open |-> open]]
       /\ left' = (left \/ (item[i] # Missing /\ item[i].open /\ ~open))
  /\ edits' = edits + 1
  /\ touched' = touched \cup {i}
  /\ UNCHANGED <<query, outdated, next, read, lastRead, attempt, failure, refreshed>>

\* An item is deleted.
DeleteItem(i) ==
  /\ edits < MaxEdits /\ ~Done /\ item[i] # Missing
  /\ item' = [item EXCEPT ![i] = Missing]
  /\ left' = TRUE
  /\ edits' = edits + 1
  /\ touched' = touched \cup {i}
  /\ UNCHANGED <<query, outdated, next, read, lastRead, attempt, failure, refreshed>>

-----------------------------------------------------------------------------
(* The adapter. *)

\* Of a listing that is read after the other: only when that one has been read.
Ready(part) ==
  /\ next[part] # Missing /\ ~GivenUp
  /\ part = "open" => next.recent = Missing \/ Concurrent(query.provider)

\* One round of the loop of listPages or listWorkflowRuns.
ReadPage(part) ==
  /\ Ready(part)
  /\ attempt <= 2   \* bound: the later repetitions read like the first
  /\ LET result  == Page(Selected(part), PageSize, next[part])
         listing == IF part = "open" THEN "selected"
                    ELSE Listing(query.provider, query.kind)
         kept    == IF listing = "selected" THEN result ELSE Recent(result, Since)
     IN  /\ \E total \in {Missing, Len(Selected(part))} :
              next' = [next EXCEPT ![part] =
                         IF LastPageRead(listing, result, PageSize, @, Since, total)
                         THEN Missing ELSE @ + 1]
         /\ read' = [read EXCEPT ![part] = @ \o kept]
         /\ lastRead' = [i \in Ids |-> IF \E k \in Range(kept) : k.id = i
                                       THEN item[i] ELSE lastRead[i]]
  /\ UNCHANGED <<remoteItems, attempt, failure, refreshed>>

NoHeader == [kind |-> "none"]
Header(value) == [kind |-> "number", value |-> value]

\* The responses, as far as an error depends on them: with Retry-After or a time of
\* reset, which lies ahead, has passed, or is beyond a day, or without.
Responses ==
  [status: {403, 429}, remaining: {0, 9}, retryAfter: {NoHeader, Header(7)},
   reset: {NoHeader, Header(30), Header(990), Header(1030), Header(200000)}]
  \cup [status: {404, 503}, remaining: {9}, retryAfter: {NoHeader}, reset: {NoHeader}]

\* What the adapter throws.
Errors ==
  {[kind |-> "request", status |-> r.status, rateLimited |-> RateLimited(r),
    retryAt |-> ProviderRetryAt(r.retryAfter, r.reset, Clock)] : r \in Responses}
  \cup {[kind |-> "network"], [kind |-> "other"]}

\* A page cannot be read: the synchronization fails, and is repeated or not.
Fail ==
  /\ \E part \in Parts : Ready(part)
  /\ attempt = 1 \/ next = Unread   \* bound: a repetition fails with its first page
  /\ \E error \in Errors, roll \in Rolls :
       LET decision == RetryDecision(error, attempt, Clock, roll) IN
       /\ failure' = [retry |-> decision.retry,
                      class |-> IF error.kind = "request" /\ error.rateLimited
                                THEN IF error.retryAt = Missing THEN "limited" ELSE "told"
                                ELSE IF decision.retry THEN "transient" ELSE "other",
                      wait  |-> IF decision.retry THEN decision.runAfter - Clock ELSE Missing,
                      hold  |-> IF decision.rateLimitedUntil = Missing THEN Missing
                                ELSE decision.rateLimitedUntil - Clock]
       /\ attempt' = IF decision.retry THEN attempt + 1 ELSE attempt
  /\ next' = Unread
  /\ read' = [p \in Parts |-> <<>>]
  /\ lastRead' = [i \in Ids |-> Missing]
  /\ edits' = MaxEdits            \* bound: no change during a repetition
  /\ touched' = {} /\ left' = FALSE /\ outdated' = Old
  /\ UNCHANGED <<query, item, refreshed>>

-----------------------------------------------------------------------------
(* Workflow runs. *)

Conclusions == Failures \cup Cancelations
               \cup {"success", "skipped", "action_required", "neutral"}

\* What is absent is none of the values it is compared with.
ASSUME MissingAssumption ==
  Missing \notin Int \cup Conclusions
                 \cup [id: Int, created: Int, updated: Int, open: BOOLEAN]

\* A run without a status, of a push.
Plain == [updated |-> 3000, started |-> 1000, duration |-> Missing, pullRequests |-> <<>>,
          commitPulls |-> <<>>, sha |-> 1, event |-> "push", branch |-> Missing,
          mergeRequest |-> Missing, needApproval |-> FALSE, completed |-> Missing,
          payload |-> [pullRequest |-> Missing, number |-> Missing, branch |-> Missing],
          status |-> Missing, conclusion |-> Missing]

\* A run in a state, with its conclusion, its time of completion and its duration.
Answer(lifecycle, outcome, completed, duration) ==
  [Plain EXCEPT !.status = lifecycle, !.conclusion = outcome, !.completed = completed,
                !.duration = duration]

\* GitLab's states that normalizeWorkflowRunStatus does not know.
Unknown == {"canceling", "waiting_for_callback"}

\* What a provider answers for a run that is under way or waits for somebody: GitHub
\* and Gitea complete it with a conclusion that asks for an action, Forgejo tells its
\* duration so far, in nanoseconds.
Underway(provider) ==
  CASE provider = "GITLAB" ->
         {Answer(s, Missing, Missing, Missing) : s \in Unknown \cup
            {"created", "waiting_for_resource", "preparing", "pending", "scheduled",
             "running", "manual"}}
    [] provider = "FORGEJO" ->
         {Answer(s, Missing, Missing, d) : s \in {"waiting", "running", "blocked"},
                                           d \in {Missing, 2000000000}}
         \cup {[Answer("blocked", Missing, Missing, Missing) EXCEPT !.needApproval = TRUE]}
    [] OTHER ->
         {Answer(s, Missing, Missing, Missing) :
            s \in {"queued", "in_progress", "waiting", "requested", "pending"}}
         \cup {Answer("completed", "action_required", Missing, Missing)}

\* What a provider answers for a run that is over: GitHub has no time of completion,
\* Gitea may, GitLab has none of a run that was skipped and counts seconds.
Over(provider) ==
  CASE provider = "GITLAB" ->
         {Answer(s, Missing, c, d) : s \in {"success", "failed", "canceled", "skipped"},
                                     c \in {Missing, 3000}, d \in {Missing, 2}}
    [] provider = "FORGEJO" ->
         {Answer(s, Missing, 3000, d) :
            s \in Failures \cup Cancelations \cup {"success", "skipped"},
            d \in {Missing, 2000000000}}
    [] OTHER ->
         {Answer("completed", o, c, Missing) : o \in Conclusions \ {"action_required"},
            c \in IF provider = "GITEA" THEN {Missing, 3000} ELSE {Missing}}

\* toWorkflowRun.
ToWorkflowRun(answer) ==
  CASE query.provider = "GITHUB"  -> GitHubRun(answer)
    [] query.provider = "GITEA"   -> GiteaRun(answer)
    [] query.provider = "GITLAB"  -> GitLabRun(answer)
    [] query.provider = "FORGEJO" -> ForgejoRun(answer)

\* getWorkflowRun of a run that was active.
Refresh ==
  /\ query.kind = "runs" /\ Done
  /\ refreshed = Missing /\ failure = Missing /\ touched = {}   \* bound: what is answered
                                           \* depends on no listing and no other answer
  /\ \E answer \in Underway(query.provider) \cup Over(query.provider) :
       refreshed' = [answer |-> answer, run |-> ToWorkflowRun(answer)]
  /\ UNCHANGED <<remoteItems, next, read, lastRead, attempt, failure>>

ListingNext ==
  \/ \E i \in Ids : ChangeItem(i) \/ DeleteItem(i)
  \/ \E part \in Parts : ReadPage(part)
  \/ Fail
  \/ Refresh

ListingSpec == ListingInit /\ [][ListingNext]_listingVars

-----------------------------------------------------------------------------
(* Properties. *)

\* What a listing is read for.  GitHub gives the runs created since, whenever they were
\* updated; Gitea and Forgejo, whose runs come in the order of creation, are read up to
\* the first page with a run that was not updated since: what was created before that
\* run is promised by nobody.
Promised(i) ==
  \/ query.includeAllOpen /\ item[i].open
  \/ IF SelectedBy(query.provider, query.kind) = "created" THEN item[i].created >= Since
     ELSE /\ item[i].updated >= Since
          /\ SortedByUpdate(query.provider, query.kind) \/ \A j \in outdated : j < i

\* However the pages fall and wherever the boundary lies, also on the edge of a page
\* or at equal times: what a listing is read for has been read when it ends, in spite
\* of the items that are created and changed meanwhile and push others to the next
\* page.  An item that leaves a listing pulls the others to a page already read: one
\* of them may be missed then.
AllIsRead ==
  Done /\ ~left =>
    \A i \in Ids \ touched :
      item[i] # Missing /\ Promised(i) => item[i] \in Range(Result)

\* Of an item that was read more than once, as it moved or is both updated and open,
\* the latest reading is the one that is stored, the last of the result.  GitLab's
\* two listings are read at once: there the one of open items prevails.
LatestReadingCounts ==
  Done /\ ~Concurrent(query.provider) =>
    \A i \in Ids :
      lastRead[i] # Missing =>
        lastRead[i] = Result[SelectLastInSeq(Result, LAMBDA r : r.id = i)]

\* Whatever the provider: a run that waits for approval is queued; one that is under
\* way or waits is active, unless GitLab has a state for it that is not known here; and
\* one that is over or completed is not, save for the approval it may ask for:
\* WorkflowRunSync refreshes runs by their status until they settle.
StatusesFollowRuns ==
  refreshed # Missing =>
    LET answer == refreshed.answer
        run    == refreshed.run
        active == run.status \in {"QUEUED", "RUNNING"}
    IN  /\ run.awaitingApproval => run.status = "QUEUED"
        /\ answer \in Underway(query.provider) => active \/ answer.status \in Unknown
        /\ answer \in Over(query.provider) => ~active
        /\ run.completedAt # Missing => ~active \/ run.awaitingApproval

\* Whatever the headers say and however the random numbers fall, a retry lies ahead
\* and within a day; a rate limit holds the account back even when the
\* synchronization is not repeated, and else as long as the synchronization; and
\* without a time told by the provider an attempt waits at least as long as the one
\* before: the random part never reaches beyond the next delay.
RetriesBackOff ==
  [][ failure' # failure =>
        /\ failure'.retry => failure'.wait > 0 /\ failure'.wait <= Day
        /\ failure'.class \in {"limited", "told"} =>
             failure'.hold # Missing /\ failure'.hold > 0 /\ failure'.hold <= Day
        /\ failure'.retry /\ failure'.hold # Missing => failure'.hold = failure'.wait
        /\ /\ failure # Missing /\ failure'.class = failure.class
           /\ failure'.retry /\ failure.class \in {"limited", "transient"}
           => failure'.wait >= failure.wait ]_listingVars
=============================================================================
