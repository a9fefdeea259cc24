---------------------------- MODULE WorkItemSync ----------------------------
(***************************************************************************)
(* Synchronization of one work-item domain (issues or pull requests) of    *)
(* one repository: apps/api/src/modules/providers/work-item-sync.service.ts*)
(* with the paginated listings of the provider adapters and the emission of*)
(* lifecycle events (notifications.service.ts).                            *)
(*                                                                         *)
(* A syncer is one execution of synchronizeIssues or                       *)
(* synchronizePullRequests.  Each request to the provider and each         *)
(* statement or transaction on the database is one step.  Times are ticks  *)
(* of one clock; the provider's stamps lag behind it by at most Skew (they *)
(* are rounded to seconds, and its clock is another).                      *)
(***************************************************************************)
EXTENDS Integers, Sequences, FiniteSets

CONSTANTS
  Items,           \* items of the repository, as the provider numbers them
  PullRequests,    \* whether the items are pull requests (or issues)
  Syncers,         \* concurrent synchronizations of the repository
  PageSize,        \* items per page of a listing
  Overlap,         \* cursorOverlapMs
  History,         \* initialHistoryMs
  Skew,            \* how far a provider's stamp may lag behind
  Start, MaxTime,  \* bound: the clock runs from Start to MaxTime
  MaxChanges,      \* bound: changes of items at the provider
  MaxFaults,       \* bound: synchronizations that die or are rejected
  NoCursor         \* there is no cursor yet

ASSUME WorkItemConstants ==
  /\ Items \subseteq Nat /\ IsFiniteSet(Items)
  /\ PullRequests \in BOOLEAN
  /\ PageSize \in Nat \ {0}
  /\ {Overlap, History, Skew, Start, MaxTime, MaxChanges, MaxFaults} \subseteq Nat
  /\ Start <= MaxTime
  /\ Skew <= Overlap /\ Skew <= Start
  /\ NoCursor \notin Int

VARIABLES
  clock,
  item,            \* the items as the provider has them
  stored,          \* the items as the database has them
  cursor,          \* workItemSyncCursor.synchronizedThrough
  announced,       \* notification events, by their deduplication key
  pc,              \* where each syncer is
  sync,            \* its variables
  changes, faults, \* how much of the bounds is used
  real,            \* history: when each item changed last, by the true clock
  first,           \* history: the first cursor
  told,            \* history: the state subscribers know each item to be in
  lost             \* history: items with an event no syncer will emit

provider == <<item, changes, real>>
history  == <<first, told, lost>>
vars     == <<clock, provider, stored, cursor, announced, pc, sync, faults, history>>

Times   == 0..MaxTime
States  == {"OPEN", "CLOSED"} \cup (IF PullRequests THEN {"MERGED"} ELSE {})
Absent  == [state |-> "ABSENT", created |-> 0, updated |-> 0]

\* A syncer's variables: its window, the page it reads next, the items it has
\* listed and not persisted, the one in progress, that one's previous state and
\* its events.
NoSync == [through |-> 0, cursor |-> NoCursor, query |-> "recent", page |-> 1,
           listed |-> [i \in Items |-> Absent], current |-> Absent, number |-> 0,
           previous |-> "ABSENT", events |-> <<>>]

-----------------------------------------------------------------------------
(* The provider. *)

Tick ==
  /\ clock < MaxTime
  /\ clock' = clock + 1
  /\ UNCHANGED <<provider, stored, cursor, announced, pc, sync, faults, history>>

\* An item becomes v, stamped later than its previous change.
Alter(i, v) ==
  /\ changes < MaxChanges
  /\ item[i] = Absent \/ v.updated > item[i].updated
  /\ changes' = changes + 1
  /\ item' = [item EXCEPT ![i] = v]
  /\ real' = [real EXCEPT ![i] = clock]
  /\ UNCHANGED <<clock, stored, cursor, announced, pc, sync, faults, history>>

Open(i, t) ==
  /\ item[i] = Absent
  /\ Alter(i, [state |-> "OPEN", created |-> t, updated |-> t])

\* Closed, merged, reopened.
Turn(i, s, t) ==
  /\ item[i].state \in {"OPEN", "CLOSED"}
  /\ s # item[i].state
  /\ item[i].state = "CLOSED" => s = "OPEN"
  /\ Alter(i, [item[i] EXCEPT !.state = s, !.updated = t])

\* Commented on, or edited.
Touch(i, t) ==
  /\ item[i] # Absent
  /\ Alter(i, [item[i] EXCEPT !.updated = t])

-----------------------------------------------------------------------------
(* One synchronization. *)

Go(s, p, v) ==
  /\ pc' = [pc EXCEPT ![s] = p]
  /\ sync' = [sync EXCEPT ![s] = v]

Quiet == UNCHANGED <<clock, provider, stored, cursor, announced, faults, history>>

\* syncWindow takes the time first,
BeginSync(s) ==
  /\ pc[s] = "idle"
  /\ Go(s, "window", [NoSync EXCEPT !.through = clock])
  /\ Quiet

\* and then reads the cursor.
ReadCursor(s) ==
  /\ pc[s] = "window"
  /\ Go(s, "listing", [sync[s] EXCEPT !.cursor = cursor])
  /\ Quiet

baseline(v) == v.cursor = NoCursor

\* Mutation: the window begins where the last one ended.
UpdatedAfterWithoutOverlap(v) == IF baseline(v) THEN v.through - History ELSE v.cursor

UpdatedAfter(v) == IF baseline(v) THEN v.through - History ELSE v.cursor - Overlap

\* Mutation: only open items are listed.
ListedOpen(v) == {i \in Items : item[i].state = "OPEN"}

\* What a query selects of the items the provider has now.
Listed(v) ==
  IF v.query = "recent"
  THEN {i \in Items : item[i] # Absent /\ item[i].updated >= UpdatedAfter(v)}
  ELSE {i \in Items : item[i].state = "OPEN"}

\* Listings are sorted by their time of update, the latest first.
Before(i, j) ==
  \/ item[i].updated > item[j].updated
  \/ item[i].updated = item[j].updated /\ i < j

Page(v) ==
  {i \in Listed(v) :
     LET n == Cardinality({j \in Listed(v) : Before(j, i)}) IN
     (v.page - 1) * PageSize <= n /\ n < v.page * PageSize}

\* listPages reads until a page is not full; the first synchronization then lists
\* all open items as well.  Of an item read twice, the later reading counts.
ListPage(s) ==
  LET v    == sync[s]
      read == [v EXCEPT !.listed = [i \in Items |-> IF i \in Page(v) THEN item[i]
                                                    ELSE v.listed[i]]]
  IN
  /\ pc[s] = "listing"
  /\ \/ /\ Cardinality(Page(v)) = PageSize
        /\ Go(s, "listing", [read EXCEPT !.page = @ + 1])
     \/ /\ Cardinality(Page(v)) < PageSize
        /\ baseline(v) /\ v.query = "recent"
        /\ Go(s, "listing", [read EXCEPT !.query = "open", !.page = 1])
     \/ /\ Cardinality(Page(v)) < PageSize
        /\ ~baseline(v) \/ v.query = "open"
        /\ Go(s, "persisting", read)
  /\ Quiet

\* persistIssue and persistPullRequest read the state the database has,
ReadPrevious(s, i) ==
  /\ pc[s] = "persisting"
  /\ sync[s].listed[i] # Absent
  /\ Go(s, "upserting", [sync[s] EXCEPT !.listed[i] = Absent, !.number = i,
                                        !.current = sync[s].listed[i],
                                        !.previous = stored[i].state])
  /\ Quiet

\* Mutation: an unchanged state is not left out.
LifecycleEventsAlways(previous, state, createdAfterCursor) ==
  IF previous = "ABSENT"
  THEN (IF createdAfterCursor THEN <<"OPENED">> ELSE <<>>)
         \o (IF state = "OPEN" THEN <<>> ELSE <<state>>)
  ELSE <<IF state = "OPEN" THEN "REOPENED" ELSE state>>

\* Mutation: reopening is no event.
LifecycleEventsWithoutReopening(previous, state, createdAfterCursor) ==
  IF previous = "ABSENT"
  THEN (IF createdAfterCursor THEN <<"OPENED">> ELSE <<>>)
         \o (IF state = "OPEN" THEN <<>> ELSE <<state>>)
  ELSE IF previous = state \/ state = "OPEN" THEN <<>> ELSE <<state>>

\* issueLifecycleEvents and pullRequestLifecycleEvents, which differ in the states.
LifecycleEvents(previous, state, createdAfterCursor) ==
  IF previous = state THEN <<>>
  ELSE IF previous = "ABSENT"
  THEN (IF createdAfterCursor THEN <<"OPENED">> ELSE <<>>)
         \o (IF state = "OPEN" THEN <<>> ELSE <<state>>)
  ELSE <<IF state = "OPEN" THEN "REOPENED" ELSE state>>

\* upsert the item in a transaction and derive what to emit, if anything.  Without
\* an event, a state met for the first time counts as known to subscribers.
Upsert(s) ==
  LET v == sync[s]
      i == v.number
      events == IF baseline(v) THEN <<>>
                ELSE LifecycleEvents(v.previous, v.current.state,
                                     v.current.created > v.cursor)
  IN
  /\ pc[s] = "upserting"
  /\ stored' = [stored EXCEPT ![i] = v.current]
  /\ IF events = <<>>
     THEN Go(s, "persisting", [v EXCEPT !.number = 0, !.current = Absent,
                                        !.previous = "ABSENT"])
     ELSE Go(s, "emitting", [v EXCEPT !.events = events, !.previous = "ABSENT"])
  /\ told' = IF events = <<>> /\ (baseline(v) \/ v.previous = "ABSENT")
             THEN [told EXCEPT ![i] = v.current.state] ELSE told
  /\ UNCHANGED <<clock, provider, cursor, announced, faults, first, lost>>

Meaning(type) == IF type \in {"OPENED", "REOPENED"} THEN "OPEN" ELSE type

\* emitIssueEvent, emitPullRequestEvent: one delivery per key and channel.
Emit(s) ==
  LET v == sync[s]
      e == [item |-> v.number, type |-> Head(v.events), updated |-> v.current.updated]
  IN
  /\ pc[s] = "emitting"
  /\ announced' = announced \cup {e}
  /\ IF Tail(v.events) = <<>>
     THEN Go(s, "persisting", [v EXCEPT !.number = 0, !.current = Absent, !.events = <<>>])
     ELSE Go(s, "emitting", [v EXCEPT !.events = Tail(@)])
  /\ told' = IF e \in announced THEN told
             ELSE [told EXCEPT ![v.number] = Meaning(e.type)]
  /\ lost' = lost \ {v.number}
  /\ UNCHANGED <<clock, provider, stored, cursor, faults, first>>

Persisted(s) == pc[s] = "persisting" /\ \A i \in Items : sync[s].listed[i] = Absent

Advance(s, t) ==
  /\ Persisted(s)
  /\ cursor' = t
  /\ first' = IF cursor = NoCursor THEN sync[s].through ELSE first
  /\ Go(s, "idle", NoSync)
  /\ UNCHANGED <<clock, provider, stored, announced, faults, told, lost>>

\* advanceCursor.
AdvanceCursor(s) == Advance(s, sync[s].through)

\* A request or statement is rejected or the process dies: the synchronization
\* ends and the queue retries it from the beginning.
Crash(s) ==
  /\ pc[s] # "idle" /\ faults < MaxFaults
  /\ faults' = faults + 1
  /\ Go(s, "idle", NoSync)
  /\ lost' = IF pc[s] = "emitting" THEN lost \cup {sync[s].number} ELSE lost
  /\ UNCHANGED <<clock, provider, stored, cursor, announced, first, told>>

-----------------------------------------------------------------------------
\* The repository is new to the database; the items the provider has were created
\* before any synchronization, and a change of an item is stamped later than its
\* previous one.
Init ==
  /\ clock = Start
  /\ item \in [Items -> {Absent} \cup [state: States, created: {0}, updated: 0..Start]]
  /\ real = [i \in Items |-> item[i].updated]
  /\ changes = 0
  /\ stored = [i \in Items |-> Absent]
  /\ cursor = NoCursor
  /\ announced = {}
  /\ pc = [s \in Syncers |-> "idle"]
  /\ sync = [s \in Syncers |-> NoSync]
  /\ faults = 0
  /\ first = NoCursor
  /\ told = [i \in Items |-> "ABSENT"]
  /\ lost = {}

Provider ==
  \E i \in Items, t \in clock - Skew .. clock :
    Open(i, t) \/ Touch(i, t) \/ \E s \in States : Turn(i, s, t)

Step(s) ==
  \/ BeginSync(s)
  \/ ReadCursor(s)
  \/ ListPage(s)
  \/ \E i \in Items : ReadPrevious(s, i)
  \/ Upsert(s)
  \/ Emit(s)
  \/ AdvanceCursor(s)

Next ==
  \/ Tick
  \/ Provider
  \/ \E s \in Syncers : Step(s) \/ Crash(s)

Spec == Init /\ [][Next]_vars

-----------------------------------------------------------------------------
(* Properties. *)

\* The items the first synchronization's window and later changes bring in.
InScope(i) == item[i] # Absent /\ (first # NoCursor => item[i].updated >= first - History)

\* The cursor leaves no timestamp gap: whatever changed before it is stored as it
\* is, although stamps lag behind, pages move while they are read, and
\* synchronizations die half-way.  One synchronization at a time is assumed.
CursorCoversChanges ==
  cursor # NoCursor =>
    \A i \in Items : InScope(i) /\ real[i] < cursor => stored[i] = item[i]

InProgress(i) == \E s \in Syncers : pc[s] = "emitting" /\ sync[s].number = i

\* Subscribers know the state of every stored item, from the silent baseline or
\* from events, unless a synchronization died between storing and announcing.
SubscribersAreCurrent ==
  \A i \in Items :
    InProgress(i) \/ i \in lost \/ told[i] = stored[i].state

\* An event tells something subscribers do not know yet.
NewsIsNew ==
  [][\A e \in announced' \ announced :
       e.item \in lost \/ told[e.item] # Meaning(e.type)]_vars

\* Synchronizations are started again and again (a reconciliation polls every
\* 30 minutes) and go on until they end.
Fairness == \A s \in Syncers : WF_vars(Step(s))

LiveSpec == Spec /\ Fairness

\* What happens at the provider arrives in the database.
ChangesAreStored ==
  \A i \in Items : []<>(~InScope(i) \/ stored[i] = item[i])
=============================================================================
