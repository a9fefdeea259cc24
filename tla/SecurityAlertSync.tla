-------------------------- MODULE SecurityAlertSync --------------------------
(***************************************************************************)
(* The synchronization of security alerts of one repository:               *)
(* apps/api/src/modules/providers/security-alert-sync.service.ts over the  *)
(* listings of the provider adapters.  GitHub lists each kind on its own,  *)
(* GitLab all kinds at once, Gitea and Forgejo none.  Alerts and the right *)
(* to read them change at the provider while a synchronization is under    *)
(* way; it may die or be rejected at every step and is started again.  A   *)
(* kind is listed in one piece: a listing that changes between its pages   *)
(* is the subject of ProviderListing.                                      *)
(***************************************************************************)
EXTENDS ProviderAdapters

CONSTANTS
  AlertKinds,      \* the kinds in the order in which they are persisted
  Alerts, KindOf,  \* the alerts, and the kind of each
  ProviderTypes,   \* the providers the repository may live at
  Syncers,         \* synchronizations under way at once
  None,            \* a row that does not exist
  MaxUpdated, MaxChanges, MaxFaults   \* bounds

Kinds == Range(AlertKinds)

ASSUME AlertConstants ==
  /\ AlertKinds \in Seq(Kinds) /\ AlertKinds # <<>> /\ IsInjective(AlertKinds)
  /\ KindOf \in [Alerts -> Kinds]
  /\ ProviderTypes \subseteq Providers
  /\ {MaxUpdated, MaxChanges, MaxFaults} \subseteq Nat
  /\ None \notin [state: {"OPEN", "DISMISSED", "RESOLVED"}, updated: Nat]

VARIABLES
  provider,      \* the provider's type
  remote,        \* the provider's alerts
  readable,      \* the kinds the account may read
  row,           \* security_alerts
  syncState,     \* security_alert_sync_states
  pc, sync,      \* the synchronizations
  changes, faults,
  told,          \* history: the states subscribers know
  lost           \* history: alerts whose event a fault has swallowed

outside == <<provider, remote, readable, changes>>
history == <<told, lost>>
vars == <<outside, row, syncState, pc, sync, faults, history>>

\* The states the provider has for them.
ProviderStates(type) ==
  IF type = "GITHUB" THEN {"open", "dismissed", "auto_dismissed", "fixed"}
                     ELSE {"DETECTED", "CONFIRMED", "DISMISSED", "RESOLVED"}

\* Alert a as the adapter returns it.
Alert(a) == [remote[a] EXCEPT !.state = AlertState(provider, @)]

\* What a listing says of one kind; a kind that is not AVAILABLE has no alerts.
Unlisted == [availability |-> "UNLISTED", alerts |-> <<>>]
Refused(availability) == [availability |-> availability, alerts |-> <<>>]

\* A synchronization: the results, the kinds it has yet to persist, the state of
\* the kind in progress, its alerts to persist, and the one in progress.
NoSync == [results |-> [k \in Kinds |-> Unlisted], rest |-> <<>>, previousSync |-> None,
           alerts |-> {}, alert |-> None, previous |-> "ABSENT"]

StateOf(r) == IF r = None THEN "ABSENT" ELSE r.state

-----------------------------------------------------------------------------
(* The provider. *)

\* An alert appears, or changes its state, or is changed otherwise.
Change(a) ==
  LET updated == IF remote[a] = None THEN 1 ELSE remote[a].updated + 1 IN
  /\ updated <= MaxUpdated /\ changes < MaxChanges
  /\ changes' = changes + 1
  /\ \E s \in ProviderStates(provider) :
       remote' = [remote EXCEPT ![a] = [state |-> s, updated |-> updated]]
  /\ UNCHANGED <<provider, readable, row, syncState, pc, sync, faults>>
  /\ UNCHANGED history

\* GitHub grants kinds one by one, GitLab all of them or none.
ChangeAccess ==
  /\ changes < MaxChanges
  /\ changes' = changes + 1
  /\ readable' \in IF provider = "GITHUB" THEN SUBSET Kinds ELSE {Kinds, {}}
  /\ UNCHANGED <<provider, remote, row, syncState, pc, sync, faults, history>>

-----------------------------------------------------------------------------
(* One synchronization. *)

Go(s, p, v) ==
  /\ pc' = [pc EXCEPT ![s] = p]
  /\ sync' = [sync EXCEPT ![s] = v]

Quiet == UNCHANGED <<outside, row, syncState, faults, history>>

Begin(s) ==
  /\ pc[s] = "idle"
  /\ Go(s, "listing", [NoSync EXCEPT !.rest = AlertKinds])
  /\ Quiet

\* Mutation: one kind that is refused refuses all.
ReadKindOfAll(k) ==
  IF readable # Kinds THEN Refused("UNAVAILABLE")
  ELSE [availability |-> "AVAILABLE",
        alerts |-> [a \in {b \in Alerts : KindOf[b] = k /\ remote[b] # None} |->
                      Alert(a)]]

\* A listing of a kind that the account may not read is answered by 403.
ReadKind(k) ==
  IF k \notin readable THEN Refused(AlertAvailability(provider, 403, FALSE))
  ELSE [availability |-> "AVAILABLE",
        alerts |-> [a \in {b \in Alerts : KindOf[b] = k /\ remote[b] # None} |->
                      Alert(a)]]

\* The results are complete when every kind has one.
List(s, results) ==
  Go(s, IF \A k \in Kinds : results[k] # Unlisted THEN "kind" ELSE "listing",
     [sync[s] EXCEPT !.results = results])

\* listSecurityAlerts of GitHub: the kinds are read concurrently, ...
ListKind(s, k) ==
  /\ pc[s] = "listing" /\ provider = "GITHUB"
  /\ sync[s].results[k] = Unlisted
  /\ List(s, [sync[s].results EXCEPT ![k] = ReadKind(k)])
  /\ Quiet

\* ... of GitLab: one listing has them all ...
ListAll(s) ==
  /\ pc[s] = "listing" /\ provider = "GITLAB"
  /\ List(s, [k \in Kinds |-> ReadKind(k)])
  /\ Quiet

\* ... and adapters without listSecurityAlerts.
ListNothing(s) ==
  /\ pc[s] = "listing" /\ provider \in {"GITEA", "FORGEJO"}
  /\ List(s, [k \in Kinds |-> Refused("UNSUPPORTED")])
  /\ Quiet

\* persistKind reads the state of the kind.
ReadSyncState(s) ==
  LET k == Head(sync[s].rest) IN
  /\ pc[s] = "kind"
  /\ Go(s, "alerts", [sync[s] EXCEPT !.previousSync = syncState[k],
                                     !.alerts = DOMAIN sync[s].results[k].alerts])
  /\ Quiet

\* Mutation: a kind is known as soon as its state has been stored.
baselineUntilStored(v) == v.previousSync = None

baseline(v) == v.previousSync = None \/ ~v.previousSync.baselineEstablished

\* persistAlert reads the state that is stored ...
ReadPrevious(s) ==
  /\ pc[s] = "alerts"
  /\ \E a \in sync[s].alerts :
       Go(s, "upserting", [sync[s] EXCEPT !.alert = a, !.alerts = @ \ {a},
                                          !.previous = StateOf(row[a])])
  /\ Quiet

\* Mutation: only what is open is new.
IsSilentUnlessOpen(v, state) == baseline(v) \/ v.previous = state \/ state # "OPEN"

IsSilent(v, state) == baseline(v) \/ v.previous = state

\* ... replaces the row, and has an event to emit if the state is another.  What
\* it does not tell subscribers counts as known to them.
Upsert(s) ==
  LET v == sync[s]
      a == v.alert
      version == v.results[KindOf[a]].alerts[a]
  IN
  /\ pc[s] = "upserting"
  /\ row' = [row EXCEPT ![a] = version]
  /\ IF IsSilent(v, version.state)
     THEN /\ Go(s, "alerts", [v EXCEPT !.alert = None, !.previous = "ABSENT"])
          /\ told' = [told EXCEPT ![a] = IF @ = "ABSENT" \/ baseline(v)
                                         THEN version.state ELSE @]
          /\ lost' = lost \ (IF baseline(v) THEN {a} ELSE {})
     ELSE Go(s, "emitting", v) /\ UNCHANGED <<told, lost>>
  /\ UNCHANGED <<outside, syncState, faults>>

\* What Emit tells subscribers of: the alert opened or, in any other state, ended.
Told(v) == v.results[KindOf[v.alert]].alerts[v.alert].state

\* emitSecurityAlertEvent.
Emit(s) ==
  LET v == sync[s]
      a == v.alert
  IN
  /\ pc[s] = "emitting"
  /\ told' = [told EXCEPT ![a] = Told(v)]
  /\ lost' = lost \ {a}
  /\ Go(s, "alerts", [v EXCEPT !.alert = None, !.previous = "ABSENT"])
  /\ UNCHANGED <<outside, row, syncState, faults>>

\* The latest change among the alerts and what the state had.
SynchronizedThrough(v, k) ==
  Max({IF v.previousSync = None THEN 0 ELSE v.previousSync.synchronizedThrough}
      \cup {v.results[k].alerts[a].updated : a \in DOMAIN v.results[k].alerts})

\* The state of the kind is stored when all its alerts are, and the next kind or
\* nothing is left.  A refusal leaves the baseline and the time as they are.
StoreSyncState(s) ==
  LET v == sync[s]
      k == Head(v.rest)
      result == v.results[k]
      old == IF syncState[k] = None
             THEN [availability |-> "UNLISTED", baselineEstablished |-> FALSE,
                   synchronizedThrough |-> 0]
             ELSE syncState[k]
  IN
  /\ pc[s] = "alerts" /\ v.alerts = {}
  /\ syncState' = [syncState EXCEPT ![k] =
       IF result.availability = "AVAILABLE"
       THEN [availability |-> "AVAILABLE", baselineEstablished |-> TRUE,
             synchronizedThrough |-> SynchronizedThrough(v, k)]
       ELSE [old EXCEPT !.availability = result.availability]]
  /\ IF Tail(v.rest) = <<>> THEN Go(s, "idle", NoSync)
     ELSE Go(s, "kind", [v EXCEPT !.rest = Tail(@), !.previousSync = None])
  /\ UNCHANGED <<outside, row, faults, history>>

\* A request or statement is rejected or the process dies: the synchronization
\* ends, and the queue starts another.
Crash(s) ==
  /\ pc[s] # "idle" /\ faults < MaxFaults
  /\ faults' = faults + 1
  /\ Go(s, "idle", NoSync)
  /\ lost' = IF pc[s] = "emitting" THEN lost \cup {sync[s].alert} ELSE lost
  /\ UNCHANGED <<outside, row, syncState, told>>

-----------------------------------------------------------------------------
Init ==
  /\ provider \in ProviderTypes
  /\ remote \in [Alerts -> {None} \cup [state: ProviderStates(provider), updated: {1}]]
  /\ readable \in IF provider = "GITHUB" THEN SUBSET Kinds ELSE {Kinds, {}}
  /\ row = [a \in Alerts |-> None]
  /\ syncState = [k \in Kinds |-> None]
  /\ pc = [s \in Syncers |-> "idle"]
  /\ sync = [s \in Syncers |-> NoSync]
  /\ changes = 0 /\ faults = 0
  /\ lost = {}
  /\ told = [a \in Alerts |-> "ABSENT"]

Step(s) ==
  \/ Begin(s)
  \/ \E k \in Kinds : ListKind(s, k)
  \/ ListAll(s) \/ ListNothing(s)
  \/ ReadSyncState(s) \/ ReadPrevious(s) \/ Upsert(s) \/ Emit(s)
  \/ StoreSyncState(s)

Next ==
  \/ \E a \in Alerts : Change(a)
  \/ ChangeAccess
  \/ \E s \in Syncers : Step(s) \/ Crash(s)

Spec == Init /\ [][Next]_vars

\* A synchronization that has begun goes on or fails, and the queue starts
\* another one in the end (RequestsSettle of SyncQueue, reconciliation).
LiveSpec == Spec /\ \A s \in Syncers : WF_vars(Step(s))

-----------------------------------------------------------------------------
(* Properties. *)

Established(k) == syncState[k] # None /\ syncState[k].baselineEstablished

InProgress(a) == \E s \in Syncers : pc[s] = "emitting" /\ sync[s].alert = a

\* Subscribers know the state of every stored alert, from the silent baseline or
\* from events, unless a synchronization died between storing and announcing.
SubscribersAreCurrent ==
  \A a \in Alerts : InProgress(a) \/ a \in lost \/ told[a] = StateOf(row[a])

\* An event follows an established baseline of its kind, however often the
\* baseline was begun, refused or taken away, and tells a state that subscribers
\* do not know.
BaselineIsSilent ==
  [][\A s \in Syncers :
       pc[s] = "emitting" /\ pc'[s] = "alerts" =>
         /\ Established(KindOf[sync[s].alert])
         /\ sync[s].alert \in lost \/ told[sync[s].alert] # Told(sync[s])]_vars

\* An alert is stored in the end although other kinds stay refused.
AlertsAreStored ==
  \A a \in Alerts :
    []<>(\/ row[a] = IF remote[a] = None THEN None ELSE Alert(a)
         \/ KindOf[a] \notin readable \/ provider \in {"GITEA", "FORGEJO"})
=============================================================================
