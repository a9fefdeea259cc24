------------------------- MODULE NotificationDelivery -------------------------
(***************************************************************************)
(* Creation and delivery of notifications:                                 *)
(* apps/api/src/modules/notifications/notifications.service.ts (emitEvent, *)
(* testChannel), notification-delivery.service.ts and                      *)
(* browser-push.service.ts.                                                *)
(*                                                                         *)
(* A deliverer is one invocation of deliverPending: the retry timer's,     *)
(* over every pending row that is due, or the one an event or a test starts*)
(* at once over the rows it created.  Nothing claims a row: deliverers read*)
(* the pending rows with their channels and attempts, work on these        *)
(* snapshots and write the outcome by id.                                  *)
(*                                                                         *)
(* Every statement that commits by itself and every call that leaves the   *)
(* process is one step.  There is no clock: `due' holds the rows whose     *)
(* nextAttemptAt is null or in the past.                                   *)
(*                                                                         *)
(* createPayload never throws here: a row loses its repository or subject  *)
(* only by the cascade that deletes the row itself.                        *)
(***************************************************************************)
EXTENDS Integers, FiniteSets

CONSTANTS
  Channels,            \* notification channels
  PushChannels,        \* those of type BROWSER_PUSH; the others use Apprise
  Deliveries,          \* delivery rows: one per channel and deduplication key
  TestDeliveries,      \* those of kind TEST
  ChannelOf,           \* the channel of each delivery
  EventOf,             \* the event (deduplication key) of each delivery
  Users,               \* users who may be recipients
  Devices,             \* browser push subscriptions
  OwnerOf,             \* the user of each subscription
  NoDevice,            \* an attempt without subscription: the channel itself
  Emitters,            \* concurrent invocations by events and tests
  Timers,              \* concurrent invocations by the retry timer
  maximumAttempts,     \* maximumAttempts
  MaxEvents,           \* bound: events that have rows at a time
  MaxFaults,           \* bound: crashes and rejected statements
  MaxChanges           \* bound: what administrators and users change

ASSUME NotificationConstants ==
  /\ PushChannels \subseteq Channels
  /\ TestDeliveries \subseteq Deliveries
  /\ ChannelOf \in [Deliveries -> Channels]
  /\ OwnerOf \in [Devices -> Users]
  /\ NoDevice \notin Devices
  /\ IsFiniteSet(Emitters) /\ IsFiniteSet(Timers)
  /\ maximumAttempts \in Nat \ {0}
  /\ MaxFaults \in Nat
  /\ MaxChanges \in Nat

VARIABLES
  channel,             \* whether a channel is enabled, disabled or deleted
  recipients,          \* users a push channel is for
  subscription,        \* whether a subscription is new, registered or removed
  delivery,            \* status of each row, NONE if there is no row
  due,                 \* rows whose nextAttemptAt is null or in the past
  attempts,            \* the attempts recorded for each row
  pc,                  \* where each deliverer is
  wanted,              \* rows an emission wants to exist and to be attempted
  batch,               \* snapshots of the rows still to deliver
  job,                 \* the delivery in progress
  faults,              \* faults that happened so far
  changes,             \* changes made so far
  sent,                \* history: successful sends of each row to each target
  lost                 \* history: successful sends that were never recorded

Deliverers == Emitters \cup Timers

configuration == <<channel, recipients>>
local   == <<pc, wanted, batch, job>>
vars    == <<configuration, subscription, delivery, due, attempts, local, faults,
             changes, sent, lost>>

Targets  == Devices \cup {NoDevice}
Attempt  == [number: Nat \ {0}, delivered: BOOLEAN, device: Targets]
Snapshot == [delivery: Deliveries, enabled: BOOLEAN, users: SUBSET Users,
             number: Nat \ {0}, reached: SUBSET Devices, done: BOOLEAN]
Result   == [device: Devices, delivered: BOOLEAN]

\* One execution of deliver: the snapshot it works on and its variables, where
\* `failed' is recipientFailure and `rejected' a rejected send.
Job == [row: Snapshot, users: SUBSET Users, devices: SUBSET Devices,
        results: SUBSET Result, delivered: BOOLEAN, failed: BOOLEAN,
        rejected: BOOLEAN]
NoJob == [row |-> "none"]

Exists(d) == delivery[d] # "NONE"

\* Subscriptions that exist.  The id of one that was removed is not used again.
registered == {x \in Devices : subscription[x] = "registered"}

IsPush(d) == ChannelOf[d] \in PushChannels

-----------------------------------------------------------------------------
(* Emission. *)

\* findMatchingChannels, for the deliveries an event would have, or testChannel,
\* whose delivery has a key of its own and needs no enabled channel.
MatchEvent(w, e) ==
  LET matched == {d \in Deliveries :
        /\ EventOf[d] = e
        /\ \/ d \notin TestDeliveries /\ channel[ChannelOf[d]] = "enabled"
           \/ d \in TestDeliveries /\ channel[ChannelOf[d]] # "deleted" /\ ~Exists(d)}
  IN
  /\ w \in Emitters /\ pc[w] = "idle"
  /\ matched # {}
  /\ Cardinality({e} \cup {EventOf[d] : d \in {x \in Deliveries : Exists(x)}})
       <= MaxEvents
  /\ pc' = [pc EXCEPT ![w] = "creating"]
  /\ wanted' = [wanted EXCEPT ![w] = matched]
  /\ UNCHANGED <<configuration, subscription, delivery, due, attempts, batch, job,
                 faults, changes, sent, lost>>

\* createMany with skipDuplicates; a channel deleted meanwhile fails it.
CreateDeliveries(w) ==
  LET new == {d \in wanted[w] : ~Exists(d)}
      fits == \A d \in new : channel[ChannelOf[d]] # "deleted"
  IN
  /\ pc[w] = "creating"
  /\ IF fits
     THEN /\ delivery' = [d \in Deliveries |-> IF d \in new THEN "PENDING"
                                                            ELSE delivery[d]]
          /\ due' = due \cup new
          /\ pc' = [pc EXCEPT ![w] = "created"]
          /\ UNCHANGED wanted
     ELSE /\ pc' = [pc EXCEPT ![w] = "idle"]
          /\ wanted' = [wanted EXCEPT ![w] = {}]
          /\ UNCHANGED <<delivery, due>>
  /\ UNCHANGED <<configuration, subscription, attempts, batch, job, faults, changes,
                 sent, lost>>

-----------------------------------------------------------------------------
(* Reading the pending rows. *)

\* attemptNumber: one more than the highest recorded attempt.
NextNumber(d) ==
  IF attempts[d] = {} THEN 1
  ELSE 1 + CHOOSE n \in {a.number : a \in attempts[d]} :
             \A a \in attempts[d] : a.number <= n

\* Mutation: the success of the channel itself is not looked for.
SnapshotOfIgnoringSuccess(d) ==
  [delivery |-> d,
   enabled  |-> channel[ChannelOf[d]] = "enabled",
   users    |-> recipients[ChannelOf[d]],
   number   |-> NextNumber(d),
   reached  |-> {},
   done     |-> FALSE]

\* A row with its channel, its recipients and what deliver derives from its
\* attempts: attemptNumber, deliveredSubscriptionIds and channelAlreadyDelivered.
SnapshotOf(d) ==
  [delivery |-> d,
   enabled  |-> channel[ChannelOf[d]] = "enabled",
   users    |-> recipients[ChannelOf[d]],
   number   |-> NextNumber(d),
   reached  |-> {a.device : a \in {b \in attempts[d] : b.delivered}} \ {NoDevice},
   done     |-> \E a \in attempts[d] : a.delivered /\ a.device = NoDevice]

\* Mutation: settled rows are attempted again.
PendingDueAny(D) == {d \in D : Exists(d) /\ d \in due}

PendingDue(D) == {d \in D : delivery[d] = "PENDING" /\ d \in due}

Read(w, D) ==
  /\ batch' = [batch EXCEPT ![w] = {SnapshotOf(d) : d \in PendingDue(D)}]
  /\ pc' = [pc EXCEPT ![w] = IF PendingDue(D) = {} THEN "idle" ELSE "delivering"]
  /\ wanted' = [wanted EXCEPT ![w] = {}]
  /\ UNCHANGED <<configuration, subscription, delivery, due, attempts, job, faults,
                 changes, sent, lost>>

\* The emission attempts its own pending rows at once.  createEventDeliveries
\* reads their ids and deliverPending the same rows: one step.
ReadOwn(w) == pc[w] = "created" /\ Read(w, wanted[w])

\* scheduleRetries.
ReadDue(w) ==
  /\ w \in Timers /\ pc[w] = "idle"
  /\ PendingDue(Deliveries) # {}
  /\ Read(w, Deliveries)

-----------------------------------------------------------------------------
(* Delivering one row. *)

Start(s) == [row |-> s, users |-> s.users, devices |-> {}, results |-> {},
             delivered |-> TRUE, failed |-> FALSE, rejected |-> FALSE]

Go(w, p, j) ==
  /\ pc' = [pc EXCEPT ![w] = p]
  /\ job' = [job EXCEPT ![w] = j]

\* The invocation ends, or goes on with its next row.
Leave(w) == Go(w, IF batch[w] = {} THEN "idle" ELSE "delivering", NoJob)

\* The invocation is rejected or dies: its remaining rows are not attempted.
Abandon(w) ==
  /\ Go(w, "idle", NoJob)
  /\ batch' = [batch EXCEPT ![w] = {}]
  /\ wanted' = [wanted EXCEPT ![w] = {}]

\* deliver begins with one of the snapshots; they come in no given order.
Deliver(w) ==
  /\ pc[w] = "delivering"
  /\ \E s \in batch[w] :
       /\ batch' = [batch EXCEPT ![w] = @ \ {s}]
       /\ \/ /\ ~s.enabled
             /\ Go(w, "finishing", [Start([s EXCEPT !.number = 1])
                                      EXCEPT !.delivered = FALSE])
          \/ /\ s.enabled /\ ~IsPush(s.delivery) /\ s.done
             /\ Go(w, "finishing", Start(s))
          \/ /\ s.enabled /\ ~IsPush(s.delivery) /\ ~s.done
             /\ Go(w, "sending", Start(s))
          \/ /\ s.enabled /\ IsPush(s.delivery) /\ s.users = {}
             /\ Go(w, "closing", [Start(s) EXCEPT !.delivered = FALSE])
          \/ /\ s.enabled /\ IsPush(s.delivery) /\ s.users # {}
             /\ Go(w, "users", Start(s))
  /\ UNCHANGED <<configuration, subscription, delivery, due, attempts, wanted,
                 faults, changes, sent, lost>>

Count(d, t) == sent' = [sent EXCEPT ![d][t] = @ + 1]

\* apprise.send.
SendApprise(w, success) ==
  /\ pc[w] = "sending"
  /\ Go(w, "recording", [job[w] EXCEPT !.delivered = success])
  /\ IF success THEN Count(job[w].row.delivery, NoDevice) ELSE UNCHANGED sent
  /\ UNCHANGED <<configuration, subscription, delivery, due, attempts, wanted,
                 batch, faults, changes, lost>>

\* Mutation: failed attempts leave no record.
RecordSuccessOnly(d, number, delivered, device) ==
  attempts' = [attempts EXCEPT ![d] = IF delivered
    THEN @ \cup {[number |-> number, delivered |-> delivered, device |-> device]}
    ELSE @]

\* createAttempt.
Record(d, number, delivered, device) ==
  attempts' = [attempts EXCEPT ![d] =
    @ \cup {[number |-> number, delivered |-> delivered, device |-> device]}]

\* deliverApprise records the outcome.  If the row is gone a success cannot be
\* recorded, nor the failure its handler records instead.
RecordApprise(w) ==
  LET j == job[w]
      d == j.row.delivery
  IN
  /\ pc[w] = "recording"
  /\ \/ /\ Exists(d)
        /\ Record(d, j.row.number, j.delivered, NoDevice)
        /\ Go(w, "finishing", j)
        /\ UNCHANGED <<wanted, batch, lost>>
     \/ /\ ~Exists(d)
        /\ Abandon(w)
        /\ lost' = IF j.delivered THEN lost + 1 ELSE lost
        /\ UNCHANGED attempts
  /\ UNCHANGED <<configuration, subscription, delivery, due, faults, changes, sent>>

\* What follows when a recipient is done.
Onward(j) == IF j.users # {} THEN "users"
             ELSE IF j.failed THEN "closing" ELSE "finishing"

Fail(j) == [j EXCEPT !.delivered = FALSE, !.failed = TRUE, !.rejected = FALSE,
                     !.devices = {}, !.results = {}]

\* sendToUser reads the recipient's subscriptions that have not been reached.  It
\* throws if there is none and no subscription of anybody was reached before.
ReadSubscriptions(w, u) ==
  LET j    == [job[w] EXCEPT !.users = @ \ {u}]
      devs == {x \in registered : OwnerOf[x] = u} \ j.row.reached
      next == IF devs = {} /\ j.row.reached = {} THEN Fail(j)
              ELSE [j EXCEPT !.devices = devs]
  IN
  /\ pc[w] = "users" /\ u \in job[w].users
  /\ Go(w, IF devs # {} THEN "pushing" ELSE Onward(next), next)
  /\ UNCHANGED <<configuration, subscription, delivery, due, attempts, wanted,
                 batch, faults, changes, sent, lost>>

\* A subscription is deleted; the attempts that name it keep no subscription.
Unregister(D) ==
  /\ subscription' = [x \in Devices |-> IF x \in D THEN "removed" ELSE subscription[x]]
  /\ attempts' = [d \in Deliveries |->
       {[a EXCEPT !.device = IF a.device \in D THEN NoDevice ELSE a.device] :
          a \in attempts[d]}]

Successes(j) == Cardinality({r \in j.results : r.delivered})

\* Promise.all: one rejected send and no result of the recipient is recorded.
Joined(j) == IF j.devices = {} /\ j.rejected THEN Fail(j) ELSE j

AfterSends(j) == IF j.devices # {} THEN "pushing"
                 ELSE IF j.results # {} THEN "results" ELSE Onward(j)

\* One of the parallel sends ends.  A subscription the push service calls gone is
\* deleted, which rejects if somebody else deleted it before.
Push(w, x, outcome) ==
  LET j == [job[w] EXCEPT
        !.devices  = @ \ {x},
        !.results  = IF outcome = "gone" THEN @
                     ELSE @ \cup {[device |-> x, delivered |-> outcome = "delivered"]},
        !.rejected = @ \/ (outcome = "gone" /\ x \notin registered)]
      k == Joined(j)
  IN
  /\ pc[w] = "pushing" /\ x \in job[w].devices
  /\ Go(w, AfterSends(k), k)
  /\ lost' = lost + Successes(j) - Successes(k)
  /\ IF outcome = "delivered" THEN Count(j.row.delivery, x) ELSE UNCHANGED sent
  /\ IF outcome = "gone" THEN Unregister({x}) ELSE UNCHANGED <<subscription, attempts>>
  /\ UNCHANGED <<configuration, delivery, due, wanted, batch, faults, changes>>

\* The results are recorded one by one; a row or subscription deleted meanwhile
\* rejects the statement, and the remaining results are not recorded.
RecordResult(w, r) ==
  LET d == job[w].row.delivery
      j == [job[w] EXCEPT !.results = @ \ {r}, !.delivered = @ /\ r.delivered]
  IN
  /\ pc[w] = "results" /\ r \in job[w].results
  /\ \/ /\ Exists(d) /\ r.device \in registered
        /\ Record(d, j.row.number, r.delivered, r.device)
        /\ Go(w, IF j.results # {} THEN "results" ELSE Onward(j), j)
        /\ UNCHANGED lost
     \/ /\ ~Exists(d) \/ r.device \notin registered
        /\ Go(w, Onward(Fail(j)), Fail(j))
        /\ lost' = lost + Successes(job[w])
        /\ UNCHANGED attempts
  /\ UNCHANGED <<configuration, subscription, delivery, due, wanted, batch, faults,
                 changes, sent>>

\* deliverBrowserPush records that a recipient failed or that there is none.
RecordFailure(w) ==
  LET j == job[w] IN
  /\ pc[w] = "closing"
  /\ \/ /\ Exists(j.row.delivery)
        /\ Record(j.row.delivery, j.row.number, FALSE, NoDevice)
        /\ Go(w, "finishing", j)
        /\ UNCHANGED <<wanted, batch>>
     \/ /\ ~Exists(j.row.delivery)
        /\ Abandon(w)
        /\ UNCHANGED attempts
  /\ UNCHANGED <<configuration, subscription, delivery, due, faults, changes, sent,
                 lost>>

\* terminalFailure.
Terminal(d, number) == d \in TestDeliveries \/ number >= maximumAttempts

Outcome(j) == IF j.delivered THEN "DELIVERED"
              ELSE IF Terminal(j.row.delivery, j.row.number) THEN "FAILED"
              ELSE "PENDING"

\* finish writes the row by its id, whatever became of it since it was read.
Finish(w) ==
  LET j == job[w]
      d == j.row.delivery
  IN
  /\ pc[w] = "finishing"
  /\ \/ /\ Exists(d)
        /\ delivery' = [delivery EXCEPT ![d] = Outcome(j)]
        /\ due' = IF Outcome(j) = "PENDING" THEN due \ {d} ELSE due \cup {d}
        /\ Leave(w)
        /\ UNCHANGED <<wanted, batch>>
     \/ /\ ~Exists(d)
        /\ Abandon(w)
        /\ UNCHANGED <<delivery, due>>
  /\ UNCHANGED <<configuration, subscription, attempts, faults, changes, sent, lost>>

-----------------------------------------------------------------------------
(* Environment. *)

\* nextAttemptAt passes.
Elapse(d) ==
  /\ delivery[d] = "PENDING" /\ d \notin due
  /\ due' = due \cup {d}
  /\ UNCHANGED <<configuration, subscription, delivery, attempts, local, faults,
                 changes, sent, lost>>

\* The process dies, or a statement of the invocation is rejected.
Crash(w) ==
  LET j == job[w] IN
  /\ faults < MaxFaults
  /\ pc[w] # "idle"
  /\ faults' = faults + 1
  /\ Abandon(w)
  /\ lost' = CASE pc[w] = "recording" /\ j.delivered -> lost + 1
               [] pc[w] \in {"pushing", "results"}   -> lost + Successes(j)
               [] OTHER                              -> lost
  /\ UNCHANGED <<configuration, subscription, delivery, due, attempts, changes, sent>>

\* Mutation: a success whose record is rejected still counts as delivered.
RejectRecordKeepingSuccess(w) ==
  /\ faults < MaxFaults
  /\ pc[w] = "recording" /\ job[w].delivered
  /\ faults' = faults + 1
  /\ Go(w, "finishing", job[w])
  /\ lost' = lost + 1
  /\ UNCHANGED <<configuration, subscription, delivery, due, attempts, wanted, batch,
                 changes, sent>>

\* The database rejects the record of a success: deliverApprise then records a
\* failure.
RejectRecord(w) ==
  /\ faults < MaxFaults
  /\ pc[w] = "recording" /\ job[w].delivered
  /\ faults' = faults + 1
  /\ Go(w, "recording", [job[w] EXCEPT !.delivered = FALSE])
  /\ lost' = lost + 1
  /\ UNCHANGED <<configuration, subscription, delivery, due, attempts, wanted, batch,
                 changes, sent>>

Change == changes < MaxChanges /\ changes' = changes + 1

\* updateChannel: the switch and, for a push channel, at least one recipient.
UpdateChannel(c, enabled, users) ==
  /\ Change
  /\ channel[c] # "deleted"
  /\ IF c \in PushChannels THEN users # {} ELSE users = {}
  /\ channel' = [channel EXCEPT ![c] = IF enabled THEN "enabled" ELSE "disabled"]
  /\ recipients' = [recipients EXCEPT ![c] = users]
  /\ UNCHANGED <<subscription, delivery, due, attempts, local, faults, sent, lost>>

\* deleteChannel, whose deliveries and attempts go with it.
DeleteChannel(c) ==
  LET D == {d \in Deliveries : ChannelOf[d] = c} IN
  /\ Change
  /\ channel[c] # "deleted"
  /\ channel' = [channel EXCEPT ![c] = "deleted"]
  /\ delivery' = [d \in Deliveries |-> IF d \in D THEN "NONE" ELSE delivery[d]]
  /\ attempts' = [d \in Deliveries |-> IF d \in D THEN {} ELSE attempts[d]]
  /\ due' = due \ D
  /\ UNCHANGED <<recipients, subscription, local, faults, sent, lost>>

\* BrowserPushService.register: a new subscription, while deliveries are in progress
\* or not.  Registering an endpoint again only replaces its keys.
RegisterDevice(x) ==
  /\ Change
  /\ subscription[x] = "new"
  /\ subscription' = [subscription EXCEPT ![x] = "registered"]
  /\ UNCHANGED <<configuration, delivery, due, attempts, local, faults, sent, lost>>

\* BrowserPushService.remove.
RemoveDevice(x) ==
  /\ Change
  /\ x \in registered
  /\ Unregister({x})
  /\ UNCHANGED <<configuration, delivery, due, local, faults, sent, lost>>

\* UsersController deletes a user, with subscriptions and memberships; nobody can
\* register a subscription of theirs any more.
RemoveUser(u) ==
  /\ Change
  /\ \E c \in Channels : u \in recipients[c]
  /\ recipients' = [c \in Channels |-> recipients[c] \ {u}]
  /\ Unregister({x \in Devices : OwnerOf[x] = u})
  /\ UNCHANGED <<channel, delivery, due, local, faults, sent, lost>>

-----------------------------------------------------------------------------
\* Channels exist and are enabled, with whatever recipients and subscriptions.
Init ==
  /\ channel = [c \in Channels |-> "enabled"]
  /\ recipients \in {f \in [Channels -> SUBSET Users] :
                       \A c \in Channels : (f[c] = {}) <=> (c \notin PushChannels)}
  /\ subscription \in [Devices -> {"new", "registered"}]
  /\ delivery = [d \in Deliveries |-> "NONE"]
  /\ due = {}
  /\ attempts = [d \in Deliveries |-> {}]
  /\ pc = [w \in Deliverers |-> "idle"]
  /\ wanted = [w \in Deliverers |-> {}]
  /\ batch = [w \in Deliverers |-> {}]
  /\ job = [w \in Deliverers |-> NoJob]
  /\ faults = 0
  /\ changes = 0
  /\ sent = [d \in Deliveries |-> [t \in Targets |-> 0]]
  /\ lost = 0

Emit(w) == \E d \in Deliveries : MatchEvent(w, EventOf[d])

\* One step of an invocation under way, or the timer's next invocation.
Work(w) ==
  \/ CreateDeliveries(w)
  \/ ReadOwn(w)
  \/ ReadDue(w)
  \/ Deliver(w)
  \/ \E success \in BOOLEAN : SendApprise(w, success)
  \/ RecordApprise(w)
  \/ \E u \in Users : ReadSubscriptions(w, u)
  \/ \E x \in Devices : \E outcome \in {"delivered", "failed", "gone"} :
       Push(w, x, outcome)
  \/ \E x \in Devices : \E delivered \in BOOLEAN :
       RecordResult(w, [device |-> x, delivered |-> delivered])
  \/ RecordFailure(w)
  \/ Finish(w)

Administer ==
  \/ \E c \in Channels, enabled \in BOOLEAN, users \in SUBSET Users :
       UpdateChannel(c, enabled, users)
  \/ \E c \in Channels : DeleteChannel(c)
  \/ \E x \in Devices : RegisterDevice(x) \/ RemoveDevice(x)
  \/ \E u \in Users : RemoveUser(u)

Next ==
  \/ \E w \in Deliverers : Emit(w) \/ Work(w) \/ Crash(w) \/ RejectRecord(w)
  \/ \E d \in Deliveries : Elapse(d)
  \/ Administer

Spec == Init /\ [][Next]_vars

-----------------------------------------------------------------------------
(* Properties. *)

\* Rows, snapshots and jobs have the shape their columns and variables allow.
TypeOK ==
  /\ channel \in [Channels -> {"enabled", "disabled", "deleted"}]
  /\ recipients \in [Channels -> SUBSET Users]
  /\ subscription \in [Devices -> {"new", "registered", "removed"}]
  /\ delivery \in [Deliveries -> {"NONE", "PENDING", "DELIVERED", "FAILED"}]
  /\ due \subseteq Deliveries
  /\ attempts \in [Deliveries -> SUBSET Attempt]
  /\ pc \in [Deliverers -> {"idle", "creating", "created", "delivering", "sending",
                            "recording", "users", "pushing", "results", "closing",
                            "finishing"}]
  /\ wanted \in [Deliverers -> SUBSET Deliveries]
  /\ batch \in [Deliverers -> SUBSET Snapshot]
  /\ job \in [Deliverers -> Job \cup {NoJob}]
  /\ faults \in 0..MaxFaults
  /\ changes \in 0..MaxChanges
  /\ sent \in [Deliveries -> [Targets -> Nat]]
  /\ lost \in Nat

\* What an Apprise channel shows as delivered has a recorded successful attempt,
\* however many deliverers, crashes and rejected statements were involved.
DeliveredIsRecorded ==
  \A d \in Deliveries :
    delivery[d] = "DELIVERED" /\ ~IsPush(d) => \E a \in attempts[d] : a.delivered

\* A delivery reaches a target at most once for each deliverer that can overlap with
\* others, and once more for each success, of any delivery, that was never recorded:
\* a recorded success keeps every later invocation from sending again.  Which of the
\* deliverers and losses account for a repetition the formula does not say.
DuplicatesAreBounded ==
  \A d \in Deliveries, t \in Targets : sent[d][t] <= Cardinality(Deliverers) + lost

\* A deliverer has read a row and not yet written or given up its outcome.
Holds(w, d) ==
  \/ \E s \in batch[w] : s.delivery = d
  \/ /\ pc[w] \notin {"idle", "creating", "created", "delivering"}
     /\ job[w].row.delivery = d

\* A settled row stays as it is, unless a deliverer that had read it before it was
\* settled writes its own outcome after the other's: nobody takes up a settled row,
\* and whoever writes one is done with it.
OnlyOverlapReopens ==
  [][\A d \in Deliveries : delivery[d] \in {"DELIVERED", "FAILED"} =>
       /\ \A w \in Deliverers : Holds(w, d)' => Holds(w, d)
       /\ \/ delivery'[d] \in {delivery[d], "NONE"}
          \/ \E w \in Deliverers : Holds(w, d) /\ ~Holds(w, d)'
    ]_vars

\* Every invocation's next step is taken, the retry timer fires, and deadlines
\* pass.  Nothing is assumed of emissions, faults or changes.
Fairness ==
  /\ \A w \in Deliverers : WF_vars(Work(w))
  /\ \A d \in Deliveries : WF_vars(Elapse(d))

LiveSpec == Spec /\ Fairness

\* A pending notification does not stay pending: it is delivered, given up after
\* bounded retries, or its channel is disabled or deleted.
DeliveriesSettle ==
  \A d \in Deliveries :
    delivery[d] = "PENDING" ~>
      delivery[d] # "PENDING" \/ channel[ChannelOf[d]] # "enabled"
=============================================================================
