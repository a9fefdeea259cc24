-------------------- MODULE NotificationDeliveryProofs --------------------
(***************************************************************************)
(* Proofs about NotificationDelivery, for any numbers of channels,         *)
(* deliveries, devices, overlapping deliverers, faults and changes: what   *)
(* shows as delivered has a successful attempt on record, and nobody is    *)
(* notified more often than overlapping deliverers and lost records allow. *)
(* What is settled is written again only by an invocation that had read it *)
(* before.                                                                 *)
(***************************************************************************)
EXTENDS NotificationDelivery, FiniteSetTheorems, TLAPS

USE NotificationConstants

JobPhases  == {"sending", "recording", "users", "pushing", "results", "closing",
               "finishing"}
PushPhases == {"users", "pushing", "results", "closing"}
Phases     == {"idle", "creating", "created", "delivering"} \cup JobPhases

\* The attempts of a row have a highest number.
Numbered ==
  \A d \in Deliveries : attempts[d] # {} =>
    \E a \in attempts[d] : \A b \in attempts[d] : b.number <= a.number

Runnable(j) == j \in Job /\ IsFiniteSet(j.results)

\* In the phases that deliver a row there is a job with finitely many results.
Working == \A w \in Deliverers : pc[w] \in JobPhases => Runnable(job[w])

Types == TypeOK /\ Numbered /\ Working

-----------------------------------------------------------------------------
(* Type correctness. *)

LEMMA GoTypes ==
  ASSUME Types, NEW w \in Deliverers, NEW p \in Phases, NEW j, Go(w, p, j),
         Runnable(j) \/ (j = NoJob /\ p \notin JobPhases)
  PROVE  pc' \in [Deliverers -> Phases] /\ job' \in [Deliverers -> Job \cup {NoJob}]
         /\ Working'
<1>1. pc \in [Deliverers -> Phases] /\ job \in [Deliverers -> Job \cup {NoJob}]
  BY DEF Types, TypeOK, Phases, JobPhases
<1>2. j \in Job \cup {NoJob}
  BY DEF Runnable
<1>3. pc' \in [Deliverers -> Phases] /\ job' \in [Deliverers -> Job \cup {NoJob}]
  BY <1>1, <1>2 DEF Go
<1>4. ASSUME NEW v \in Deliverers, pc'[v] \in JobPhases
      PROVE  Runnable(job'[v])
  BY <1>1, <1>4 DEF Go, Types, Working
<1>. QED BY <1>3, <1>4 DEF Working

LEMMA LeaveTypes ==
  ASSUME Types, NEW w \in Deliverers, Leave(w)
  PROVE  pc' \in [Deliverers -> Phases] /\ job' \in [Deliverers -> Job \cup {NoJob}]
         /\ Working'
BY GoTypes DEF Leave, Phases, JobPhases

LEMMA AbandonTypes ==
  ASSUME Types, NEW w \in Deliverers, Abandon(w)
  PROVE  /\ pc' \in [Deliverers -> Phases]
         /\ job' \in [Deliverers -> Job \cup {NoJob}]
         /\ Working'
         /\ wanted' \in [Deliverers -> SUBSET Deliveries]
         /\ batch' \in [Deliverers -> SUBSET Snapshot]
<1>1. Go(w, "idle", NoJob) /\ "idle" \in Phases /\ "idle" \notin JobPhases
  BY DEF Abandon, Phases, JobPhases
<1>2. /\ wanted' \in [Deliverers -> SUBSET Deliveries]
      /\ batch' \in [Deliverers -> SUBSET Snapshot]
  BY DEF Abandon, Types, TypeOK
<1>. QED BY <1>1, <1>2, GoTypes

LEMMA RecordTypes ==
  ASSUME Types, NEW d \in Deliveries, NEW n \in Nat \ {0}, NEW b \in BOOLEAN,
         NEW x \in Targets, Record(d, n, b, x)
  PROVE  attempts' \in [Deliveries -> SUBSET Attempt] /\ Numbered'
<1>. DEFINE new == [number |-> n, delivered |-> b, device |-> x]
<1>1. attempts \in [Deliveries -> SUBSET Attempt]
  BY DEF Types, TypeOK
<1>2. new \in Attempt /\ new.number = n
  BY DEF Attempt
<1>. HIDE DEF new
<1>3. attempts' = [attempts EXCEPT ![d] = @ \cup {new}]
  BY DEF Record, new
<1>4. attempts' \in [Deliveries -> SUBSET Attempt]
  BY <1>1, <1>2, <1>3
<1>5. \A c \in Deliveries \ {d} : attempts'[c] = attempts[c]
  BY <1>1, <1>3
<1>6. attempts'[d] = attempts[d] \cup {new}
  BY <1>1, <1>3
<1>7. \A a \in attempts'[d] : a.number \in Nat
  BY <1>4 DEF Attempt
<1>8. \E a \in attempts'[d] : \A e \in attempts'[d] : e.number <= a.number
  <2>1. CASE attempts[d] = {}
    BY <1>2, <1>6, <1>7, <2>1
  <2>2. ASSUME NEW a \in attempts[d], \A e \in attempts[d] : e.number <= a.number
        PROVE  \E m \in attempts'[d] : \A e \in attempts'[d] : e.number <= m.number
    <3>1. CASE n <= a.number
      BY <1>2, <1>6, <2>2, <3>1
    <3>2. CASE ~(n <= a.number)
      <4>1. a.number \in Nat /\ \A e \in attempts[d] : e.number \in Nat
        BY <1>6, <1>7
      <4>2. \A e \in attempts[d] : e.number <= n
        BY <2>2, <3>2, <4>1
      <4>. QED BY <1>2, <1>6, <4>2
    <3>. QED BY <3>1, <3>2
  <2>. QED BY <2>1, <2>2 DEF Types, Numbered
<1>9. Numbered'
  BY <1>5, <1>8 DEF Types, Numbered
<1>. QED BY <1>4, <1>9

LEMMA UnregisterTypes ==
  ASSUME Types, NEW D \in SUBSET Devices, Unregister(D)
  PROVE  /\ attempts' \in [Deliveries -> SUBSET Attempt] /\ Numbered'
         /\ subscription' \in [Devices -> {"new", "registered", "removed"}]
<1>. DEFINE less(a) == [a EXCEPT !.device = IF a.device \in D THEN NoDevice ELSE a.device]
<1>1. \A d \in Deliveries : attempts'[d] = {less(a) : a \in attempts[d]}
  BY DEF Unregister
<1>2. \A a \in Attempt : less(a) \in Attempt /\ less(a).number = a.number
  BY DEF Attempt, Targets
<1>3. attempts' = [d \in Deliveries |-> {less(a) : a \in attempts[d]}]
  BY DEF Unregister
<1>. HIDE DEF less
<1>4. attempts \in [Deliveries -> SUBSET Attempt]
  BY DEF Types, TypeOK
<1>5. attempts' \in [Deliveries -> SUBSET Attempt]
  BY <1>2, <1>3, <1>4
<1>6. Numbered'
  <2> SUFFICES ASSUME NEW d \in Deliveries, attempts'[d] # {}
               PROVE  \E a \in attempts'[d] : \A b \in attempts'[d] : b.number <= a.number
    BY DEF Numbered
  <2>1. PICK a \in attempts[d] : \A b \in attempts[d] : b.number <= a.number
    BY <1>1 DEF Types, Numbered
  <2>2. less(a) \in attempts'[d]
    BY <1>1
  <2>3. \A b \in attempts'[d] : b.number <= less(a).number
    BY <1>1, <1>2, <1>4, <2>1
  <2>. QED BY <2>2, <2>3
<1>7. subscription' \in [Devices -> {"new", "registered", "removed"}]
  BY DEF Unregister, Types, TypeOK
<1>. QED BY <1>5, <1>6, <1>7

LEMMA SnapshotType ==
  ASSUME Types, NEW d \in Deliveries
  PROVE  SnapshotOf(d) \in Snapshot
<1>1. attempts[d] \in SUBSET Attempt /\ recipients[ChannelOf[d]] \in SUBSET Users
  BY DEF Types, TypeOK
<1>2. NextNumber(d) \in Nat \ {0}
  <2>1. CASE attempts[d] = {}
    BY <2>1 DEF NextNumber
  <2>2. CASE attempts[d] # {}
    <3>. DEFINE top == CHOOSE n \in {a.number : a \in attempts[d]} :
                         \A a \in attempts[d] : a.number <= n
    <3>1. \E n \in {a.number : a \in attempts[d]} : \A a \in attempts[d] : a.number <= n
      BY <2>2 DEF Types, Numbered
    <3>2. top \in {a.number : a \in attempts[d]}
      BY <3>1
    <3>3. top \in Nat
      BY <1>1, <3>2 DEF Attempt
    <3>4. NextNumber(d) = 1 + top
      BY <2>2 DEF NextNumber
    <3>. HIDE DEF top
    <3>. QED BY <3>3, <3>4
  <2>. QED BY <2>1, <2>2
<1>3. {a.device : a \in {b \in attempts[d] : b.delivered}} \ {NoDevice} \in SUBSET Devices
  BY <1>1 DEF Attempt, Targets
<1>. QED BY <1>1, <1>2, <1>3 DEF SnapshotOf, Snapshot

LEMMA StartTypes ==
  ASSUME NEW s \in Snapshot
  PROVE  /\ Runnable(Start(s)) /\ Runnable([Start(s) EXCEPT !.delivered = FALSE])
         /\ [s EXCEPT !.number = 1] \in Snapshot
         /\ s.users \subseteq Users
<1>1. s.users \subseteq Users
  BY DEF Snapshot
<1>2. Start(s) \in Job /\ [Start(s) EXCEPT !.delivered = FALSE] \in Job
  BY <1>1 DEF Start, Job
<1>3. [s EXCEPT !.number = 1] \in Snapshot
  BY DEF Snapshot
<1>4. Start(s).results = {} /\ [Start(s) EXCEPT !.delivered = FALSE].results = {}
  BY DEF Start
<1>. QED BY <1>1, <1>2, <1>3, <1>4, FS_EmptySet DEF Runnable

\* What the fields of a job and of its row are.
LEMMA JobFields ==
  ASSUME NEW j, Runnable(j)
  PROVE  /\ j.row \in Snapshot /\ j.row.delivery \in Deliveries
         /\ j.row.number \in Nat \ {0} /\ j.row.reached \in SUBSET Devices
         /\ j.users \in SUBSET Users /\ j.devices \in SUBSET Devices
         /\ j.results \in SUBSET Result /\ IsFiniteSet(j.results)
         /\ j.delivered \in BOOLEAN /\ j.failed \in BOOLEAN /\ j.rejected \in BOOLEAN
BY DEF Runnable, Job, Snapshot

LEMMA SuccessesNat ==
  ASSUME NEW j, Runnable(j)
  PROVE  Successes(j) \in Nat
<1>1. IsFiniteSet({r \in j.results : r.delivered})
  BY JobFields, FS_Subset
<1>. QED BY <1>1, FS_CardinalityType DEF Successes

LEMMA FailType ==
  ASSUME NEW j, Runnable(j)
  PROVE  Runnable(Fail(j)) /\ Fail(j).row = j.row /\ Fail(j).results = {}
<1>1. Fail(j) \in Job /\ Fail(j).row = j.row /\ Fail(j).results = {}
  BY DEF Fail, Runnable, Job
<1>. QED BY <1>1, FS_EmptySet DEF Runnable

LEMMA OnwardPhase ==
  ASSUME NEW j
  PROVE  Onward(j) \in {"users", "closing", "finishing"} /\ Onward(j) \in Phases
BY DEF Onward, Phases, JobPhases

\* The job of a deliverer in a phase that has one.
LEMMA JobTypes ==
  ASSUME Types, NEW w \in Deliverers, pc[w] \in JobPhases
  PROVE  Runnable(job[w]) /\ job[w].row.delivery \in Deliveries
BY JobFields DEF Types, Working

LEMMA EmitTypes ==
  ASSUME Types, NEW w \in Deliverers, Emit(w) \/ CreateDeliveries(w)
  PROVE  Types'
<1>. USE DEF Types, TypeOK, Numbered, Working, configuration
<1>1. ASSUME NEW e, MatchEvent(w, e)
      PROVE  Types'
  <2>1. /\ pc' \in [Deliverers -> Phases] /\ wanted' \in [Deliverers -> SUBSET Deliveries]
        /\ \A v \in Deliverers : pc'[v] \in JobPhases => pc[v] \in JobPhases
    BY <1>1 DEF MatchEvent, Phases, JobPhases
  <2>. QED BY <1>1, <2>1 DEF MatchEvent, Phases, JobPhases
<1>2. CASE CreateDeliveries(w)
  <2>1. /\ pc' \in [Deliverers -> Phases] /\ wanted' \in [Deliverers -> SUBSET Deliveries]
        /\ \A v \in Deliverers : pc'[v] \in JobPhases => pc[v] \in JobPhases
    <3>1. \E p \in {"created", "idle"} : pc' = [pc EXCEPT ![w] = p]
      BY <1>2 DEF CreateDeliveries
    <3>2. wanted' \in {wanted, [wanted EXCEPT ![w] = {}]}
      BY <1>2 DEF CreateDeliveries
    <3>. QED BY <3>1, <3>2 DEF Phases, JobPhases
  <2>2. /\ delivery' \in [Deliveries -> {"NONE", "PENDING", "DELIVERED", "FAILED"}]
        /\ due' \subseteq Deliveries
    BY <1>2 DEF CreateDeliveries
  <2>. QED BY <1>2, <2>1, <2>2, SMTT(60) DEF CreateDeliveries, Phases, JobPhases
<1>. QED BY <1>1, <1>2 DEF Emit

LEMMA ReadTypes ==
  ASSUME Types, NEW w \in Deliverers, ReadOwn(w) \/ ReadDue(w)
  PROVE  Types'
<1>. USE DEF Types, TypeOK, Numbered, Working, configuration
<1>1. PICK D \in SUBSET Deliveries : Read(w, D)
  BY DEF ReadOwn, ReadDue
<1>2. {SnapshotOf(d) : d \in PendingDue(D)} \subseteq Snapshot
  BY SnapshotType DEF PendingDue
<1>3. /\ pc' \in [Deliverers -> Phases] /\ wanted' \in [Deliverers -> SUBSET Deliveries]
      /\ \A v \in Deliverers : pc'[v] \in JobPhases => pc[v] \in JobPhases
  BY <1>1 DEF Read, Phases, JobPhases
<1>4. batch' \in [Deliverers -> SUBSET Snapshot]
  BY <1>1, <1>2 DEF Read
<1>. QED BY <1>1, <1>3, <1>4 DEF Read, Phases, JobPhases

LEMMA DeliverTypes ==
  ASSUME Types, NEW w \in Deliverers, Deliver(w)
  PROVE  Types'
<1>1. PICK s, p, j :
        /\ s \in batch[w] /\ p \in JobPhases
        /\ batch' = [batch EXCEPT ![w] = @ \ {s}]
        /\ Go(w, p, j)
        /\ j \in {[Start([s EXCEPT !.number = 1]) EXCEPT !.delivered = FALSE], Start(s),
                  [Start(s) EXCEPT !.delivered = FALSE]}
  BY DEF Deliver, JobPhases
<1>2. s \in Snapshot
  BY <1>1 DEF Types, TypeOK
<1>3. Runnable(j)
  BY <1>1, <1>2, StartTypes
<1>4. /\ pc' \in [Deliverers -> Phases] /\ job' \in [Deliverers -> Job \cup {NoJob}]
      /\ Working'
  BY <1>1, <1>3, GoTypes DEF Phases
<1>5. batch' \in [Deliverers -> SUBSET Snapshot]
  BY <1>1 DEF Types, TypeOK
<1>. QED BY <1>4, <1>5
     DEF Deliver, Types, TypeOK, Numbered, configuration, Phases, JobPhases

LEMMA CountTypes ==
  ASSUME Types, NEW d \in Deliveries, NEW t \in Targets, Count(d, t) \/ UNCHANGED sent
  PROVE  sent' \in [Deliveries -> [Targets -> Nat]]
<1>1. sent[d] \in [Targets -> Nat] /\ sent \in [Deliveries -> [Targets -> Nat]]
  BY DEF Types, TypeOK
<1>2. [sent[d] EXCEPT ![t] = sent[d][t] + 1] \in [Targets -> Nat]
  BY <1>1
<1>3. Count(d, t) => sent' = [sent EXCEPT ![d] = [sent[d] EXCEPT ![t] = sent[d][t] + 1]]
  BY DEF Count
<1>. QED BY <1>1, <1>2, <1>3

LEMMA AppriseTypes ==
  ASSUME Types, NEW w \in Deliverers,
         (\E success \in BOOLEAN : SendApprise(w, success)) \/ RecordApprise(w)
           \/ RejectRecord(w)
  PROVE  Types'
<1>. DEFINE j == job[w]
<1>1. Runnable(j) /\ j.row.delivery \in Deliveries /\ j.row.number \in Nat \ {0}
      /\ j.delivered \in BOOLEAN
  BY JobTypes, JobFields DEF SendApprise, RecordApprise, RejectRecord, JobPhases
<1>2. \A b \in BOOLEAN : Runnable([j EXCEPT !.delivered = b])
  BY <1>1 DEF Runnable, Job
<1>. HIDE DEF j
<1>3. NoDevice \in Targets /\ lost \in Nat /\ faults \in 0..MaxFaults
  BY DEF Targets, Types, TypeOK
<1>4. ASSUME NEW success \in BOOLEAN, SendApprise(w, success)
      PROVE  Types'
  <2>1. Go(w, "recording", [j EXCEPT !.delivered = success])
    BY <1>4 DEF SendApprise, j
  <2>2. /\ pc' \in [Deliverers -> Phases] /\ job' \in [Deliverers -> Job \cup {NoJob}]
        /\ Working'
    BY <1>2, <2>1, GoTypes DEF Phases, JobPhases
  <2>3. sent' \in [Deliveries -> [Targets -> Nat]]
    BY <1>1, <1>3, <1>4, CountTypes DEF SendApprise, j
  <2>. QED BY <1>4, <2>2, <2>3
       DEF SendApprise, Types, TypeOK, Numbered, configuration, Phases, JobPhases
<1>5. CASE RecordApprise(w)
  <2>1. CASE /\ Record(j.row.delivery, j.row.number, j.delivered, NoDevice)
             /\ Go(w, "finishing", j)
             /\ UNCHANGED <<wanted, batch, lost>>
    <3>1. attempts' \in [Deliveries -> SUBSET Attempt] /\ Numbered'
      BY <1>1, <1>3, <2>1, RecordTypes
    <3>2. /\ pc' \in [Deliverers -> Phases] /\ job' \in [Deliverers -> Job \cup {NoJob}]
          /\ Working'
      BY <1>1, <2>1, GoTypes DEF Phases, JobPhases
    <3>. QED BY <1>5, <2>1, <3>1, <3>2
         DEF RecordApprise, Types, TypeOK, configuration, Phases, JobPhases
  <2>2. CASE /\ Abandon(w)
             /\ lost' = IF j.delivered THEN lost + 1 ELSE lost
             /\ UNCHANGED attempts
    <3>1. lost' \in Nat
      BY <1>3, <2>2
    <3>. QED BY <1>5, <2>2, <3>1, AbandonTypes
         DEF RecordApprise, Types, TypeOK, Numbered, configuration, Phases, JobPhases
  <2>. QED BY <1>5, <2>1, <2>2 DEF RecordApprise, j
<1>6. CASE RejectRecord(w)
  <2>1. Go(w, "recording", [j EXCEPT !.delivered = FALSE])
    BY <1>6 DEF RejectRecord, j
  <2>2. /\ pc' \in [Deliverers -> Phases] /\ job' \in [Deliverers -> Job \cup {NoJob}]
        /\ Working'
    BY <1>2, <2>1, GoTypes DEF Phases, JobPhases
  <2>3. lost' \in Nat /\ faults' \in 0..MaxFaults
    BY <1>3, <1>6 DEF RejectRecord
  <2>. QED BY <1>6, <2>2, <2>3
       DEF RejectRecord, Types, TypeOK, Numbered, configuration, Phases, JobPhases
<1>. QED BY <1>4, <1>5, <1>6

LEMMA SubscriptionTypes ==
  ASSUME Types, NEW w \in Deliverers, NEW u \in Users, ReadSubscriptions(w, u)
  PROVE  Types'
<1>. DEFINE j    == [job[w] EXCEPT !.users = @ \ {u}]
            devs == {x \in registered : OwnerOf[x] = u} \ j.row.reached
            next == IF devs = {} /\ j.row.reached = {} THEN Fail(j)
                    ELSE [j EXCEPT !.devices = devs]
<1>1. Runnable(job[w])
  BY JobTypes DEF ReadSubscriptions, JobPhases
<1>2. Runnable(j)
  BY <1>1 DEF Runnable, Job
<1>3. devs \in SUBSET Devices
  BY DEF registered
<1>4. Go(w, IF devs # {} THEN "pushing" ELSE Onward(next), next)
  BY DEF ReadSubscriptions
<1>. HIDE DEF j, devs
<1>5. Runnable([j EXCEPT !.devices = devs])
  BY <1>2, <1>3 DEF Runnable, Job
<1>6. Runnable(next)
  BY <1>2, <1>5, FailType
<1>. HIDE DEF next
<1>7. /\ pc' \in [Deliverers -> Phases] /\ job' \in [Deliverers -> Job \cup {NoJob}]
      /\ Working'
  BY <1>4, <1>6, GoTypes, OnwardPhase DEF Phases, JobPhases
<1>. QED BY <1>7
     DEF ReadSubscriptions, Types, TypeOK, Numbered, configuration, Phases, JobPhases

\* j is the job of w when its send to x has ended.
Ended(w, x, outcome, j) ==
  /\ Runnable(j)
  /\ j.row = job[w].row /\ j.users = job[w].users
  /\ j.devices = job[w].devices \ {x}
  /\ j.results = IF outcome = "gone" THEN job[w].results
       ELSE job[w].results \cup {[device |-> x, delivered |-> outcome = "delivered"]}
  /\ Go(w, AfterSends(Joined(j)), Joined(j))
  /\ lost' = lost + Successes(j) - Successes(Joined(j))
  /\ IF outcome = "delivered" THEN Count(j.row.delivery, x) ELSE UNCHANGED sent

LEMMA PushJob ==
  ASSUME Types, NEW w \in Deliverers, NEW x \in Devices,
         NEW outcome \in {"delivered", "failed", "gone"}, Push(w, x, outcome)
  PROVE  \E j : Ended(w, x, outcome, j)
<1>. DEFINE result   == [device |-> x, delivered |-> outcome = "delivered"]
            devices  == job[w].devices \ {x}
            results  == IF outcome = "gone" THEN job[w].results
                        ELSE job[w].results \cup {result}
            rejected == job[w].rejected \/ (outcome = "gone" /\ x \notin registered)
            j == [job[w] EXCEPT !.devices = devices, !.results = results,
                                !.rejected = rejected]
<1>1. Runnable(job[w])
  BY JobTypes DEF Push, JobPhases
<1>2. result \in Result
  BY DEF Result
<1>3. /\ Go(w, AfterSends(Joined(j)), Joined(j))
      /\ lost' = lost + Successes(j) - Successes(Joined(j))
      /\ IF outcome = "delivered" THEN Count(j.row.delivery, x) ELSE UNCHANGED sent
  BY DEF Push
<1>. HIDE DEF result
<1>4. /\ results \in SUBSET Result /\ IsFiniteSet(results)
      /\ devices \in SUBSET Devices /\ rejected \in BOOLEAN
  BY <1>1, <1>2, JobFields, FS_AddElement
<1>. HIDE DEF devices, results, rejected
<1>5. /\ j \in Job /\ j.row = job[w].row /\ j.users = job[w].users
      /\ j.devices = devices /\ j.results = results
  BY <1>1, <1>4 DEF Runnable, Job
<1>6. Runnable(j)
  BY <1>4, <1>5 DEF Runnable
<1>. HIDE DEF j
<1>. QED BY <1>3, <1>5, <1>6 DEF devices, results, result, Ended

LEMMA PushTypes ==
  ASSUME Types, NEW w \in Deliverers, NEW x \in Devices,
         NEW outcome \in {"delivered", "failed", "gone"}, Push(w, x, outcome)
  PROVE  Types'
<1>1. PICK j : Ended(w, x, outcome, j)
  BY PushJob
<1>. DEFINE k == Joined(j)
<1>2. Runnable(j) /\ j.row.delivery \in Deliveries
  BY <1>1, JobFields DEF Ended
<1>3. /\ Go(w, AfterSends(k), k)
      /\ lost' = lost + Successes(j) - Successes(k)
      /\ IF outcome = "delivered" THEN Count(j.row.delivery, x) ELSE UNCHANGED sent
      /\ IF outcome = "gone" THEN Unregister({x}) ELSE UNCHANGED <<subscription, attempts>>
  BY <1>1 DEF Ended, Push
<1>4. Runnable(k)
  BY <1>2, FailType DEF Joined
<1>5. Successes(k) \in 0..Successes(j) /\ Successes(j) \in Nat
  <2>1. Successes(j) \in Nat
    BY <1>2, SuccessesNat
  <2>2. CASE k = j
    BY <2>1, <2>2
  <2>3. CASE k = Fail(j)
    <3>1. {r \in k.results : r.delivered} = {}
      BY <1>2, <2>3, FailType
    <3>2. Successes(k) = 0
      BY <3>1, FS_EmptySet DEF Successes
    <3>. QED BY <2>1, <3>2
  <2>. QED BY <2>2, <2>3 DEF Joined
<1>. HIDE DEF k
<1>6. AfterSends(k) \in Phases
  BY OnwardPhase DEF AfterSends, Phases, JobPhases
<1>7. /\ pc' \in [Deliverers -> Phases] /\ job' \in [Deliverers -> Job \cup {NoJob}]
      /\ Working'
  BY <1>3, <1>4, <1>6, GoTypes
<1>8. lost \in Nat
  BY DEF Types, TypeOK
<1>9. lost' \in Nat
  BY <1>3, <1>5, <1>8
<1>10. sent' \in [Deliveries -> [Targets -> Nat]]
  BY <1>2, <1>3, CountTypes DEF Targets
<1>11. /\ attempts' \in [Deliveries -> SUBSET Attempt] /\ Numbered'
       /\ subscription' \in [Devices -> {"new", "registered", "removed"}]
  BY <1>3, UnregisterTypes DEF Types, TypeOK, Numbered
<1>. QED BY <1>7, <1>9, <1>10, <1>11 DEF Push, Types, TypeOK, configuration, Phases, JobPhases

LEMMA ResultTypes ==
  ASSUME Types, NEW w \in Deliverers, NEW r \in Result, RecordResult(w, r)
  PROVE  Types'
<1>. DEFINE d == job[w].row.delivery
            j == [job[w] EXCEPT !.results = @ \ {r}, !.delivered = @ /\ r.delivered]
<1>1. Runnable(job[w]) /\ d \in Deliveries /\ job[w].row.number \in Nat \ {0}
  BY JobTypes, JobFields DEF RecordResult, JobPhases
<1>2. r.device \in Targets /\ r.delivered \in BOOLEAN
  BY DEF Result, Targets
<1>3. Runnable(j) /\ j.row = job[w].row
  <2>1. job[w].results \ {r} \in SUBSET Result /\ IsFiniteSet(job[w].results \ {r})
    BY <1>1, JobFields, FS_RemoveElement
  <2>2. (job[w].delivered /\ r.delivered) \in BOOLEAN
    BY <1>2, JobFields, <1>1
  <2>3. j \in Job /\ j.results = job[w].results \ {r} /\ j.row = job[w].row
    BY <1>1, <2>1, <2>2 DEF Runnable, Job
  <2>. QED BY <2>1, <2>3 DEF Runnable
<1>4. Runnable(Fail(j))
  BY <1>3, FailType
<1>5. \/ /\ Record(d, j.row.number, r.delivered, r.device)
         /\ Go(w, IF j.results # {} THEN "results" ELSE Onward(j), j)
         /\ UNCHANGED lost
      \/ /\ Go(w, Onward(Fail(j)), Fail(j))
         /\ lost' = lost + Successes(job[w])
         /\ UNCHANGED attempts
  BY DEF RecordResult
<1>. HIDE DEF j
<1>6. /\ pc' \in [Deliverers -> Phases] /\ job' \in [Deliverers -> Job \cup {NoJob}]
      /\ Working'
  <2>1. \A k : Runnable(k) => Onward(k) \in JobPhases /\ Onward(k) \in Phases
    BY OnwardPhase DEF JobPhases
  <2>2. "results" \in Phases
    BY DEF Phases, JobPhases
  <2>3. PICK p, k : p \in Phases /\ Runnable(k) /\ Go(w, p, k)
    BY <1>3, <1>4, <1>5, <2>1, <2>2
  <2>. QED BY <2>3, GoTypes
<1>7. attempts' \in [Deliveries -> SUBSET Attempt] /\ Numbered'
  <2>1. CASE Record(d, j.row.number, r.delivered, r.device)
    BY <1>1, <1>2, <1>3, <2>1, RecordTypes
  <2>2. CASE UNCHANGED attempts
    BY <2>2 DEF Types, TypeOK, Numbered
  <2>. QED BY <1>5, <2>1, <2>2
<1>8. lost' \in Nat
  BY <1>1, <1>5, SuccessesNat DEF Types, TypeOK
<1>. QED BY <1>6, <1>7, <1>8
     DEF RecordResult, Types, TypeOK, configuration, Phases, JobPhases

LEMMA FailureTypes ==
  ASSUME Types, NEW w \in Deliverers, RecordFailure(w)
  PROVE  Types'
<1>. DEFINE j == job[w]
<1>1. Runnable(j) /\ j.row.delivery \in Deliveries /\ j.row.number \in Nat \ {0}
  BY JobTypes, JobFields DEF RecordFailure, JobPhases
<1>. HIDE DEF j
<1>2. CASE /\ Record(j.row.delivery, j.row.number, FALSE, NoDevice)
           /\ Go(w, "finishing", j)
           /\ UNCHANGED <<wanted, batch>>
  <2>1. attempts' \in [Deliveries -> SUBSET Attempt] /\ Numbered'
    BY <1>1, <1>2, RecordTypes DEF Targets
  <2>2. /\ pc' \in [Deliverers -> Phases] /\ job' \in [Deliverers -> Job \cup {NoJob}]
        /\ Working'
    BY <1>1, <1>2, GoTypes DEF Phases, JobPhases
  <2>. QED BY <1>2, <2>1, <2>2
       DEF RecordFailure, Types, TypeOK, configuration, Phases, JobPhases
<1>3. CASE Abandon(w) /\ UNCHANGED attempts
  BY <1>3, AbandonTypes
  DEF RecordFailure, Types, TypeOK, Numbered, configuration, Phases, JobPhases
<1>. QED BY <1>2, <1>3 DEF RecordFailure, j

LEMMA FinishTypes ==
  ASSUME Types, NEW w \in Deliverers, Finish(w)
  PROVE  Types'
<1>1. job[w].row.delivery \in Deliveries
  BY JobTypes DEF Finish, JobPhases
<1>2. CASE /\ delivery' = [delivery EXCEPT ![job[w].row.delivery] = Outcome(job[w])]
           /\ due' = IF Outcome(job[w]) = "PENDING" THEN due \ {job[w].row.delivery}
                     ELSE due \cup {job[w].row.delivery}
           /\ Leave(w)
           /\ UNCHANGED <<wanted, batch>>
  <2>1. Outcome(job[w]) \in {"NONE", "PENDING", "DELIVERED", "FAILED"}
    BY DEF Outcome
  <2>2. /\ delivery' \in [Deliveries -> {"NONE", "PENDING", "DELIVERED", "FAILED"}]
        /\ due' \subseteq Deliveries
    BY <1>1, <1>2, <2>1 DEF Types, TypeOK
  <2>. QED BY <1>2, <2>2, LeaveTypes, ZenonT(60)
       DEF Finish, Types, TypeOK, Numbered, configuration, Phases, JobPhases
<1>3. CASE Abandon(w) /\ UNCHANGED <<delivery, due>>
  BY <1>3, AbandonTypes
  DEF Finish, Types, TypeOK, Numbered, configuration, Phases, JobPhases
<1>. QED BY <1>2, <1>3 DEF Finish

LEMMA CrashTypes ==
  ASSUME Types, NEW w \in Deliverers, Crash(w)
  PROVE  Types'
<1>1. faults' \in 0..MaxFaults
  BY DEF Crash, Types, TypeOK
<1>2. lost \in Nat /\ (pc[w] \in {"pushing", "results"} => Successes(job[w]) \in Nat)
  BY JobTypes, SuccessesNat DEF JobPhases, Types, TypeOK
<1>3. \/ lost' = lost + 1
      \/ pc[w] \in {"pushing", "results"} /\ lost' = lost + Successes(job[w])
      \/ lost' = lost
  BY DEF Crash
<1>4. lost' \in Nat
  BY <1>2, <1>3
<1>. QED BY <1>1, <1>4, AbandonTypes
     DEF Crash, Types, TypeOK, Numbered, configuration, Phases, JobPhases

LEMMA EnvironmentTypes ==
  ASSUME Types, (\E d \in Deliveries : Elapse(d)) \/ Administer
  PROVE  Types'
<1>. USE DEF Types, TypeOK, Working, configuration, local
<1>1. ASSUME NEW d \in Deliveries, Elapse(d)
      PROVE  Types'
  BY <1>1 DEF Elapse, Numbered
<1>2. ASSUME NEW c \in Channels, NEW enabled \in BOOLEAN, NEW users \in SUBSET Users,
             UpdateChannel(c, enabled, users)
      PROVE  Types'
  <2>1. /\ channel' \in [Channels -> {"enabled", "disabled", "deleted"}]
        /\ recipients' \in [Channels -> SUBSET Users]
    BY <1>2 DEF UpdateChannel
  <2>. QED BY <1>2, <2>1 DEF UpdateChannel, Change, Numbered
<1>3. ASSUME NEW c \in Channels, DeleteChannel(c)
      PROVE  Types'
  <2>1. /\ channel' \in [Channels -> {"enabled", "disabled", "deleted"}]
        /\ delivery' \in [Deliveries -> {"NONE", "PENDING", "DELIVERED", "FAILED"}]
        /\ due' \subseteq Deliveries
    BY <1>3 DEF DeleteChannel
  <2>2. \A d \in Deliveries : attempts'[d] \in {attempts[d], {}}
    BY <1>3 DEF DeleteChannel
  <2>3. attempts' \in [Deliveries -> SUBSET Attempt]
    BY <1>3 DEF DeleteChannel
  <2>4. Numbered'
    BY <2>2 DEF Numbered
  <2>. QED BY <1>3, <2>1, <2>3, <2>4 DEF DeleteChannel, Change
<1>4. ASSUME NEW x \in Devices, RemoveDevice(x)
      PROVE  Types'
  BY <1>4, UnregisterTypes DEF RemoveDevice, Change
<1>5. ASSUME NEW u \in Users, RemoveUser(u)
      PROVE  Types'
  <2>1. recipients' \in [Channels -> SUBSET Users]
    BY <1>5 DEF RemoveUser
  <2>2. {x \in Devices : OwnerOf[x] = u} \in SUBSET Devices
    OBVIOUS
  <2>. QED BY <1>5, <2>1, <2>2, UnregisterTypes DEF RemoveUser, Change
<1>6. ASSUME NEW x \in Devices, RegisterDevice(x)
      PROVE  Types'
  <2>1. /\ subscription' \in [Devices -> {"new", "registered", "removed"}]
        /\ changes' \in 0..MaxChanges
    BY <1>6 DEF RegisterDevice, Change
  <2>. QED BY <1>6, <2>1 DEF RegisterDevice, Change, Numbered
<1>. QED BY <1>1, <1>2, <1>3, <1>4, <1>5, <1>6 DEF Administer

LEMMA TypesInit == Init => Types
<1> SUFFICES ASSUME Init PROVE Types
  OBVIOUS
<1>1. sent \in [Deliveries -> [Targets -> Nat]]
  BY DEF Init
<1>2. TypeOK
  BY <1>1 DEF Init, TypeOK
<1>3. Numbered /\ Working
  BY DEF Init, Numbered, Working, JobPhases
<1>. QED BY <1>2, <1>3 DEF Types

LEMMA TypesStep == Types /\ [Next]_vars => Types'
<1> SUFFICES ASSUME Types, [Next]_vars PROVE Types'
  OBVIOUS
<1>1. CASE UNCHANGED vars
  BY <1>1 DEF Types, TypeOK, Numbered, Working, vars, configuration, local
<1>2. ASSUME NEW w \in Deliverers, Work(w)
      PROVE  Types'
  <2>1. ASSUME NEW x \in Devices, NEW delivered \in BOOLEAN,
               RecordResult(w, [device |-> x, delivered |-> delivered])
        PROVE  Types'
    <3>1. [device |-> x, delivered |-> delivered] \in Result
      BY DEF Result
    <3>. QED BY <2>1, <3>1, ResultTypes
  <2>. QED BY <1>2, <2>1, EmitTypes, ReadTypes, DeliverTypes, AppriseTypes,
              SubscriptionTypes, PushTypes, FailureTypes, FinishTypes DEF Work
<1>. QED BY <1>1, <1>2, EmitTypes, CrashTypes, AppriseTypes, EnvironmentTypes DEF Next

\* Every reachable state is well typed for every instance; an attempt's number is one
\* more than the highest before it, and only a delivery in progress has a job.
THEOREM TypeCorrect == Spec => []TypeOK
<1>1. Spec => []Types
  BY TypesInit, TypesStep, PTL DEF Spec
<1>2. Types => TypeOK
  BY DEF Types
<1>. QED BY <1>1, <1>2, PTL

-----------------------------------------------------------------------------
(* What is delivered is on record. *)

Deleted(d)  == channel[ChannelOf[d]] = "deleted"
Known(d)    == Exists(d) \/ Deleted(d)
Recorded(d) == \E a \in attempts[d] : a.delivered

\* A success of d is on record, or d is gone for good.
Safe(d) == Known(d) /\ (Exists(d) => Recorded(d))

\* The inductive invariant.  What a deliverer has read or found out about a row still
\* holds when it uses it, whatever the others did to the row meanwhile.
Evidence ==
  /\ \A d \in Deliveries : delivery[d] = "DELIVERED" /\ ~IsPush(d) => Recorded(d)
  /\ \A w \in Deliverers : \A s \in batch[w] :
       Known(s.delivery) /\ (s.done => Safe(s.delivery))
  /\ \A w \in Deliverers : pc[w] \in JobPhases => Known(job[w].row.delivery)
  /\ \A w \in Deliverers : pc[w] \in PushPhases => IsPush(job[w].row.delivery)
  /\ \A w \in Deliverers :
       pc[w] = "finishing" /\ job[w].delivered /\ ~IsPush(job[w].row.delivery)
         => Safe(job[w].row.delivery)

Invariant == Types /\ Evidence

\* A row keeps what makes it known and safe if it stays, or goes with its channel, and
\* the success of one attempt stays on record.
Persists ==
  \A d \in Deliveries :
    /\ Deleted(d) => Deleted(d)'
    /\ Known(d) /\ Exists(d)' => Exists(d)
    /\ Exists(d) /\ ~Exists(d)' => Deleted(d)'
    /\ Exists(d)' /\ Recorded(d) => Recorded(d)'
    /\ delivery'[d] = "DELIVERED" => delivery[d] = "DELIVERED" \/ IsPush(d) \/ Recorded(d)

LEMMA SafeStays ==
  ASSUME Persists, NEW d \in Deliveries
  PROVE  (Known(d) => Known(d)') /\ (Safe(d) => Safe(d)')
BY DEF Persists, Known, Safe

\* A step of deliverer w: the others keep what they know; what w has afterwards is
\* shown separately.
LEMMA EvidenceStep ==
  ASSUME Invariant, Persists, NEW w \in Deliverers, NEW p, NEW j, Go(w, p, j),
         UNCHANGED batch \/ \E B \in SUBSET batch[w] : batch' = [batch EXCEPT ![w] = B],
         p \in JobPhases => j.row.delivery \in Deliveries /\ Known(j.row.delivery)',
         p \in PushPhases => IsPush(j.row.delivery),
         p = "finishing" /\ j.delivered /\ ~IsPush(j.row.delivery) => Safe(j.row.delivery)'
  PROVE  Evidence'
<1>1. /\ \A v \in Deliverers \ {w} : pc'[v] = pc[v] /\ job'[v] = job[v]
      /\ pc'[w] = p /\ job'[w] = j
  BY DEF Go, Invariant, Types, TypeOK
<1>2. \A v \in Deliverers : batch'[v] \subseteq batch[v]
  BY DEF Invariant, Types, TypeOK
<1>3. \A d \in Deliveries : delivery'[d] = "DELIVERED" /\ ~IsPush(d) => Recorded(d)'
  BY DEF Invariant, Evidence, Persists, Exists
<1>4. \A v \in Deliverers : \A s \in batch[v] : s.delivery \in Deliveries
  BY DEF Invariant, Types, TypeOK, Snapshot
<1>5. \A v \in Deliverers : \A s \in batch'[v] :
        Known(s.delivery)' /\ (s.done => Safe(s.delivery)')
  BY <1>2, <1>4, SafeStays DEF Invariant, Evidence
<1>6. \A v \in Deliverers : pc[v] \in JobPhases => job[v].row.delivery \in Deliveries
  BY JobTypes DEF Invariant
<1>7. ASSUME NEW v \in Deliverers, pc'[v] \in JobPhases,
             NEW d, d = job'[v].row.delivery
      PROVE  /\ d \in Deliveries /\ Known(d)'
             /\ pc'[v] = "finishing" /\ job'[v].delivered /\ ~IsPush(d) => Safe(d)'
  <2>1. CASE v = w
    BY <1>1, <1>7, <2>1
  <2>2. CASE v # w
    <3>1. /\ d = job[v].row.delivery /\ d \in Deliveries
          /\ pc'[v] = pc[v] /\ job'[v] = job[v]
      BY <1>1, <1>6, <1>7, <2>2
    <3>2. /\ Known(d)
          /\ pc[v] = "finishing" /\ job[v].delivered /\ ~IsPush(d) => Safe(d)
      BY <1>7, <3>1 DEF Invariant, Evidence
    <3>. QED BY <3>1, <3>2, SafeStays
  <2>. QED BY <2>1, <2>2
<1>8. \A v \in Deliverers : pc'[v] \in PushPhases => IsPush(job'[v].row.delivery)
  BY <1>1 DEF Invariant, Evidence
<1>. QED BY <1>3, <1>5, <1>7, <1>8 DEF Evidence, IsPush, JobPhases

LEMMA LeaveEvidence ==
  ASSUME Invariant, Persists, NEW w \in Deliverers,
         (Leave(w) /\ UNCHANGED batch) \/ Abandon(w)
  PROVE  Evidence'
<1>1. CASE Leave(w) /\ UNCHANGED batch
  BY <1>1, EvidenceStep DEF Leave, JobPhases, PushPhases
<1>2. CASE Abandon(w)
  BY <1>2, EvidenceStep DEF Abandon, JobPhases, PushPhases
<1>. QED BY <1>1, <1>2

\* Steps that touch neither rows nor channels, and keep every success on record.
LEMMA RowsPersist ==
  ASSUME UNCHANGED <<channel, delivery>>,
         \A d \in Deliveries : Recorded(d) => Recorded(d)'
  PROVE  Persists
BY DEF Persists, Deleted, Exists, Known

LEMMA RecordPersists ==
  ASSUME Invariant, NEW d \in Deliveries, NEW n, NEW b \in BOOLEAN, NEW x, Record(d, n, b, x)
  PROVE  /\ \A c \in Deliveries : Recorded(c) => Recorded(c)'
         /\ b => Recorded(d)'
<1>. DEFINE new == [number |-> n, delivered |-> b, device |-> x]
<1>1. new.delivered = b
  OBVIOUS
<1>2. attempts' = [attempts EXCEPT ![d] = @ \cup {new}]
  BY DEF Record
<1>. HIDE DEF new
<1>3. attempts'[d] = attempts[d] \cup {new}
      /\ \A c \in Deliveries \ {d} : attempts'[c] = attempts[c]
  BY <1>2 DEF Invariant, Types, TypeOK
<1>. QED BY <1>1, <1>3 DEF Recorded

LEMMA UnregisterPersists ==
  ASSUME Invariant, NEW D, Unregister(D)
  PROVE  \A c \in Deliveries : Recorded(c) => Recorded(c)'
<1>. DEFINE less(a) == [a EXCEPT !.device = IF a.device \in D THEN NoDevice ELSE a.device]
<1>1. \A c \in Deliveries : attempts'[c] = {less(a) : a \in attempts[c]}
  BY DEF Unregister
<1>2. \A c \in Deliveries : \A a \in attempts[c] : less(a).delivered = a.delivered
  BY DEF Invariant, Types, TypeOK, Attempt
<1>. HIDE DEF less
<1>. QED BY <1>1, <1>2 DEF Recorded

\* A step that takes no deliverer into a phase with a job.
LEMMA StepFrame ==
  ASSUME Invariant, Persists, UNCHANGED job,
         \A v \in Deliverers : pc'[v] \in JobPhases => pc'[v] = pc[v],
         \/ UNCHANGED batch
         \/ \A v \in Deliverers : \A s \in batch'[v] :
              Known(s.delivery)' /\ (s.done => Safe(s.delivery)')
  PROVE  Evidence'
<1>1. \A d \in Deliveries : delivery'[d] = "DELIVERED" /\ ~IsPush(d) => Recorded(d)'
  BY DEF Invariant, Evidence, Persists, Exists
<1>2. \A w \in Deliverers : \A s \in batch[w] : s.delivery \in Deliveries
  BY DEF Invariant, Types, TypeOK, Snapshot
<1>3. \A w \in Deliverers : \A s \in batch'[w] :
        Known(s.delivery)' /\ (s.done => Safe(s.delivery)')
  BY <1>2, SafeStays DEF Invariant, Evidence
<1>4. ASSUME NEW w \in Deliverers, pc'[w] \in JobPhases, NEW d, d = job[w].row.delivery
      PROVE  /\ Known(d)'
             /\ pc'[w] = "finishing" /\ job[w].delivered /\ ~IsPush(d) => Safe(d)'
  <2>1. d \in Deliveries /\ pc[w] \in JobPhases
    BY <1>4, JobTypes DEF Invariant
  <2>2. /\ Known(d)
        /\ pc'[w] = "finishing" /\ job[w].delivered /\ ~IsPush(d) => Safe(d)
    BY <1>4, <2>1 DEF Invariant, Evidence
  <2>. QED BY <2>1, <2>2, SafeStays
<1>5. \A w \in Deliverers : pc'[w] \in PushPhases => IsPush(job'[w].row.delivery)
  BY DEF Invariant, Evidence, PushPhases, JobPhases
<1>. QED BY <1>1, <1>3, <1>4, <1>5 DEF Evidence, IsPush, JobPhases

LEMMA EmitEvidence ==
  ASSUME Invariant, NEW w \in Deliverers, Emit(w) \/ CreateDeliveries(w)
  PROVE  Evidence'
<1>1. /\ UNCHANGED <<channel, attempts, batch, job>>
      /\ \A v \in Deliverers : pc'[v] \in JobPhases => pc'[v] = pc[v]
  <2>1. /\ UNCHANGED <<channel, attempts, batch, job>>
        /\ \E p \in {"creating", "created", "idle"} : pc' = [pc EXCEPT ![w] = p]
    BY DEF Emit, MatchEvent, CreateDeliveries, configuration
  <2>2. pc \in [Deliverers -> Phases]
    BY DEF Invariant, Types, TypeOK, Phases, JobPhases
  <2>. QED BY <2>1, <2>2 DEF JobPhases
<1>2. Persists
  <2>1. CASE UNCHANGED delivery
    BY <1>1, <2>1, RowsPersist DEF Recorded
  <2>2. CASE CreateDeliveries(w) /\ ~UNCHANGED delivery
    <3>1. \A d \in Deliveries :
            delivery'[d] = delivery[d] \/ (delivery'[d] = "PENDING" /\ ~Exists(d) /\ ~Deleted(d))
      BY <2>2 DEF CreateDeliveries, Deleted
    <3>. QED BY <1>1, <3>1 DEF Persists, Deleted, Exists, Known, Recorded
  <2>. QED BY <2>1, <2>2 DEF Emit, MatchEvent
<1>. QED BY <1>1, <1>2, StepFrame

LEMMA ReadEvidence ==
  ASSUME Invariant, NEW w \in Deliverers, ReadOwn(w) \/ ReadDue(w)
  PROVE  Evidence'
<1>1. PICK D \in SUBSET Deliveries : Read(w, D)
  BY DEF ReadOwn, ReadDue, Invariant, Types, TypeOK
<1>2. UNCHANGED <<channel, delivery, attempts, job>>
  BY <1>1 DEF Read, configuration
<1>3. \A v \in Deliverers : pc'[v] \in JobPhases => pc'[v] = pc[v]
  BY <1>1 DEF Read, Invariant, Types, TypeOK, JobPhases
<1>4. ASSUME NEW d \in PendingDue(D)
      PROVE  Known(d)' /\ (SnapshotOf(d).done => Safe(d)')
  BY <1>2 DEF PendingDue, SnapshotOf, Known, Safe, Exists, Recorded
<1>5. \A v \in Deliverers : \A s \in batch'[v] :
        s \in batch[v] \/ \E d \in PendingDue(D) : s = SnapshotOf(d)
  BY <1>1 DEF Read, Invariant, Types, TypeOK
<1>6. \A d : SnapshotOf(d).delivery = d
  BY DEF SnapshotOf
<1>7. \A v \in Deliverers : \A s \in batch[v] :
        Known(s.delivery)' /\ (s.done => Safe(s.delivery)')
  BY <1>2 DEF Invariant, Evidence, Known, Safe, Exists, Deleted, Recorded
<1>8. \A v \in Deliverers : \A s \in batch'[v] :
        Known(s.delivery)' /\ (s.done => Safe(s.delivery)')
  BY <1>4, <1>5, <1>6, <1>7
<1>9. Persists
  BY <1>2, RowsPersist DEF Recorded
<1>. QED BY <1>2, <1>3, <1>8, <1>9, StepFrame

LEMMA DeliverEvidence ==
  ASSUME Invariant, NEW w \in Deliverers, Deliver(w)
  PROVE  Evidence'
<1>1. PICK s \in batch[w] :
        /\ batch' = [batch EXCEPT ![w] = @ \ {s}]
        /\ \/ \E p \in {"sending", "closing", "users"},
                 j \in {Start(s), [Start(s) EXCEPT !.delivered = FALSE]} :
                Go(w, p, j) /\ (p \in PushPhases => IsPush(s.delivery))
           \/ Go(w, "finishing", [Start([s EXCEPT !.number = 1]) EXCEPT !.delivered = FALSE])
           \/ Go(w, "finishing", Start(s)) /\ s.done
  BY DEF Deliver, PushPhases
<1>2. s \in Snapshot /\ s.delivery \in Deliveries /\ Known(s.delivery)
      /\ (s.done => Safe(s.delivery))
  BY DEF Invariant, Types, TypeOK, Evidence, Snapshot
<1>3. Persists
  BY RowsPersist DEF Deliver, configuration, Recorded
<1>4. Known(s.delivery)' /\ (s.done => Safe(s.delivery)')
  <2>1. PICK d \in Deliveries : d = s.delivery
    BY <1>2
  <2>. QED BY <1>2, <1>3, <2>1, SafeStays
<1>5. \E B \in SUBSET batch[w] : batch' = [batch EXCEPT ![w] = B]
  BY <1>1
<1>6. PICK p, j :
        /\ p \in JobPhases /\ Go(w, p, j)
        /\ j \in {[Start([s EXCEPT !.number = 1]) EXCEPT !.delivered = FALSE], Start(s),
                  [Start(s) EXCEPT !.delivered = FALSE]}
        /\ p \in PushPhases => IsPush(s.delivery)
        /\ p = "finishing" /\ j.delivered => s.done
  <2>1. [Start([s EXCEPT !.number = 1]) EXCEPT !.delivered = FALSE].delivered = FALSE
    BY DEF Start
  <2>. QED BY <1>1, <2>1 DEF JobPhases, PushPhases
<1>7. j.row.delivery = s.delivery
  BY <1>2, <1>6 DEF Start, Snapshot
<1>. QED BY <1>2, <1>3, <1>4, <1>5, <1>6, <1>7, EvidenceStep

\* The job of w, as the invariant knows it.
LEMMA JobEvidence ==
  ASSUME Invariant, NEW w \in Deliverers, pc[w] \in JobPhases, Persists
  PROVE  /\ Runnable(job[w]) /\ job[w].row.delivery \in Deliveries
         /\ Known(job[w].row.delivery)
         /\ \A d : d = job[w].row.delivery => Known(d)'
         /\ pc[w] \in PushPhases => IsPush(job[w].row.delivery)
<1>1. Runnable(job[w]) /\ job[w].row.delivery \in Deliveries
  BY JobTypes DEF Invariant
<1>2. /\ Known(job[w].row.delivery)
      /\ pc[w] \in PushPhases => IsPush(job[w].row.delivery)
  BY DEF Invariant, Evidence
<1>3. ASSUME NEW d, d = job[w].row.delivery
      PROVE  Known(d)'
  BY <1>1, <1>2, <1>3, SafeStays
<1>. QED BY <1>1, <1>2, <1>3

LEMMA AppriseEvidence ==
  ASSUME Invariant, NEW w \in Deliverers,
         (\E success \in BOOLEAN : SendApprise(w, success)) \/ RecordApprise(w)
           \/ RejectRecord(w)
  PROVE  Evidence'
<1>1. pc[w] \in JobPhases
  BY DEF SendApprise, RecordApprise, RejectRecord, JobPhases
<1>2. job[w] \in Job
  BY <1>1, JobTypes DEF Invariant, Runnable
<1>3. \A b \in BOOLEAN : [job[w] EXCEPT !.delivered = b].row = job[w].row
  BY <1>2 DEF Job
<1>4. ASSUME NEW b \in BOOLEAN, Go(w, "recording", [job[w] EXCEPT !.delivered = b]),
             UNCHANGED <<channel, delivery, attempts, batch>>
      PROVE  Evidence'
  <2>1. Persists
    BY <1>4, RowsPersist DEF Recorded
  <2>2. "recording" \notin PushPhases
    BY DEF PushPhases
  <2>. QED BY <1>1, <1>3, <1>4, <2>1, <2>2, JobEvidence, EvidenceStep
<1>5. CASE \E success \in BOOLEAN : SendApprise(w, success)
  BY <1>4, <1>5 DEF SendApprise, configuration
<1>6. CASE RejectRecord(w)
  BY <1>4, <1>6 DEF RejectRecord, configuration
<1>7. CASE RecordApprise(w)
  <2>. DEFINE d == job[w].row.delivery
  <2>1. d \in Deliveries /\ job[w].delivered \in BOOLEAN
    BY <1>2 DEF Job, Snapshot
  <2>2. UNCHANGED <<channel, delivery>>
    BY <1>7 DEF RecordApprise, configuration
  <2>3. CASE /\ Record(d, job[w].row.number, job[w].delivered, NoDevice)
             /\ Go(w, "finishing", job[w]) /\ UNCHANGED batch
    <3>1. /\ \A c \in Deliveries : Recorded(c) => Recorded(c)'
          /\ \A c : c = d /\ job[w].delivered => Recorded(c)'
      BY <2>1, <2>3, RecordPersists
    <3>2. Persists
      BY <2>2, <3>1, RowsPersist
    <3>3. \A c : c = d => Known(c)' /\ (job[w].delivered => Safe(c)')
      BY <1>1, <3>1, <3>2, JobEvidence DEF Safe
    <3>. QED BY <2>1, <2>3, <3>2, <3>3, EvidenceStep DEF PushPhases
  <2>4. CASE Abandon(w) /\ UNCHANGED attempts
    <3>1. Persists
      BY <2>2, <2>4, RowsPersist DEF Recorded
    <3>. QED BY <2>4, <3>1, LeaveEvidence
  <2>. QED BY <1>7, <2>3, <2>4 DEF RecordApprise
<1>. QED BY <1>5, <1>6, <1>7

\* A step of a deliverer whose row is a push channel's, to the same row.
LEMMA PushStep ==
  ASSUME Invariant, Persists, NEW w \in Deliverers, NEW p \in JobPhases, NEW j,
         pc[w] \in PushPhases, Go(w, p, j), j.row = job[w].row, UNCHANGED batch
  PROVE  Evidence'
<1>1. /\ j.row.delivery \in Deliveries
      /\ IsPush(j.row.delivery)
      /\ Known(j.row.delivery)'
  BY JobEvidence DEF PushPhases, JobPhases
<1>. QED BY <1>1, EvidenceStep

LEMMA SubscriptionEvidence ==
  ASSUME Invariant, NEW w \in Deliverers, NEW u \in Users, ReadSubscriptions(w, u)
  PROVE  Evidence'
<1>1. pc[w] \in PushPhases /\ pc[w] \in JobPhases
  BY DEF ReadSubscriptions, PushPhases, JobPhases
<1>2. job[w] \in Job
  BY <1>1, JobTypes DEF Invariant, Runnable
<1>3. Persists /\ UNCHANGED batch
  BY RowsPersist DEF ReadSubscriptions, configuration, Recorded
<1>. DEFINE j    == [job[w] EXCEPT !.users = @ \ {u}]
            devs == {x \in registered : OwnerOf[x] = u} \ j.row.reached
            next == IF devs = {} /\ j.row.reached = {} THEN Fail(j)
                    ELSE [j EXCEPT !.devices = devs]
<1>4. Go(w, IF devs # {} THEN "pushing" ELSE Onward(next), next)
  BY DEF ReadSubscriptions
<1>5. j.row = job[w].row /\ j \in Job
  BY <1>2 DEF Job
<1>. HIDE DEF j, devs
<1>6. next.row = job[w].row
  BY <1>5 DEF Fail, Job
<1>. HIDE DEF next
<1>7. (IF devs # {} THEN "pushing" ELSE Onward(next)) \in JobPhases
  BY OnwardPhase DEF JobPhases
<1>. QED BY <1>1, <1>3, <1>4, <1>6, <1>7, PushStep

LEMMA PushEvidence ==
  ASSUME Invariant, NEW w \in Deliverers, NEW x \in Devices,
         NEW outcome \in {"delivered", "failed", "gone"}, Push(w, x, outcome)
  PROVE  Evidence'
<1>1. pc[w] \in PushPhases /\ pc[w] \in JobPhases
  BY DEF Push, PushPhases, JobPhases
<1>2. job[w] \in Job
  BY <1>1, JobTypes DEF Invariant, Runnable
<1>3. \A c \in Deliveries : Recorded(c) => Recorded(c)'
  <2>1. CASE outcome = "gone"
    BY <2>1, UnregisterPersists DEF Push
  <2>2. CASE outcome # "gone"
    BY <2>2 DEF Push, Recorded
  <2>. QED BY <2>1, <2>2
<1>4. Persists /\ UNCHANGED batch
  BY <1>3, RowsPersist DEF Push, configuration
<1>5. PICK j : /\ j = [job[w] EXCEPT
                        !.devices  = @ \ {x},
                        !.results  = IF outcome = "gone" THEN @
                                     ELSE @ \cup {[device |-> x,
                                                   delivered |-> outcome = "delivered"]},
                        !.rejected = @ \/ (outcome = "gone" /\ x \notin registered)]
               /\ Go(w, AfterSends(Joined(j)), Joined(j))
  BY DEF Push
<1>6. Joined(j).row = job[w].row
  BY <1>2, <1>5 DEF Joined, Fail, Job
<1>7. AfterSends(Joined(j)) \in JobPhases
  BY OnwardPhase DEF AfterSends, JobPhases
<1>. QED BY <1>1, <1>4, <1>5, <1>6, <1>7, PushStep

LEMMA ResultEvidence ==
  ASSUME Invariant, NEW w \in Deliverers, NEW r \in Result, RecordResult(w, r)
  PROVE  Evidence'
<1>1. pc[w] \in PushPhases /\ pc[w] \in JobPhases
  BY DEF RecordResult, PushPhases, JobPhases
<1>2. job[w] \in Job /\ job[w].row.delivery \in Deliveries
  BY <1>1, JobTypes DEF Invariant, Runnable
<1>3. PICK j : /\ j = [job[w] EXCEPT !.results = @ \ {r}, !.delivered = @ /\ r.delivered]
               /\ \/ /\ Record(job[w].row.delivery, j.row.number, r.delivered, r.device)
                     /\ Go(w, IF j.results # {} THEN "results" ELSE Onward(j), j)
                  \/ /\ Go(w, Onward(Fail(j)), Fail(j))
                     /\ UNCHANGED attempts
  BY DEF RecordResult
<1>4. j.row = job[w].row /\ Fail(j).row = job[w].row
  BY <1>2, <1>3 DEF Fail, Job
<1>5. r.delivered \in BOOLEAN
  BY DEF Result
<1>6. \A c \in Deliveries : Recorded(c) => Recorded(c)'
  <2>1. CASE Record(job[w].row.delivery, j.row.number, r.delivered, r.device)
    BY <1>2, <1>5, <2>1, RecordPersists
  <2>2. CASE UNCHANGED attempts
    BY <2>2 DEF Recorded
  <2>. QED BY <1>3, <2>1, <2>2
<1>7. Persists /\ UNCHANGED batch
  BY <1>6, RowsPersist DEF RecordResult, configuration
<1>8. PICK p, k : p \in JobPhases /\ Go(w, p, k) /\ k.row = job[w].row
  <2>1. /\ (IF j.results # {} THEN "results" ELSE Onward(j)) \in JobPhases
        /\ Onward(Fail(j)) \in JobPhases
    BY OnwardPhase DEF JobPhases
  <2>. QED BY <1>3, <1>4, <2>1
<1>. QED BY <1>1, <1>7, <1>8, PushStep

LEMMA FailureEvidence ==
  ASSUME Invariant, NEW w \in Deliverers, RecordFailure(w)
  PROVE  Evidence'
<1>1. pc[w] \in PushPhases /\ pc[w] \in JobPhases
  BY DEF RecordFailure, PushPhases, JobPhases
<1>2. UNCHANGED <<channel, delivery>>
  BY DEF RecordFailure, configuration
<1>3. CASE /\ Record(job[w].row.delivery, job[w].row.number, FALSE, NoDevice)
           /\ Go(w, "finishing", job[w]) /\ UNCHANGED batch
  <2>1. job[w].row.delivery \in Deliveries
    BY <1>1, JobTypes DEF Invariant
  <2>2. \A c \in Deliveries : Recorded(c) => Recorded(c)'
    BY <1>3, <2>1, RecordPersists
  <2>3. Persists
    BY <1>2, <2>2, RowsPersist
  <2>. QED BY <1>1, <1>3, <2>3, PushStep DEF JobPhases
<1>4. CASE Abandon(w) /\ UNCHANGED attempts
  <2>1. Persists
    BY <1>2, <1>4, RowsPersist DEF Recorded
  <2>. QED BY <1>4, <2>1, LeaveEvidence
<1>. QED BY <1>3, <1>4 DEF RecordFailure

LEMMA FinishEvidence ==
  ASSUME Invariant, NEW w \in Deliverers, Finish(w)
  PROVE  Evidence'
<1>. DEFINE d == job[w].row.delivery
<1>1. pc[w] \in JobPhases /\ pc[w] = "finishing" /\ d \in Deliveries
  BY JobTypes DEF Finish, JobPhases, Invariant
<1>2. UNCHANGED <<channel, attempts>>
  BY DEF Finish, configuration
<1>3. CASE Exists(d) /\ delivery' = [delivery EXCEPT ![d] = Outcome(job[w])] /\ Leave(w)
             /\ UNCHANGED batch
  <2>1. Outcome(job[w]) # "NONE"
    BY DEF Outcome
  <2>2. Outcome(job[w]) = "DELIVERED" => IsPush(d) \/ Recorded(d)
    <3>1. Outcome(job[w]) = "DELIVERED" => job[w].delivered
      BY DEF Outcome
    <3>. QED BY <1>1, <1>3, <3>1 DEF Invariant, Evidence, Safe
  <2>3. \A c \in Deliveries :
          /\ Exists(c)' <=> Exists(c)
          /\ delivery'[c] = "DELIVERED" => delivery[c] = "DELIVERED" \/ IsPush(c) \/ Recorded(c)
    BY <1>1, <1>3, <2>1, <2>2 DEF Exists, Invariant, Types, TypeOK
  <2>4. Persists
    BY <1>2, <2>3 DEF Persists, Deleted, Known, Recorded
  <2>. QED BY <1>3, <2>4, LeaveEvidence
<1>4. CASE Abandon(w) /\ UNCHANGED delivery
  <2>1. Persists
    BY <1>2, <1>4, RowsPersist DEF Recorded
  <2>. QED BY <1>4, <2>1, LeaveEvidence
<1>. QED BY <1>3, <1>4 DEF Finish

LEMMA CrashEvidence ==
  ASSUME Invariant, NEW w \in Deliverers, Crash(w)
  PROVE  Evidence'
<1>1. Abandon(w) /\ UNCHANGED <<channel, delivery, attempts>>
  BY DEF Crash, configuration
<1>2. Persists
  BY <1>1, RowsPersist DEF Recorded
<1>. QED BY <1>1, <1>2, LeaveEvidence

LEMMA EnvironmentEvidence ==
  ASSUME Invariant, (\E d \in Deliveries : Elapse(d)) \/ Administer
  PROVE  Evidence'
<1>1. UNCHANGED <<pc, batch, job>>
  BY DEF Elapse, Administer, UpdateChannel, DeleteChannel, RegisterDevice, RemoveDevice,
         RemoveUser, local
<1>2. Persists
  <2>1. ASSUME NEW d \in Deliveries, Elapse(d)
        PROVE  Persists
    BY <2>1, RowsPersist DEF Elapse, configuration, Recorded
  <2>2. ASSUME NEW c \in Channels, NEW enabled \in BOOLEAN, NEW users,
               UpdateChannel(c, enabled, users)
        PROVE  Persists
    <3>1. \A d \in Deliveries : Deleted(d)' <=> Deleted(d)
      BY <2>2 DEF UpdateChannel, Deleted, Invariant, Types, TypeOK
    <3>. QED BY <2>2, <3>1 DEF UpdateChannel, Persists, Known, Exists, Recorded
  <2>3. ASSUME NEW c \in Channels, DeleteChannel(c)
        PROVE  Persists
    <3>1. \A d \in Deliveries :
            IF ChannelOf[d] = c
            THEN Deleted(d)' /\ ~Exists(d)' /\ delivery'[d] = "NONE"
            ELSE /\ Deleted(d)' <=> Deleted(d)
                 /\ delivery'[d] = delivery[d] /\ attempts'[d] = attempts[d]
      BY <2>3 DEF DeleteChannel, Deleted, Exists, Invariant, Types, TypeOK
    <3>. QED BY <3>1 DEF Persists, Known, Exists, Recorded
  <2>4. ASSUME NEW D, Unregister(D), UNCHANGED <<channel, delivery>>
        PROVE  Persists
    BY <2>4, UnregisterPersists, RowsPersist
  <2>5. ASSUME NEW x \in Devices, RemoveDevice(x)
        PROVE  Persists
    BY <2>4, <2>5 DEF RemoveDevice, configuration
  <2>6. ASSUME NEW u \in Users, RemoveUser(u)
        PROVE  Persists
    BY <2>4, <2>6 DEF RemoveUser
  <2>7. ASSUME NEW x \in Devices, RegisterDevice(x)
        PROVE  Persists
    BY <2>7, RowsPersist DEF RegisterDevice, configuration, Recorded
  <2>. QED BY <2>1, <2>2, <2>3, <2>5, <2>6, <2>7 DEF Administer
<1>. QED BY <1>1, <1>2, StepFrame

LEMMA InvariantInit == Init => Invariant
<1> SUFFICES ASSUME Init PROVE Invariant
  OBVIOUS
<1>1. Evidence
  BY DEF Init, Evidence, JobPhases, PushPhases
<1>. QED BY <1>1, TypesInit DEF Invariant

LEMMA InvariantStep == Invariant /\ [Next]_vars => Invariant'
<1> SUFFICES ASSUME Invariant, [Next]_vars PROVE Invariant'
  OBVIOUS
<1>1. Types'
  BY TypesStep DEF Invariant
<1>2. CASE UNCHANGED vars
  <2>1. UNCHANGED <<channel, delivery, attempts, pc, batch, job>>
    BY <1>2 DEF vars, configuration, local
  <2>2. Persists
    BY <2>1, RowsPersist DEF Recorded
  <2>. QED BY <1>1, <2>1, <2>2, StepFrame DEF Invariant
<1>3. ASSUME NEW w \in Deliverers, Work(w)
      PROVE  Evidence'
  <2>1. ASSUME NEW x \in Devices, NEW delivered \in BOOLEAN,
               RecordResult(w, [device |-> x, delivered |-> delivered])
        PROVE  Evidence'
    <3>1. [device |-> x, delivered |-> delivered] \in Result
      BY DEF Result
    <3>. QED BY <2>1, <3>1, ResultEvidence
  <2>. QED BY <1>3, <2>1, EmitEvidence, ReadEvidence, DeliverEvidence, AppriseEvidence,
              SubscriptionEvidence, PushEvidence, FailureEvidence, FinishEvidence DEF Work
<1>. QED BY <1>1, <1>2, <1>3, EmitEvidence, CrashEvidence, AppriseEvidence,
            EnvironmentEvidence DEF Next, Invariant

\* Although nothing claims a row and every deliverer writes by id what it found out
\* from an older snapshot, a row of an Apprise channel is shown as delivered only with
\* a successful attempt on record, for every instance.
THEOREM DeliveredIsRecordedHolds == Spec => []DeliveredIsRecorded
<1>1. Spec => []Invariant
  BY InvariantInit, InvariantStep, PTL DEF Spec
<1>2. Invariant => DeliveredIsRecorded
  BY DEF Invariant, Evidence, Recorded, DeliveredIsRecorded
<1>. QED BY <1>1, <1>2, PTL

-----------------------------------------------------------------------------
(* Successful sends are accounted for.                                     *)
(*                                                                         *)
(* p, j and B stand for a deliverer's pc, job and batch, before a step or  *)
(* after it.                                                               *)

UserPhases == {"users", "pushing", "results"}

Removed(t)    == t \in Devices /\ subscription[t] = "removed"
Reached(d, t) == \E a \in attempts[d] : a.delivered /\ a.device = t

\* Whoever reads d from now on does not send it to t.
Off(d, t) == Deleted(d) \/ Reached(d, t) \/ Removed(t)

\* A snapshot of d to which t looks as if it was not reached.
Awaits(s, d, t) ==
  s.delivery = d /\ (t = NoDevice => ~s.done) /\ (t # NoDevice => t \notin s.reached)

\* The deliverer sends d to t next, or among what it sends in parallel.
Sends(p, j, d, t) ==
  \/ p = "sending" /\ j.row.delivery = d /\ t = NoDevice
  \/ p = "pushing" /\ j.row.delivery = d /\ t \in j.devices

\* It comes to that, unless t is a subscription that is removed before.
Plans(p, j, B, d, t) ==
  \/ \E s \in B : Awaits(s, d, t)
  \/ /\ p \in UserPhases /\ j.row.delivery = d
     /\ t \in Devices /\ t \notin j.row.reached /\ OwnerOf[t] \in j.users

MaySend(gone, p, j, B, d, t) == Sends(p, j, d, t) \/ (~gone /\ Plans(p, j, B, d, t))

\* It has sent d to t and not recorded that yet.
HasSent(p, j, d, t) ==
  \/ p = "recording" /\ j.row.delivery = d /\ t = NoDevice /\ j.delivered
  \/ /\ p \in {"pushing", "results"} /\ j.row.delivery = d
     /\ \E r \in j.results : r.device = t /\ r.delivered

\* Snapshots are of different rows, and the recipients of a row are worked on one
\* after the other, each subscription once.
Fits(p, j, B) ==
  /\ \A s, z \in B : s.delivery = z.delivery => s = z
  /\ p \in JobPhases => \A s \in B : s.delivery # j.row.delivery
  /\ p = "users" => j.results = {}
  /\ p \in {"pushing", "results"} => \A r \in j.results : OwnerOf[r.device] \notin j.users
  /\ p = "pushing" => /\ \A x \in j.devices : OwnerOf[x] \notin j.users
                      /\ \A r \in j.results : r.device \notin j.devices

Shape ==
  /\ \A w \in Deliverers : Fits(pc[w], job[w], batch[w])
  /\ \A d \in Deliveries : Exists(d) => ~Deleted(d)

\* Deliverer w has had its one send of d to t.
Spent(w, d, t) ==
  IF Off(d, t) THEN ~MaySend(Removed(t), pc[w], job[w], batch[w], d, t)
               ELSE HasSent(pc[w], job[w], d, t)

\* The inductive invariant: beyond the successes that were lost, there is at most one
\* for each deliverer that has had its send.
Balance ==
  \A d \in Deliveries, t \in Targets :
    sent[d][t] <= lost + Cardinality({w \in Deliverers : Spent(w, d, t)})

LEMMA SentOrMaySend ==
  ASSUME NEW p, NEW j, NEW B, NEW d, NEW t, NEW gone, Fits(p, j, B),
         p \in {"pushing", "results"} => Runnable(j), HasSent(p, j, d, t)
  PROVE  ~MaySend(gone, p, j, B, d, t)
<1>1. CASE p = "recording" /\ j.row.delivery = d /\ t = NoDevice
  BY <1>1 DEF Fits, MaySend, Sends, Plans, Awaits, JobPhases, UserPhases
<1>2. ASSUME NEW r \in j.results, p \in {"pushing", "results"}, j.row.delivery = d,
             r.device = t
      PROVE  ~MaySend(gone, p, j, B, d, t)
  <2>1. t # NoDevice
    <3>1. r \in Result
      BY <1>2, JobFields
    <3>. QED BY <1>2, <3>1 DEF Result
  <2>2. p = "pushing" => t \notin j.devices
    BY <1>2 DEF Fits
  <2>3. OwnerOf[t] \notin j.users
    BY <1>2 DEF Fits
  <2>4. \A s \in B : s.delivery # d
    BY <1>2 DEF Fits, JobPhases
  <2>. QED BY <2>1, <2>2, <2>3, <2>4 DEF MaySend, Sends, Plans, Awaits
<1>. QED BY <1>1, <1>2 DEF HasSent

\* What a step of deliverer w does to it.
Moves(w, p, j, B) ==
  /\ pc' = [pc EXCEPT ![w] = p]
  /\ job' = [job EXCEPT ![w] = j]
  /\ batch' = [batch EXCEPT ![w] = B]

\* What it works on comes from what it worked on, or is read.
Origin(w, p, j, B) ==
  /\ p \in JobPhases => \/ pc[w] \in JobPhases /\ j.row.delivery = job[w].row.delivery
                        \/ \E s \in batch[w] : j.row.delivery = s.delivery
  /\ \/ B \subseteq batch[w]
     \/ \A s \in B : s.delivery \in Deliveries /\ delivery[s.delivery] = "PENDING"

\* A success counts as lost, or w may send before the step and has sent after it; and
\* unless a success is lost, w neither forgets one nor comes to a new send.
Accounts(w, p, j, B, d, t) ==
  \/ /\ sent'[d][t] = sent[d][t]
     /\ \/ lost' > lost
        \/ /\ MaySend(Removed(t)', p, j, B, d, t)
                => MaySend(Removed(t), pc[w], job[w], batch[w], d, t)
           /\ HasSent(pc[w], job[w], d, t) => HasSent(p, j, d, t) \/ Off(d, t)'
        \/ /\ ~HasSent(pc[w], job[w], d, t)
           /\ Off(d, t) => ~MaySend(Removed(t)', p, j, B, d, t)
  \/ /\ sent'[d][t] = sent[d][t] + 1
     /\ MaySend(Removed(t), pc[w], job[w], batch[w], d, t)
     /\ lost' > lost \/ HasSent(p, j, d, t)

Sound(w) ==
  /\ lost' >= lost
  /\ \E p, j, B :
       /\ Moves(w, p, j, B)
       /\ Fits(p, j, B)
       /\ Origin(w, p, j, B)
       /\ \A d \in Deliveries, t \in Targets : Accounts(w, p, j, B, d, t)

\* Nobody comes to send again what need not be sent again.
Lasts ==
  \A t \in Targets :
    /\ Removed(t) => Removed(t)'
    /\ \A d \in Deliveries : Off(d, t) => Off(d, t)'

\* A counter that grows with a set.
LEMMA Potential ==
  ASSUME NEW Q, NEW R, IsFiniteSet(R), NEW w, Q \ {w} \subseteq R, IsFiniteSet(Q),
         NEW a \in Nat, NEW b \in Nat, NEW m \in Nat, NEW n \in Nat, n >= m,
         a <= m + Cardinality(Q),
         \/ b = a /\ (n > m \/ (w \in Q => w \in R))
         \/ b = a + 1 /\ w \notin Q /\ (n > m \/ w \in R)
  PROVE  b <= n + Cardinality(R)
<1>. DEFINE P == Q \ {w}
<1>1. /\ IsFiniteSet(P)
      /\ Cardinality(P) = IF w \in Q THEN Cardinality(Q) - 1 ELSE Cardinality(Q)
  BY FS_RemoveElement
<1>2. Cardinality(P) \in Nat /\ Cardinality(Q) \in Nat /\ Cardinality(R) \in Nat
  BY <1>1, FS_CardinalityType
<1>3. Cardinality(P) <= Cardinality(R)
  BY FS_Subset
<1>4. w \in R => Cardinality(P) + 1 <= Cardinality(R)
  <2> SUFFICES ASSUME w \in R PROVE Cardinality(P) + 1 <= Cardinality(R)
    OBVIOUS
  <2>1. IsFiniteSet(R \ {w}) /\ Cardinality(R \ {w}) = Cardinality(R) - 1
    BY FS_RemoveElement
  <2>2. P \subseteq R \ {w}
    OBVIOUS
  <2>3. Cardinality(P) <= Cardinality(R \ {w})
    BY <2>1, <2>2, FS_Subset
  <2>. QED BY <1>2, <2>1, <2>3
<1>. HIDE DEF P
<1>. QED BY <1>1, <1>2, <1>3, <1>4

LEMMA FiniteDeliverers ==
  ASSUME NEW Q, Q \subseteq Deliverers
  PROVE  IsFiniteSet(Q) /\ Cardinality(Q) <= Cardinality(Deliverers)
<1>1. IsFiniteSet(Deliverers)
  BY FS_Union DEF Deliverers
<1>. QED BY <1>1, FS_Subset

LEMMA MovesAlone ==
  ASSUME Types, NEW w \in Deliverers, NEW p, NEW j, NEW B, Moves(w, p, j, B)
  PROVE  /\ pc'[w] = p /\ job'[w] = j /\ batch'[w] = B
         /\ \A v \in Deliverers \ {w} :
              pc'[v] = pc[v] /\ job'[v] = job[v] /\ batch'[v] = batch[v]
BY DEF Moves, Types, TypeOK

\* A deliverer that the step does not move.
LEMMA SpentStays ==
  ASSUME Types, Shape, Lasts, NEW v \in Deliverers, NEW d \in Deliveries, NEW t \in Targets,
         pc'[v] = pc[v], job'[v] = job[v], batch'[v] = batch[v], Spent(v, d, t)
  PROVE  Spent(v, d, t)'
<1>1. HasSent(pc[v], job[v], d, t) => ~MaySend(Removed(t), pc[v], job[v], batch[v], d, t)
  BY SentOrMaySend DEF Shape, Types, Working, JobPhases
<1>2. MaySend(Removed(t)', pc[v], job[v], batch[v], d, t)
        => MaySend(Removed(t), pc[v], job[v], batch[v], d, t)
  BY DEF Lasts, MaySend
<1>3. Off(d, t) => Off(d, t)'
  BY DEF Lasts
<1>4. Spent(v, d, t)' <=>
        IF Off(d, t)' THEN ~MaySend(Removed(t)', pc'[v], job'[v], batch'[v], d, t)
                      ELSE HasSent(pc'[v], job'[v], d, t)
  BY DEF Spent, MaySend, Sends, Plans, HasSent
<1>. QED BY <1>1, <1>2, <1>3, <1>4 DEF Spent

LEMMA SoundBalance ==
  ASSUME Types, Types', Shape, Lasts, Balance, NEW w \in Deliverers, Sound(w)
  PROVE  Balance'
<1>1. PICK p, j, B : /\ Moves(w, p, j, B)
                     /\ Fits(p, j, B)
                     /\ \A d \in Deliveries, t \in Targets : Accounts(w, p, j, B, d, t)
  BY DEF Sound
<1>2. /\ pc'[w] = p /\ job'[w] = j /\ batch'[w] = B
      /\ \A v \in Deliverers \ {w} :
           pc'[v] = pc[v] /\ job'[v] = job[v] /\ batch'[v] = batch[v]
  BY <1>1, MovesAlone
<1>3. lost \in Nat /\ lost' \in Nat /\ lost' >= lost
  BY DEF Sound, Types, TypeOK
<1> SUFFICES ASSUME NEW d \in Deliveries, NEW t \in Targets
             PROVE  sent'[d][t] <= lost' + Cardinality({v \in Deliverers : Spent(v, d, t)'})
  BY DEF Balance
<1>. DEFINE Q == {v \in Deliverers : Spent(v, d, t)}
            R == {v \in Deliverers : Spent(v, d, t)'}
<1>4. IsFiniteSet(Q) /\ IsFiniteSet(R)
  BY FiniteDeliverers
<1>5. Q \ {w} \subseteq R
  BY <1>2, SpentStays
<1>6. sent[d][t] \in Nat /\ sent'[d][t] \in Nat
  BY DEF Types, TypeOK
<1>7. sent[d][t] <= lost + Cardinality(Q)
  BY DEF Balance
<1>8. HasSent(pc[w], job[w], d, t) => ~MaySend(Removed(t), pc[w], job[w], batch[w], d, t)
  BY SentOrMaySend DEF Shape, Types, Working, JobPhases
<1>9. HasSent(p, j, d, t) => ~MaySend(Removed(t)', p, j, B, d, t)
  <2>1. p \in {"pushing", "results"} => Runnable(j)
    BY <1>2 DEF Types, Working, JobPhases, Runnable
  <2>. QED BY <1>1, <2>1, SentOrMaySend
<1>10. Off(d, t) => Off(d, t)'
  BY DEF Lasts
<1>11. Spent(w, d, t)' <=> IF Off(d, t)' THEN ~MaySend(Removed(t)', p, j, B, d, t)
                           ELSE HasSent(p, j, d, t)
  BY <1>2 DEF Spent, MaySend, Sends, Plans, HasSent
<1>12. \/ sent'[d][t] = sent[d][t] /\ (lost' > lost \/ (w \in Q => w \in R))
       \/ sent'[d][t] = sent[d][t] + 1 /\ w \notin Q /\ (lost' > lost \/ w \in R)
  <2>1. Accounts(w, p, j, B, d, t)
    BY <1>1
  <2>2. w \in Q <=> Spent(w, d, t)
    OBVIOUS
  <2>3. w \in R <=> Spent(w, d, t)'
    OBVIOUS
  <2>. QED BY ONLY <1>8, <1>9, <1>10, <1>11, <2>1, <2>2, <2>3 DEF Accounts, Spent
<1>. HIDE DEF Q, R
<1>13. sent'[d][t] <= lost' + Cardinality(R)
  BY <1>3, <1>4, <1>5, <1>6, <1>7, <1>12, Potential
<1>. QED BY <1>13 DEF R

LEMMA GrowthLasts ==
  ASSUME UNCHANGED <<channel, subscription>>,
         \A d \in Deliveries : attempts[d] \subseteq attempts'[d]
  PROVE  Lasts
BY DEF Lasts, Removed, Off, Deleted, Reached

LEMMA RecordLasts ==
  ASSUME Types, NEW d \in Deliveries, NEW n, NEW b, NEW x, Record(d, n, b, x),
         UNCHANGED <<channel, subscription>>
  PROVE  /\ Lasts
         /\ [number |-> n, delivered |-> b, device |-> x] \in attempts'[d]
<1>. DEFINE new == [number |-> n, delivered |-> b, device |-> x]
<1>1. attempts' = [attempts EXCEPT ![d] = @ \cup {new}]
  BY DEF Record
<1>. HIDE DEF new
<1>2. \A c \in Deliveries : attempts[c] \subseteq attempts'[c]
  BY <1>1 DEF Types, TypeOK
<1>3. new \in attempts'[d]
  BY <1>1 DEF Types, TypeOK
<1>. QED BY <1>2, <1>3, GrowthLasts DEF new

LEMMA UnregisterLasts ==
  ASSUME Types, NEW D \in SUBSET Devices, Unregister(D), UNCHANGED channel
  PROVE  Lasts
<1>. DEFINE less(a) == [a EXCEPT !.device = IF a.device \in D THEN NoDevice ELSE a.device]
<1>1. \A d \in Deliveries : attempts'[d] = {less(a) : a \in attempts[d]}
  BY DEF Unregister
<1>2. \A a \in Attempt :
        /\ less(a).delivered = a.delivered
        /\ a.device \notin D => less(a).device = a.device
  BY DEF Attempt
<1>. HIDE DEF less
<1>3. \A x \in Devices : subscription'[x] = IF x \in D THEN "removed" ELSE subscription[x]
  BY DEF Unregister
<1>4. \A t \in Targets : Removed(t) => Removed(t)'
  BY <1>3 DEF Removed
<1>5. ASSUME NEW t \in Targets, NEW d \in Deliveries, Reached(d, t)
      PROVE  Removed(t)' \/ Reached(d, t)'
  <2>1. PICK a \in attempts[d] : a.delivered /\ a.device = t
    BY <1>5 DEF Reached
  <2>2. a \in Attempt
    BY DEF Types, TypeOK
  <2>3. CASE t \in D
    BY <1>3, <2>3 DEF Removed
  <2>4. CASE t \notin D
    <3>1. less(a) \in attempts'[d] /\ less(a).delivered /\ less(a).device = t
      BY <1>1, <1>2, <2>1, <2>2, <2>4
    <3>. QED BY <3>1 DEF Reached
  <2>. QED BY <2>3, <2>4
<1>. QED BY <1>4, <1>5 DEF Lasts, Off, Deleted

LEMMA WorkLasts ==
  ASSUME Types, NEW w \in Deliverers, Emit(w) \/ Work(w) \/ Crash(w) \/ RejectRecord(w)
  PROVE  Lasts
<1>1. ASSUME UNCHANGED <<channel, subscription, attempts>>
      PROVE  Lasts
  BY <1>1, GrowthLasts
<1>2. CASE Emit(w) \/ CreateDeliveries(w) \/ ReadOwn(w) \/ ReadDue(w) \/ Deliver(w)
             \/ Finish(w) \/ Crash(w) \/ RejectRecord(w)
  BY <1>1, <1>2 DEF Emit, MatchEvent, CreateDeliveries, ReadOwn, ReadDue, Read, Deliver,
       Finish, Crash, RejectRecord, configuration
<1>3. ASSUME NEW success \in BOOLEAN, SendApprise(w, success)
      PROVE  Lasts
  BY <1>1, <1>3 DEF SendApprise, configuration
<1>4. ASSUME NEW u \in Users, ReadSubscriptions(w, u)
      PROVE  Lasts
  BY <1>1, <1>4 DEF ReadSubscriptions, configuration
<1>5. CASE RecordApprise(w)
  <2>1. job[w].row.delivery \in Deliveries
    BY <1>5, JobTypes DEF RecordApprise, JobPhases
  <2>. QED BY <1>1, <1>5, <2>1, RecordLasts DEF RecordApprise, configuration
<1>6. CASE RecordFailure(w)
  <2>1. job[w].row.delivery \in Deliveries
    BY <1>6, JobTypes DEF RecordFailure, JobPhases
  <2>. QED BY <1>1, <1>6, <2>1, RecordLasts DEF RecordFailure, configuration
<1>7. ASSUME NEW r, RecordResult(w, r)
      PROVE  Lasts
  <2>1. job[w].row.delivery \in Deliveries
    BY <1>7, JobTypes DEF RecordResult, JobPhases
  <2>2. UNCHANGED <<channel, subscription>>
    BY <1>7 DEF RecordResult, configuration
  <2>3. UNCHANGED attempts \/ \E n : Record(job[w].row.delivery, n, r.delivered, r.device)
    BY <1>7 DEF RecordResult
  <2>. QED BY <1>1, <2>1, <2>2, <2>3, RecordLasts
<1>8. ASSUME NEW x \in Devices, NEW outcome, Push(w, x, outcome)
      PROVE  Lasts
  <2>1. UNCHANGED channel /\ (Unregister({x}) \/ UNCHANGED <<subscription, attempts>>)
    BY <1>8 DEF Push, configuration
  <2>. QED BY <1>1, <2>1, UnregisterLasts
<1>. QED BY <1>2, <1>3, <1>4, <1>5, <1>6, <1>7, <1>8 DEF Work

LEMMA EnvironmentLasts ==
  ASSUME Types, (\E d \in Deliveries : Elapse(d)) \/ Administer
  PROVE  Lasts
<1>1. ASSUME NEW d \in Deliveries, Elapse(d)
      PROVE  Lasts
  BY <1>1, GrowthLasts DEF Elapse, configuration
<1>2. ASSUME NEW c \in Channels, NEW enabled \in BOOLEAN, NEW users,
             UpdateChannel(c, enabled, users)
      PROVE  Lasts
  <2>1. \A d \in Deliveries : Deleted(d) => Deleted(d)'
    BY <1>2 DEF UpdateChannel, Deleted, Types, TypeOK
  <2>. QED BY <1>2, <2>1 DEF UpdateChannel, Lasts, Off, Removed, Reached
<1>3. ASSUME NEW c \in Channels, DeleteChannel(c)
      PROVE  Lasts
  <2>1. \A d \in Deliveries :
          IF ChannelOf[d] = c THEN Deleted(d)'
          ELSE (Deleted(d)' <=> Deleted(d)) /\ attempts'[d] = attempts[d]
    BY <1>3 DEF DeleteChannel, Deleted, Types, TypeOK
  <2>2. UNCHANGED subscription
    BY <1>3 DEF DeleteChannel
  <2>. QED BY <2>1, <2>2 DEF Lasts, Off, Removed, Reached
<1>4. ASSUME NEW x \in Devices, RemoveDevice(x)
      PROVE  Lasts
  BY <1>4, UnregisterLasts DEF RemoveDevice, configuration
<1>5. ASSUME NEW u \in Users, RemoveUser(u)
      PROVE  Lasts
  <2>1. {x \in Devices : OwnerOf[x] = u} \in SUBSET Devices
    OBVIOUS
  <2>. QED BY <1>5, <2>1, UnregisterLasts DEF RemoveUser
<1>6. ASSUME NEW x \in Devices, RegisterDevice(x)
      PROVE  Lasts
  <2>1. \A t \in Devices : subscription[t] = "removed" => subscription'[t] = "removed"
    BY <1>6 DEF RegisterDevice, Types, TypeOK
  <2>. QED BY <1>6, <2>1
       DEF RegisterDevice, configuration, Lasts, Off, Removed, Reached, Deleted
<1>. QED BY <1>1, <1>2, <1>3, <1>4, <1>5, <1>6 DEF Administer

LEMMA GoMoves ==
  ASSUME Types, NEW w \in Deliverers, NEW p, NEW j, Go(w, p, j)
  PROVE  /\ UNCHANGED batch => Moves(w, p, j, batch[w])
         /\ \A B : batch' = [batch EXCEPT ![w] = B] => Moves(w, p, j, B)
BY DEF Go, Moves, Types, TypeOK

LEMMA AbandonMoves ==
  ASSUME Types, NEW w \in Deliverers, Abandon(w)
  PROVE  Moves(w, "idle", NoJob, {})
BY GoMoves DEF Abandon

\* A step after which w neither sends nor is at a recipient.
LEMMA CalmSound ==
  ASSUME Types, Shape, Lasts, NEW w \in Deliverers, NEW p, NEW j, NEW B,
         Moves(w, p, j, B), p \notin UserPhases \cup {"sending"}, B \subseteq batch[w],
         p \in JobPhases => pc[w] \in JobPhases /\ j.row.delivery = job[w].row.delivery,
         UNCHANGED sent, lost' >= lost,
         \A d \in Deliveries, t \in Targets :
           HasSent(pc[w], job[w], d, t) => lost' > lost \/ HasSent(p, j, d, t) \/ Off(d, t)'
  PROVE  Sound(w)
<1>1. Fits(pc[w], job[w], batch[w])
  BY DEF Shape
<1>2. Fits(p, j, B)
  BY <1>1 DEF Fits, UserPhases
<1>3. Origin(w, p, j, B)
  BY DEF Origin
<1>4. ASSUME NEW d \in Deliveries, NEW t \in Targets
      PROVE  Accounts(w, p, j, B, d, t)
  <2>1. MaySend(Removed(t)', p, j, B, d, t)
          => MaySend(Removed(t), pc[w], job[w], batch[w], d, t)
    BY DEF Lasts, MaySend, Sends, Plans, UserPhases
  <2>. QED BY <2>1 DEF Accounts
<1>. QED BY <1>2, <1>3, <1>4 DEF Sound

LEMMA EmitSound ==
  ASSUME Types, Shape, Lasts, NEW w \in Deliverers, Emit(w) \/ CreateDeliveries(w)
  PROVE  Sound(w)
<1>1. PICK p \in {"idle", "creating", "created"} : pc' = [pc EXCEPT ![w] = p]
  BY DEF Emit, MatchEvent, CreateDeliveries
<1>2. UNCHANGED <<job, batch, sent, lost>> /\ pc[w] \in {"idle", "creating"}
  BY DEF Emit, MatchEvent, CreateDeliveries
<1>3. Moves(w, p, job[w], batch[w])
  BY <1>1, <1>2 DEF Moves, Types, TypeOK
<1>4. \A d, t : ~HasSent(pc[w], job[w], d, t)
  BY <1>2 DEF HasSent
<1>5. p \notin UserPhases \cup {"sending"} /\ p \notin JobPhases
  BY DEF UserPhases, JobPhases
<1>6. lost' >= lost
  BY <1>2 DEF Types, TypeOK
<1>. HIDE DEF Sound
<1>. QED BY ONLY Types, Shape, Lasts, w \in Deliverers, <1>2, <1>3, <1>4, <1>5, <1>6, CalmSound

\* Whatever is read is not sent to where it need not be sent.
LEMMA SnapshotKnows ==
  ASSUME Types, Shape, NEW d \in Deliveries, NEW t \in Targets, Exists(d), Off(d, t)
  PROVE  Removed(t) \/ ~Awaits(SnapshotOf(d), d, t)
<1>1. SnapshotOf(d).done = (\E a \in attempts[d] : a.delivered /\ a.device = NoDevice)
      /\ SnapshotOf(d).reached
           = {a.device : a \in {b \in attempts[d] : b.delivered}} \ {NoDevice}
  BY DEF SnapshotOf
<1>2. ~Deleted(d)
  BY DEF Shape
<1>3. ASSUME NEW a \in attempts[d], a.delivered, a.device = t
      PROVE  ~Awaits(SnapshotOf(d), d, t)
  BY <1>1, <1>3 DEF Awaits
<1>. QED BY <1>2, <1>3 DEF Off, Reached

LEMMA ReadSound ==
  ASSUME Types, Shape, NEW w \in Deliverers, ReadOwn(w) \/ ReadDue(w)
  PROVE  Sound(w)
<1>1. PICK D \in SUBSET Deliveries : Read(w, D)
  BY DEF ReadOwn, ReadDue, Types, TypeOK
<1>2. pc[w] \in {"created", "idle"} /\ UNCHANGED <<sent, lost, subscription>>
  BY DEF ReadOwn, ReadDue, Read
<1>. DEFINE B == {SnapshotOf(d) : d \in PendingDue(D)}
<1>3. PICK p \in {"idle", "delivering"} : Moves(w, p, job[w], B)
  <2>1. /\ pc' = [pc EXCEPT ![w] = IF PendingDue(D) = {} THEN "idle" ELSE "delivering"]
        /\ batch' = [batch EXCEPT ![w] = B]
        /\ UNCHANGED job
    BY <1>1 DEF Read
  <2>2. job' = [job EXCEPT ![w] = job[w]]
    BY <2>1 DEF Types, TypeOK
  <2>. HIDE DEF B
  <2>. QED BY <2>1, <2>2 DEF Moves
<1>4. \A s \in B : /\ s = SnapshotOf(s.delivery) /\ s.delivery \in Deliveries
                   /\ delivery[s.delivery] = "PENDING"
  BY DEF PendingDue, SnapshotOf
<1>. HIDE DEF B
<1>5. p \notin JobPhases \cup UserPhases \cup {"sending"}
  BY DEF JobPhases, UserPhases
<1>6. Fits(p, job[w], B)
  BY <1>4, <1>5 DEF Fits, UserPhases
<1>7. Origin(w, p, job[w], B)
  BY <1>4, <1>5 DEF Origin
<1>8. ASSUME NEW d \in Deliveries, NEW t \in Targets
      PROVE  Accounts(w, p, job[w], B, d, t)
  <2>1. ~HasSent(pc[w], job[w], d, t)
    BY <1>2 DEF HasSent
  <2>2. ASSUME Off(d, t) PROVE ~MaySend(Removed(t)', p, job[w], B, d, t)
    <3>1. Removed(t)' <=> Removed(t)
      BY <1>2 DEF Removed
    <3>2. ASSUME NEW s \in B, Awaits(s, d, t) PROVE Removed(t)
      <4>1. s = SnapshotOf(d) /\ Exists(d)
        BY <1>4, <3>2 DEF Awaits, Exists
      <4>. QED BY <2>2, <3>2, <4>1, SnapshotKnows
    <3>. QED BY <1>5, <3>1, <3>2 DEF MaySend, Sends, Plans, JobPhases
  <2>. QED BY <1>2, <2>1, <2>2 DEF Accounts
<1>9. lost' >= lost
  BY <1>2 DEF Types, TypeOK
<1>. QED BY <1>3, <1>6, <1>7, <1>8, <1>9 DEF Sound

LEMMA DeliverSound ==
  ASSUME Types, Shape, NEW w \in Deliverers, Deliver(w)
  PROVE  Sound(w)
<1>1. PICK s, p, j :
        /\ s \in batch[w]
        /\ batch' = [batch EXCEPT ![w] = @ \ {s}]
        /\ Go(w, p, j)
        /\ \/ /\ p \in {"finishing", "closing"}
              /\ j \in {[Start([s EXCEPT !.number = 1]) EXCEPT !.delivered = FALSE],
                        Start(s), [Start(s) EXCEPT !.delivered = FALSE]}
           \/ p = "sending" /\ j = Start(s) /\ ~s.done
           \/ p = "users" /\ j = Start(s)
  BY DEF Deliver
<1>2. pc[w] = "delivering" /\ UNCHANGED <<sent, lost, subscription>>
  BY DEF Deliver
<1>3. s \in Snapshot
  BY <1>1 DEF Types, TypeOK
<1>4. /\ j.row.delivery = s.delivery /\ j.results = {}
      /\ p = "users" => j.row = s /\ j.users = s.users
  BY <1>1, <1>3 DEF Start, Snapshot
<1>. DEFINE B == batch[w] \ {s}
<1>5. Moves(w, p, j, B)
  <2>1. batch' = [batch EXCEPT ![w] = B]
    BY <1>1
  <2>. HIDE DEF B
  <2>. QED BY <1>1, <2>1, GoMoves
<1>6. Fits(pc[w], job[w], batch[w])
  BY DEF Shape
<1>7. Fits(p, j, B)
  BY <1>1, <1>4, <1>6 DEF Fits
<1>8. Origin(w, p, j, B)
  BY <1>1, <1>4 DEF Origin
<1>9. ASSUME NEW d \in Deliveries, NEW t \in Targets
      PROVE  Accounts(w, p, j, B, d, t)
  <2>1. ~HasSent(pc[w], job[w], d, t)
    BY <1>2 DEF HasSent
  <2>2. Removed(t)' <=> Removed(t)
    BY <1>2 DEF Removed
  <2>3. Sends(p, j, d, t) => Awaits(s, d, t) /\ ~Removed(t)
    BY <1>1, <1>4 DEF Sends, Awaits, Removed
  <2>4. Plans(p, j, B, d, t) => \E z \in batch[w] : Awaits(z, d, t)
    BY <1>1, <1>4 DEF Plans, Awaits, UserPhases
  <2>5. MaySend(Removed(t)', p, j, B, d, t)
          => MaySend(Removed(t), pc[w], job[w], batch[w], d, t)
    BY <1>1, <2>2, <2>3, <2>4 DEF MaySend, Plans
  <2>. QED BY <1>2, <2>1, <2>5 DEF Accounts
<1>10. lost' >= lost
  BY <1>2 DEF Types, TypeOK
<1>. QED BY <1>5, <1>7, <1>8, <1>9, <1>10 DEF Sound

LEMMA CountEffect ==
  ASSUME Types, NEW d \in Deliveries, NEW t \in Targets, Count(d, t)
  PROVE  \A c \in Deliveries, x \in Targets :
           sent'[c][x] = IF c = d /\ x = t THEN sent[c][x] + 1 ELSE sent[c][x]
<1>1. sent' = [sent EXCEPT ![d] = [sent[d] EXCEPT ![t] = sent[d][t] + 1]]
  BY DEF Count
<1>2. sent \in [Deliveries -> [Targets -> Nat]] /\ sent[d] \in [Targets -> Nat]
  BY DEF Types, TypeOK
<1>3. sent'[d] = [sent[d] EXCEPT ![t] = sent[d][t] + 1]
      /\ \A c \in Deliveries \ {d} : sent'[c] = sent[c]
  BY <1>1, <1>2
<1>. QED BY <1>2, <1>3

LEMMA SendAppriseSound ==
  ASSUME Types, Shape, Lasts, NEW w \in Deliverers, NEW success \in BOOLEAN,
         SendApprise(w, success)
  PROVE  Sound(w)
<1>. DEFINE j == [job[w] EXCEPT !.delivered = success]
<1>1. /\ pc[w] = "sending" /\ Go(w, "recording", j)
      /\ UNCHANGED <<batch, lost, subscription>>
  BY DEF SendApprise
<1>2. job[w] \in Job /\ job[w].row.delivery \in Deliveries
  BY <1>1, JobTypes DEF JobPhases, Runnable
<1>3. j.row = job[w].row /\ j.delivered = success
  BY <1>2 DEF Job
<1>. HIDE DEF j
<1>4. Moves(w, "recording", j, batch[w])
  BY <1>1, GoMoves
<1>5. Fits(pc[w], job[w], batch[w])
  BY DEF Shape
<1>6. Fits("recording", j, batch[w]) /\ Origin(w, "recording", j, batch[w])
  BY <1>1, <1>3, <1>5 DEF Fits, Origin, JobPhases
<1>7. ASSUME NEW d \in Deliveries, NEW t \in Targets
      PROVE  Accounts(w, "recording", j, batch[w], d, t)
  <2>1. MaySend(Removed(t)', "recording", j, batch[w], d, t)
          => MaySend(Removed(t), pc[w], job[w], batch[w], d, t)
    BY <1>1 DEF Lasts, MaySend, Sends, Plans, UserPhases
  <2>2. ~HasSent(pc[w], job[w], d, t)
    BY <1>1 DEF HasSent
  <2>3. CASE success /\ d = job[w].row.delivery /\ t = NoDevice
    <3>1. sent'[d][t] = sent[d][t] + 1
      BY <2>3, <1>2, CountEffect DEF SendApprise, Targets
    <3>2. MaySend(Removed(t), pc[w], job[w], batch[w], d, t)
      BY <1>1, <2>3 DEF MaySend, Sends
    <3>3. HasSent("recording", j, d, t)
      BY <1>3, <2>3 DEF HasSent
    <3>. QED BY <3>1, <3>2, <3>3 DEF Accounts
  <2>4. CASE ~(success /\ d = job[w].row.delivery /\ t = NoDevice)
    <3>1. sent'[d][t] = sent[d][t]
      BY <2>4, <1>2, CountEffect DEF SendApprise, Targets
    <3>. QED BY <3>1, <2>1, <2>2 DEF Accounts
  <2>. QED BY <2>3, <2>4
<1>8. lost' >= lost
  BY <1>1 DEF Types, TypeOK
<1>. QED BY <1>4, <1>6, <1>7, <1>8 DEF Sound

LEMMA RecordAppriseSound ==
  ASSUME Types, Shape, Lasts, NEW w \in Deliverers, RecordApprise(w)
  PROVE  Sound(w)
<1>1. pc[w] = "recording" /\ UNCHANGED <<sent, subscription>> /\ lost \in Nat
  BY DEF RecordApprise, Types, TypeOK
<1>2. job[w] \in Job /\ job[w].row.delivery \in Deliveries /\ job[w].delivered \in BOOLEAN
  BY <1>1, JobTypes, JobFields DEF JobPhases, Runnable
<1>3. CASE /\ Record(job[w].row.delivery, job[w].row.number, job[w].delivered, NoDevice)
           /\ Go(w, "finishing", job[w]) /\ UNCHANGED <<batch, lost>>
  <2>1. Moves(w, "finishing", job[w], batch[w])
    BY <1>3, GoMoves
  <2>2. UNCHANGED channel
    BY DEF RecordApprise, configuration
  <2>3. [number |-> job[w].row.number, delivered |-> job[w].delivered, device |-> NoDevice]
          \in attempts'[job[w].row.delivery]
    BY <1>1, <1>2, <1>3, <2>2, RecordLasts
  <2>4. job[w].delivered => \A d : d = job[w].row.delivery => Off(d, NoDevice)'
    BY <2>3 DEF Off, Reached
  <2>5. \A d \in Deliveries, t \in Targets : HasSent(pc[w], job[w], d, t) => Off(d, t)'
    BY <1>1, <2>4 DEF HasSent
  <2>6. lost' >= lost
    BY <1>1, <1>3
  <2>. QED BY <1>1, <2>1, <2>5, <2>6, CalmSound DEF JobPhases, UserPhases
<1>4. CASE Abandon(w) /\ lost' = IF job[w].delivered THEN lost + 1 ELSE lost
  <2>1. \A d \in Deliveries, t \in Targets : HasSent(pc[w], job[w], d, t) => lost' > lost
    BY <1>1, <1>4 DEF HasSent
  <2>2. lost' >= lost
    BY <1>1, <1>4
  <2>. QED BY <1>1, <1>4, <2>1, <2>2, AbandonMoves, CalmSound DEF JobPhases, UserPhases
<1>. QED BY <1>3, <1>4 DEF RecordApprise

LEMMA RejectRecordSound ==
  ASSUME Types, Shape, Lasts, NEW w \in Deliverers, RejectRecord(w)
  PROVE  Sound(w)
<1>. DEFINE j == [job[w] EXCEPT !.delivered = FALSE]
<1>1. /\ pc[w] = "recording" /\ Go(w, "recording", j)
      /\ UNCHANGED <<batch, sent>> /\ lost' = lost + 1
  BY DEF RejectRecord
<1>2. job[w] \in Job
  BY <1>1, JobTypes DEF JobPhases, Runnable
<1>3. j.row = job[w].row
  BY <1>2 DEF Job
<1>. HIDE DEF j
<1>4. Moves(w, "recording", j, batch[w])
  BY <1>1, GoMoves
<1>5. lost' > lost /\ lost' >= lost
  BY <1>1 DEF Types, TypeOK
<1>. QED BY <1>1, <1>3, <1>4, <1>5, CalmSound DEF JobPhases, UserPhases

LEMMA ClosingSound ==
  ASSUME Types, Shape, Lasts, NEW w \in Deliverers, RecordFailure(w) \/ Finish(w)
  PROVE  Sound(w)
<1>1. /\ pc[w] \in {"closing", "finishing"} /\ UNCHANGED <<sent, lost>>
      /\ \/ Go(w, "finishing", job[w]) /\ UNCHANGED batch
         \/ Leave(w) /\ UNCHANGED batch
         \/ Abandon(w)
  BY DEF RecordFailure, Finish
<1>2. \A d, t : ~HasSent(pc[w], job[w], d, t)
  BY <1>1 DEF HasSent
<1>3. lost' >= lost
  BY <1>1 DEF Types, TypeOK
<1>4. PICK p, j, B :
        /\ Moves(w, p, j, B) /\ p \in {"idle", "delivering", "finishing"}
        /\ B \subseteq batch[w]
        /\ p = "finishing" => j = job[w]
  BY <1>1, GoMoves, AbandonMoves DEF Leave
<1>. QED BY <1>1, <1>2, <1>3, <1>4, CalmSound DEF JobPhases, UserPhases

LEMMA SuccessesPositive ==
  ASSUME NEW j, Runnable(j), NEW r \in j.results, r.delivered
  PROVE  Successes(j) >= 1
<1>. DEFINE S == {q \in j.results : q.delivered}
<1>1. IsFiniteSet(S)
  BY JobFields, FS_Subset
<1>2. S # {}
  OBVIOUS
<1>3. Cardinality(S) \in Nat /\ Cardinality(S) # 0
  BY <1>1, <1>2, FS_CardinalityType, FS_EmptySet
<1>. QED BY <1>3 DEF Successes

LEMMA CrashSound ==
  ASSUME Types, Shape, Lasts, NEW w \in Deliverers, Crash(w)
  PROVE  Sound(w)
<1>1. Abandon(w) /\ UNCHANGED sent /\ lost \in Nat
  BY DEF Crash, Types, TypeOK
<1>2. CASE pc[w] = "recording"
  <2>1. lost' = IF job[w].delivered THEN lost + 1 ELSE lost
    BY <1>2 DEF Crash
  <2>2. \A d \in Deliveries, t \in Targets : HasSent(pc[w], job[w], d, t) => lost' > lost
    BY <1>1, <1>2, <2>1 DEF HasSent
  <2>3. lost' >= lost
    BY <1>1, <2>1
  <2>. QED BY <1>1, <2>2, <2>3, AbandonMoves, CalmSound DEF JobPhases, UserPhases
<1>3. CASE pc[w] \in {"pushing", "results"}
  <2>1. lost' = lost + Successes(job[w])
    BY <1>3 DEF Crash
  <2>2. Runnable(job[w]) /\ Successes(job[w]) \in Nat
    BY <1>3, JobTypes, SuccessesNat DEF JobPhases
  <2>3. ASSUME NEW d, NEW t, HasSent(pc[w], job[w], d, t) PROVE lost' > lost
    BY <1>1, <1>3, <2>1, <2>2, <2>3, SuccessesPositive DEF HasSent
  <2>4. lost' >= lost
    BY <1>1, <2>1, <2>2
  <2>. QED BY <1>1, <2>3, <2>4, AbandonMoves, CalmSound DEF JobPhases, UserPhases
<1>4. CASE pc[w] \notin {"recording", "pushing", "results"}
  <2>1. UNCHANGED lost
    BY <1>4 DEF Crash
  <2>2. \A d, t : ~HasSent(pc[w], job[w], d, t)
    BY <1>4 DEF HasSent
  <2>3. lost' >= lost
    BY <1>1, <2>1
  <2>. QED BY <1>1, <2>2, <2>3, AbandonMoves, CalmSound DEF JobPhases, UserPhases
<1>. QED BY <1>2, <1>3, <1>4

LEMMA ReadSubscriptionsSound ==
  ASSUME Types, Shape, Lasts, NEW w \in Deliverers, NEW u \in Users, ReadSubscriptions(w, u)
  PROVE  Sound(w)
<1>. DEFINE j    == [job[w] EXCEPT !.users = @ \ {u}]
            devs == {x \in registered : OwnerOf[x] = u} \ j.row.reached
            next == IF devs = {} /\ j.row.reached = {} THEN Fail(j)
                    ELSE [j EXCEPT !.devices = devs]
            p    == IF devs # {} THEN "pushing" ELSE Onward(next)
<1>1. /\ pc[w] = "users" /\ u \in job[w].users /\ Go(w, p, next)
      /\ UNCHANGED <<batch, sent, lost, subscription>>
  BY DEF ReadSubscriptions
<1>2. job[w] \in Job /\ job[w].results = {}
  BY <1>1, JobTypes DEF JobPhases, Runnable, Shape, Fits
<1>3. j \in Job /\ j.row = job[w].row /\ j.users = job[w].users \ {u} /\ j.results = {}
  BY <1>2 DEF Job
<1>4. \A x \in devs : /\ x \in Devices /\ x \notin job[w].row.reached
                      /\ OwnerOf[x] = u /\ ~Removed(x)
  BY <1>3 DEF registered, Removed
<1>5. OwnerOf \in [Devices -> Users]
  OBVIOUS
<1>. HIDE DEF j, devs
<1>6. /\ next.row = job[w].row /\ next.users = job[w].users \ {u} /\ next.results = {}
      /\ devs # {} => next.devices = devs
  BY <1>3 DEF Fail, Job
<1>. HIDE DEF next
<1>7. p \in {"users", "pushing", "closing", "finishing"} /\ (p = "pushing" => devs # {})
  BY OnwardPhase
<1>. HIDE DEF p
<1>8. Moves(w, p, next, batch[w])
  BY <1>1, GoMoves
<1>9. Fits(pc[w], job[w], batch[w])
  BY DEF Shape
<1>10. Fits(p, next, batch[w])
  <2>1. p \in JobPhases => \A s \in batch[w] : s.delivery # next.row.delivery
    BY <1>1, <1>6, <1>9 DEF Fits, JobPhases
  <2>2. p = "pushing" => \A x \in next.devices : OwnerOf[x] \notin next.users
    BY <1>4, <1>6, <1>7
  <2>. QED BY <1>6, <1>9, <2>1, <2>2 DEF Fits
<1>11. Origin(w, p, next, batch[w])
  BY <1>1, <1>6 DEF Origin, JobPhases
<1>12. ASSUME NEW d \in Deliveries, NEW t \in Targets
       PROVE  Accounts(w, p, next, batch[w], d, t)
  <2>1. ~HasSent(pc[w], job[w], d, t)
    BY <1>1 DEF HasSent
  <2>2. Removed(t)' <=> Removed(t)
    BY <1>1 DEF Removed
  <2>3. Sends(p, next, d, t) => Plans(pc[w], job[w], batch[w], d, t) /\ ~Removed(t)
    BY <1>1, <1>4, <1>6, <1>7 DEF Sends, Plans, UserPhases
  <2>4. Plans(p, next, batch[w], d, t) => Plans(pc[w], job[w], batch[w], d, t)
    BY <1>1, <1>6 DEF Plans, UserPhases
  <2>. QED BY <1>1, <2>1, <2>2, <2>3, <2>4 DEF Accounts, MaySend
<1>13. lost' >= lost
  BY <1>1 DEF Types, TypeOK
<1>. QED BY <1>8, <1>10, <1>11, <1>12, <1>13 DEF Sound

LEMMA PushSound ==
  ASSUME Types, Shape, Lasts, NEW w \in Deliverers, NEW x \in Devices,
         NEW outcome \in {"delivered", "failed", "gone"}, Push(w, x, outcome)
  PROVE  Sound(w)
<1>1. PICK j : Ended(w, x, outcome, j)
  BY PushJob
<1>. DEFINE result == [device |-> x, delivered |-> outcome = "delivered"]
<1>2. /\ Runnable(j)
      /\ j.row = job[w].row /\ j.users = job[w].users
      /\ j.devices = job[w].devices \ {x}
      /\ j.results = IF outcome = "gone" THEN job[w].results
                                         ELSE job[w].results \cup {result}
      /\ result.device = x /\ (outcome = "delivered" => result.delivered)
      /\ Go(w, AfterSends(Joined(j)), Joined(j))
      /\ lost' = lost + Successes(j) - Successes(Joined(j))
      /\ IF outcome = "delivered" THEN Count(j.row.delivery, x) ELSE UNCHANGED sent
  BY <1>1 DEF Ended
<1>. HIDE DEF result
<1>3. pc[w] = "pushing" /\ x \in job[w].devices /\ UNCHANGED batch
  BY DEF Push
<1>4. Runnable(job[w]) /\ job[w].row.delivery \in Deliveries
  BY <1>3, JobTypes DEF JobPhases
<1>5. Fits(pc[w], job[w], batch[w])
  BY DEF Shape
<1>6. Successes(j) \in Nat /\ lost \in Nat
  BY <1>2, SuccessesNat DEF Types, TypeOK
<1>. DEFINE hit(d, t) == outcome = "delivered" /\ d = job[w].row.delivery /\ t = x
<1>7. ASSUME NEW d \in Deliveries, NEW t \in Targets
      PROVE  IF hit(d, t)
             THEN /\ sent'[d][t] = sent[d][t] + 1
                  /\ MaySend(Removed(t), pc[w], job[w], batch[w], d, t)
             ELSE sent'[d][t] = sent[d][t]
  <2>1. x \in Targets
    BY DEF Targets
  <2>2. sent'[d][t] = IF hit(d, t) THEN sent[d][t] + 1 ELSE sent[d][t]
    BY <1>2, <1>4, <2>1, CountEffect
  <2>3. hit(d, t) => MaySend(Removed(t), pc[w], job[w], batch[w], d, t)
    BY <1>3 DEF MaySend, Sends
  <2>. QED BY <2>2, <2>3
<1>. HIDE DEF hit
<1>8. CASE Joined(j) = j
  <2>. DEFINE p == AfterSends(j)
  <2>1. /\ p \in {"users", "pushing", "results", "closing", "finishing"}
        /\ p \in {"pushing", "results"} <=> j.devices # {} \/ j.results # {}
    BY OnwardPhase DEF AfterSends
  <2>2. Moves(w, p, j, batch[w])
    BY <1>2, <1>3, <1>8, GoMoves
  <2>. HIDE DEF p
  <2>3. Fits(p, j, batch[w])
    <3>1. /\ \A s, z \in batch[w] : s.delivery = z.delivery => s = z
          /\ \A s \in batch[w] : s.delivery # j.row.delivery
          /\ \A y \in job[w].devices : OwnerOf[y] \notin job[w].users
          /\ \A r \in job[w].results : /\ OwnerOf[r.device] \notin job[w].users
                                       /\ r.device \notin job[w].devices
      BY <1>2, <1>3, <1>5 DEF Fits, JobPhases
    <3>2. \A r \in j.results : OwnerOf[r.device] \notin j.users /\ r.device \notin j.devices
      BY <1>2, <1>3, <3>1
    <3>. QED BY <1>2, <2>1, <3>1, <3>2 DEF Fits
  <2>4. Origin(w, p, j, batch[w])
    BY <1>2, <1>3 DEF Origin, JobPhases
  <2>5. ASSUME NEW d \in Deliveries, NEW t \in Targets
        PROVE  Accounts(w, p, j, batch[w], d, t)
    <3>1. CASE hit(d, t)
      <4>1. HasSent(p, j, d, t)
        BY <1>2, <2>1, <3>1 DEF HasSent, hit
      <4>. QED BY <1>7, <3>1, <4>1 DEF Accounts
    <3>2. CASE ~hit(d, t)
      <4>1. Sends(p, j, d, t) => Sends(pc[w], job[w], d, t)
        BY <1>2, <1>3, <2>1 DEF Sends
      <4>2. Plans(p, j, batch[w], d, t) => Plans(pc[w], job[w], batch[w], d, t)
        BY <1>2, <1>3 DEF Plans, UserPhases
      <4>3. Removed(t) => Removed(t)'
        BY DEF Lasts
      <4>4. HasSent(pc[w], job[w], d, t) => HasSent(p, j, d, t)
        BY <1>2, <1>3, <2>1 DEF HasSent
      <4>. QED BY <1>7, <3>2, <4>1, <4>2, <4>3, <4>4 DEF Accounts, MaySend
    <3>. QED BY <3>1, <3>2
  <2>6. lost' >= lost
    BY <1>2, <1>6, <1>8
  <2>. QED BY <2>2, <2>3, <2>4, <2>5, <2>6 DEF Sound
<1>9. CASE Joined(j) = Fail(j)
  <2>. DEFINE k == Fail(j)
              p == Onward(k)
  <2>1. /\ Runnable(k) /\ k.row = j.row /\ k.results = {}
        /\ k.devices = {} /\ k.users = j.users
    BY <1>2, FailType DEF Fail, Runnable, Job
  <2>2. Successes(k) = 0
    <3>1. {r \in k.results : r.delivered} = {}
      BY <2>1
    <3>. QED BY <3>1, FS_EmptySet DEF Successes
  <2>. HIDE DEF k
  <2>3. Go(w, p, k) /\ lost' = lost + Successes(j)
    BY <1>2, <1>6, <1>9, <2>1, <2>2 DEF AfterSends, k
  <2>4. p \in {"users", "closing", "finishing"}
    BY OnwardPhase
  <2>. HIDE DEF p
  <2>5. Moves(w, p, k, batch[w])
    BY <1>3, <2>3, GoMoves
  <2>6. Fits(p, k, batch[w])
    BY <1>2, <1>3, <1>5, <2>1, <2>4 DEF Fits, JobPhases
  <2>7. Origin(w, p, k, batch[w])
    BY <1>2, <1>3, <2>1 DEF Origin, JobPhases
  <2>8. ASSUME NEW d \in Deliveries, NEW t \in Targets
        PROVE  Accounts(w, p, k, batch[w], d, t)
    <3>1. ASSUME NEW r \in j.results, r.delivered PROVE lost' > lost
      BY <1>2, <1>6, <2>3, <3>1, SuccessesPositive
    <3>2. CASE hit(d, t)
      <4>1. lost' > lost
        BY <1>2, <3>1, <3>2 DEF hit
      <4>. QED BY <1>7, <3>2, <4>1 DEF Accounts
    <3>3. CASE ~hit(d, t)
      <4>1. ~Sends(p, k, d, t)
        BY <2>4 DEF Sends
      <4>2. Plans(p, k, batch[w], d, t) => Plans(pc[w], job[w], batch[w], d, t)
        BY <1>2, <1>3, <2>1 DEF Plans, UserPhases
      <4>3. Removed(t) => Removed(t)'
        BY DEF Lasts
      <4>4. HasSent(pc[w], job[w], d, t) => lost' > lost
        BY <1>2, <1>3, <3>1 DEF HasSent
      <4>. QED BY <1>7, <3>3, <4>1, <4>2, <4>3, <4>4 DEF Accounts, MaySend
    <3>. QED BY <3>2, <3>3
  <2>9. lost' >= lost
    BY <1>6, <2>3
  <2>. QED BY <2>5, <2>6, <2>7, <2>8, <2>9 DEF Sound
<1>. QED BY <1>8, <1>9 DEF Joined

LEMMA RecordResultSound ==
  ASSUME Types, Shape, Lasts, NEW w \in Deliverers, NEW r \in Result, RecordResult(w, r)
  PROVE  Sound(w)
<1>. DEFINE j == [job[w] EXCEPT !.results = @ \ {r}, !.delivered = @ /\ r.delivered]
<1>1. /\ pc[w] = "results" /\ r \in job[w].results /\ UNCHANGED <<batch, sent>>
      /\ \/ /\ Record(job[w].row.delivery, j.row.number, r.delivered, r.device)
            /\ Go(w, IF j.results # {} THEN "results" ELSE Onward(j), j)
            /\ UNCHANGED <<channel, subscription, lost>>
         \/ /\ Go(w, Onward(Fail(j)), Fail(j))
            /\ lost' = lost + Successes(job[w])
  BY DEF RecordResult, configuration
<1>2. Runnable(job[w]) /\ job[w].row.delivery \in Deliveries
  BY <1>1, JobTypes DEF JobPhases
<1>3. /\ j \in Job /\ j.row = job[w].row /\ j.users = job[w].users
      /\ j.results = job[w].results \ {r}
  <2>1. (job[w].delivered /\ r.delivered) \in BOOLEAN
    BY <1>2, JobFields DEF Result
  <2>. QED BY <1>2, <2>1 DEF Runnable, Job
<1>. HIDE DEF j
<1>4. Fits(pc[w], job[w], batch[w])
  BY DEF Shape
<1>5. lost \in Nat /\ \A t : Removed(t) /\ t \in Targets => Removed(t)'
  BY DEF Lasts, Types, TypeOK
<1>6. CASE /\ Record(job[w].row.delivery, j.row.number, r.delivered, r.device)
           /\ Go(w, IF j.results # {} THEN "results" ELSE Onward(j), j)
           /\ UNCHANGED <<channel, subscription, lost>>
  <2>. DEFINE p == IF j.results # {} THEN "results" ELSE Onward(j)
  <2>1. /\ p \in {"users", "results", "closing", "finishing"}
        /\ p = "results" <=> j.results # {}
    BY OnwardPhase
  <2>2. Moves(w, p, j, batch[w])
    BY <1>1, <1>6, GoMoves
  <2>. HIDE DEF p
  <2>3. Fits(p, j, batch[w]) /\ Origin(w, p, j, batch[w])
    BY <1>1, <1>3, <1>4, <2>1 DEF Fits, Origin, JobPhases
  <2>4. r.delivered => \A d : d = job[w].row.delivery => Off(d, r.device)'
    <3>1. [number |-> j.row.number, delivered |-> r.delivered, device |-> r.device]
            \in attempts'[job[w].row.delivery]
      BY <1>2, <1>6, RecordLasts
    <3>. QED BY <3>1 DEF Off, Reached
  <2>5. ASSUME NEW d \in Deliveries, NEW t \in Targets
        PROVE  Accounts(w, p, j, batch[w], d, t)
    <3>1. ~Sends(p, j, d, t)
      BY <2>1 DEF Sends
    <3>2. Plans(p, j, batch[w], d, t) => Plans(pc[w], job[w], batch[w], d, t)
      BY <1>1, <1>3 DEF Plans, UserPhases
    <3>3. HasSent(pc[w], job[w], d, t) => HasSent(p, j, d, t) \/ Off(d, t)'
      <4> SUFFICES ASSUME NEW q \in job[w].results, q.device = t, q.delivered,
                          d = job[w].row.delivery
                   PROVE  HasSent(p, j, d, t) \/ Off(d, t)'
        BY <1>1 DEF HasSent
      <4>1. CASE q = r
        BY <2>4, <4>1
      <4>2. CASE q # r
        BY <1>3, <2>1, <4>2 DEF HasSent
      <4>. QED BY <4>1, <4>2
    <3>4. sent'[d][t] = sent[d][t]
      BY <1>1
    <3>. QED BY <1>5, <3>1, <3>2, <3>3, <3>4 DEF Accounts, MaySend
  <2>6. lost' >= lost
    BY <1>5, <1>6
  <2>. QED BY <2>2, <2>3, <2>5, <2>6 DEF Sound
<1>7. CASE Go(w, Onward(Fail(j)), Fail(j)) /\ lost' = lost + Successes(job[w])
  <2>. DEFINE k == Fail(j)
              p == Onward(k)
  <2>1. k.row = job[w].row /\ k.results = {} /\ k.users = job[w].users
    BY <1>3 DEF Fail, Job
  <2>. HIDE DEF k
  <2>2. p \in {"users", "closing", "finishing"}
    BY OnwardPhase
  <2>3. Moves(w, p, k, batch[w])
    BY <1>1, <1>7, GoMoves DEF k
  <2>. HIDE DEF p
  <2>4. Fits(p, k, batch[w]) /\ Origin(w, p, k, batch[w])
    BY <1>1, <1>4, <2>1, <2>2 DEF Fits, Origin, JobPhases
  <2>5. lost' >= lost
    BY <1>2, <1>5, <1>7, SuccessesNat
  <2>6. ASSUME NEW d \in Deliveries, NEW t \in Targets
        PROVE  Accounts(w, p, k, batch[w], d, t)
    <3>1. ~Sends(p, k, d, t)
      BY <2>2 DEF Sends
    <3>2. Plans(p, k, batch[w], d, t) => Plans(pc[w], job[w], batch[w], d, t)
      BY <1>1, <2>1 DEF Plans, UserPhases
    <3>3. HasSent(pc[w], job[w], d, t) => lost' > lost
      BY <1>1, <1>2, <1>5, <1>7, SuccessesPositive, SuccessesNat DEF HasSent
    <3>4. sent'[d][t] = sent[d][t]
      BY <1>1
    <3>. QED BY <1>5, <3>1, <3>2, <3>3, <3>4 DEF Accounts, MaySend
  <2>. QED BY <2>3, <2>4, <2>5, <2>6 DEF Sound
<1>. QED BY <1>1, <1>6, <1>7

LEMMA DelivererSound ==
  ASSUME Types, Shape, NEW w \in Deliverers,
         Emit(w) \/ Work(w) \/ Crash(w) \/ RejectRecord(w)
  PROVE  Lasts /\ Sound(w)
<1>1. Lasts
  BY WorkLasts
<1>2. ASSUME Work(w)
      PROVE  Sound(w)
  <2>1. ASSUME NEW x \in Devices, NEW delivered \in BOOLEAN,
               RecordResult(w, [device |-> x, delivered |-> delivered])
        PROVE  Sound(w)
    <3>1. [device |-> x, delivered |-> delivered] \in Result
      BY DEF Result
    <3>. QED BY <1>1, <2>1, <3>1, RecordResultSound
  <2>. QED BY <1>1, <1>2, <2>1, EmitSound, ReadSound, DeliverSound, SendAppriseSound,
              RecordAppriseSound, ReadSubscriptionsSound, PushSound, ClosingSound DEF Work
<1>. QED BY <1>1, <1>2, EmitSound, CrashSound, RejectRecordSound

\* What a deliverer's step does to the rows.
LEMMA DelivererRows ==
  ASSUME NEW w \in Deliverers, Emit(w) \/ Work(w) \/ Crash(w) \/ RejectRecord(w)
  PROVE  /\ UNCHANGED channel
         /\ \/ UNCHANGED delivery
            \/ /\ CreateDeliveries(w)
               /\ \A d \in Deliveries :
                    \/ delivery'[d] = delivery[d]
                    \/ ~Exists(d) /\ ~Deleted(d) /\ delivery'[d] = "PENDING"
            \/ /\ Finish(w) /\ Exists(job[w].row.delivery) /\ Leave(w) /\ UNCHANGED batch
               /\ delivery' = [delivery EXCEPT ![job[w].row.delivery] = Outcome(job[w])]
<1>1. UNCHANGED channel
  BY DEF Emit, MatchEvent, Work, CreateDeliveries, ReadOwn, ReadDue, Read, Deliver,
     SendApprise, RecordApprise, ReadSubscriptions, Push, RecordResult, RecordFailure,
     Finish, Crash, RejectRecord, configuration
<1>2. CASE CreateDeliveries(w)
  <2>1. \/ UNCHANGED delivery
        \/ \A d \in Deliveries :
             \/ delivery'[d] = delivery[d]
             \/ ~Exists(d) /\ ~Deleted(d) /\ delivery'[d] = "PENDING"
    BY <1>2 DEF CreateDeliveries, Deleted
  <2>. QED BY <1>1, <1>2, <2>1
<1>3. CASE Finish(w)
  BY <1>1, <1>3 DEF Finish
<1>4. CASE ~CreateDeliveries(w) /\ ~Finish(w)
  <2>1. UNCHANGED delivery
    BY <1>4 DEF Emit, MatchEvent, Work, ReadOwn, ReadDue, Read, Deliver, SendApprise,
       RecordApprise, ReadSubscriptions, Push, RecordResult, RecordFailure, Crash,
       RejectRecord
  <2>. QED BY <1>1, <2>1
<1>. QED BY <1>2, <1>3, <1>4

LEMMA EnvironmentRows ==
  ASSUME Types, (\E d \in Deliveries : Elapse(d)) \/ Administer
  PROVE  /\ UNCHANGED <<pc, job, batch, sent, lost>>
         /\ \A d \in Deliveries :
              \/ delivery'[d] = "NONE"
              \/ delivery'[d] = delivery[d] /\ (Deleted(d)' => Deleted(d))
<1>1. UNCHANGED <<pc, job, batch, sent, lost>>
  BY DEF Elapse, Administer, UpdateChannel, DeleteChannel, RegisterDevice, RemoveDevice,
     RemoveUser, local
<1>2. CASE (\E d \in Deliveries : Elapse(d))
  BY <1>1, <1>2 DEF Elapse, Deleted, configuration
<1>3. ASSUME NEW c \in Channels, NEW enabled \in BOOLEAN, NEW users,
             UpdateChannel(c, enabled, users), NEW d \in Deliveries
      PROVE  delivery'[d] = delivery[d] /\ (Deleted(d)' => Deleted(d))
  BY <1>3 DEF UpdateChannel, Deleted, Types, TypeOK
<1>4. ASSUME NEW c \in Channels, DeleteChannel(c), NEW d \in Deliveries
      PROVE  \/ delivery'[d] = "NONE"
             \/ delivery'[d] = delivery[d] /\ (Deleted(d)' => Deleted(d))
  BY <1>4 DEF DeleteChannel, Deleted, Types, TypeOK
<1>5. CASE UNCHANGED <<channel, delivery>>
  BY <1>1, <1>5 DEF Deleted
<1>. QED BY <1>1, <1>2, <1>3, <1>4, <1>5
     DEF Administer, RegisterDevice, RemoveDevice, RemoveUser, configuration

LEMMA ShapeStep == Types /\ Types' /\ Shape /\ [Next]_vars => Shape'
<1> SUFFICES ASSUME Types, Types', Shape, [Next]_vars PROVE Shape'
  OBVIOUS
<1>1. ASSUME NEW w \in Deliverers, Emit(w) \/ Work(w) \/ Crash(w) \/ RejectRecord(w)
      PROVE  Shape'
  <2>1. PICK p, j, B : Moves(w, p, j, B) /\ Fits(p, j, B)
    BY <1>1, DelivererSound DEF Sound
  <2>2. \A v \in Deliverers : Fits(pc'[v], job'[v], batch'[v])
    BY <2>1, MovesAlone DEF Shape
  <2>3. ASSUME NEW d \in Deliveries, Exists(d)' PROVE ~Deleted(d)'
    <3>1. Exists(d) \/ ~Deleted(d)
      BY <1>1, <2>3, DelivererRows, ZenonT(60) DEF Exists, Types, TypeOK
    <3>. QED BY <1>1, <3>1, DelivererRows DEF Shape, Deleted
  <2>. QED BY <2>2, <2>3 DEF Shape, Fits
<1>2. CASE (\E d \in Deliveries : Elapse(d)) \/ Administer
  BY <1>2, EnvironmentRows DEF Shape, Fits, Exists
<1>3. CASE UNCHANGED vars
  BY <1>3 DEF vars, local, configuration, Shape, Fits, Exists, Deleted
<1>. QED BY <1>1, <1>2, <1>3 DEF Next

LEMMA BalanceStep == Types /\ Types' /\ Shape /\ Balance /\ [Next]_vars => Balance'
<1> SUFFICES ASSUME Types, Types', Shape, Balance, [Next]_vars PROVE Balance'
  OBVIOUS
<1>1. ASSUME NEW w \in Deliverers, Emit(w) \/ Work(w) \/ Crash(w) \/ RejectRecord(w)
      PROVE  Balance'
  BY <1>1, DelivererSound, SoundBalance
<1>2. ASSUME Lasts, UNCHANGED <<pc, job, batch, sent, lost>>
      PROVE  Balance'
  <2> SUFFICES ASSUME NEW d \in Deliveries, NEW t \in Targets
               PROVE  sent'[d][t] <= lost' + Cardinality({v \in Deliverers : Spent(v, d, t)'})
    BY DEF Balance
  <2>. DEFINE Q == {v \in Deliverers : Spent(v, d, t)}
              R == {v \in Deliverers : Spent(v, d, t)'}
  <2>1. Q \subseteq R
    BY <1>2, SpentStays
  <2>2. /\ IsFiniteSet(R) /\ Cardinality(Q) <= Cardinality(R)
        /\ Cardinality(Q) \in Nat /\ Cardinality(R) \in Nat
    <3>1. IsFiniteSet(R) /\ IsFiniteSet(Q)
      BY FiniteDeliverers
    <3>. HIDE DEF Q, R
    <3>. QED BY <2>1, <3>1, FS_Subset, FS_CardinalityType
  <2>3. sent[d][t] <= lost + Cardinality(Q)
    BY DEF Balance
  <2>4. sent[d][t] \in Nat /\ lost \in Nat /\ sent' = sent /\ lost' = lost
    BY <1>2 DEF Types, TypeOK
  <2>. HIDE DEF Q, R
  <2>5. sent'[d][t] <= lost' + Cardinality(R)
    BY <2>2, <2>3, <2>4
  <2>. QED BY <2>5 DEF R
<1>3. CASE (\E d \in Deliveries : Elapse(d)) \/ Administer
  BY <1>2, <1>3, EnvironmentLasts, EnvironmentRows
<1>4. CASE UNCHANGED vars
  BY <1>2, <1>4, GrowthLasts DEF vars, local, configuration
<1>. QED BY <1>1, <1>3, <1>4 DEF Next

LEMMA ShapeInit == Init => Shape
<1> SUFFICES ASSUME Init PROVE Shape
  OBVIOUS
<1>1. \A w \in Deliverers : Fits("idle", job[w], {})
  BY DEF Fits, JobPhases
<1>2. \A w \in Deliverers : Fits(pc[w], job[w], batch[w])
  BY <1>1 DEF Init
<1>. QED BY <1>2 DEF Init, Shape, Exists

LEMMA BalanceInit == Init => Balance
<1> SUFFICES ASSUME Init PROVE Balance
  OBVIOUS
<1> SUFFICES ASSUME NEW d \in Deliveries, NEW t \in Targets
             PROVE  sent[d][t] <= lost + Cardinality({w \in Deliverers : Spent(w, d, t)})
  BY DEF Balance
<1>. DEFINE Q == {w \in Deliverers : Spent(w, d, t)}
<1>1. sent[d][t] = 0 /\ lost = 0
  BY DEF Init
<1>2. Cardinality(Q) \in Nat
  BY FiniteDeliverers, FS_CardinalityType
<1>. HIDE DEF Q
<1>3. sent[d][t] <= lost + Cardinality(Q)
  BY <1>1, <1>2
<1>. QED BY <1>3 DEF Q

LEMMA BalanceHolds == Spec => [](Types /\ Shape /\ Balance)
<1>1. Init => Types /\ Shape /\ Balance
  BY TypesInit, ShapeInit, BalanceInit
<1>2. Types /\ Shape /\ Balance /\ [Next]_vars => (Types /\ Shape /\ Balance)'
  BY TypesStep, ShapeStep, BalanceStep
<1>. QED BY <1>1, <1>2, PTL DEF Spec

\* However many deliverers overlap, fail and are started again, and whatever
\* administrators and users change meanwhile, nobody is notified of a delivery more
\* often than there are deliverers, plus once for each success that no attempt records:
\* sending again is only due to what overlaps or was lost.
THEOREM DuplicatesAreBoundedHolds == Spec => []DuplicatesAreBounded
<1>1. Types /\ Balance => DuplicatesAreBounded
  <2> SUFFICES ASSUME Types, Balance, NEW d \in Deliveries, NEW t \in Targets
               PROVE  sent[d][t] <= Cardinality(Deliverers) + lost
    BY DEF DuplicatesAreBounded
  <2>. DEFINE Q == {w \in Deliverers : Spent(w, d, t)}
  <2>1. /\ Cardinality(Q) <= Cardinality(Deliverers)
        /\ Cardinality(Q) \in Nat /\ Cardinality(Deliverers) \in Nat
    BY FiniteDeliverers, FS_CardinalityType
  <2>2. sent[d][t] <= lost + Cardinality(Q) /\ sent[d][t] \in Nat /\ lost \in Nat
    BY DEF Balance, Types, TypeOK
  <2>. HIDE DEF Q
  <2>. QED BY <2>1, <2>2
<1>. QED BY <1>1, BalanceHolds, PTL

-----------------------------------------------------------------------------
(* What is settled is written again only by who had read it before. *)

Reopens ==
  \A d \in Deliveries : delivery[d] \in {"DELIVERED", "FAILED"} =>
    /\ \A w \in Deliverers : Holds(w, d)' => Holds(w, d)
    /\ \/ delivery'[d] \in {delivery[d], "NONE"}
       \/ \E w \in Deliverers : Holds(w, d) /\ ~Holds(w, d)'

LEMMA HoldsAlike ==
  ASSUME NEW w \in Deliverers, NEW d, pc'[w] = pc[w], job'[w] = job[w],
         batch'[w] = batch[w]
  PROVE  Holds(w, d)' <=> Holds(w, d)
BY DEF Holds

LEMMA HoldsPhases ==
  ASSUME Types, NEW w \in Deliverers, NEW d
  PROVE  Holds(w, d) <=> \/ \E s \in batch[w] : s.delivery = d
                         \/ pc[w] \in JobPhases /\ job[w].row.delivery = d
BY DEF Holds, Types, TypeOK, JobPhases

LEMMA ReopensStep ==
  ASSUME Types, Types', Shape, [Next]_vars
  PROVE  Reopens
<1>1. ASSUME UNCHANGED <<pc, job, batch>>,
             \A d \in Deliveries : delivery'[d] \in {delivery[d], "NONE"}
      PROVE  Reopens
  BY <1>1, HoldsAlike DEF Reopens
<1>2. ASSUME NEW w \in Deliverers, Emit(w) \/ Work(w) \/ Crash(w) \/ RejectRecord(w)
      PROVE  Reopens
  <2>1. PICK p, j, B : Moves(w, p, j, B) /\ Origin(w, p, j, B)
    BY <1>2, DelivererSound DEF Sound
  <2>2. /\ pc'[w] = p /\ job'[w] = j /\ batch'[w] = B
        /\ \A v \in Deliverers \ {w} :
             pc'[v] = pc[v] /\ job'[v] = job[v] /\ batch'[v] = batch[v]
    BY <2>1, MovesAlone
  <2>3. ASSUME NEW d \in Deliveries, delivery[d] \in {"DELIVERED", "FAILED"},
               NEW v \in Deliverers, Holds(v, d)'
        PROVE  Holds(v, d)
    <3>1. CASE v # w
      BY <2>2, <2>3, <3>1, HoldsAlike
    <3>2. CASE v = w
      <4>1. \/ \E s \in B : s.delivery = d
            \/ p \in JobPhases /\ j.row.delivery = d
        BY <2>2, <2>3, <3>2 DEF Holds, Types, TypeOK, JobPhases
      <4>2. \/ \E s \in batch[w] : s.delivery = d
            \/ pc[w] \in JobPhases /\ job[w].row.delivery = d
        BY <2>1, <2>3, <4>1 DEF Origin
      <4>. QED BY <3>2, <4>2, HoldsPhases
    <3>. QED BY <3>1, <3>2
  <2>4. CASE \A d \in Deliveries :
               delivery'[d] = delivery[d] \/ (~Exists(d) /\ delivery'[d] = "PENDING")
    BY <2>3, <2>4 DEF Reopens, Exists
  <2>5. CASE /\ pc[w] = "finishing" /\ Leave(w) /\ UNCHANGED batch
             /\ delivery' = [delivery EXCEPT ![job[w].row.delivery] = Outcome(job[w])]
    <3>1. ASSUME NEW e, e = job[w].row.delivery
          PROVE  Holds(w, e) /\ ~Holds(w, e)'
      <4>1. pc'[w] \in {"idle", "delivering"} /\ batch'[w] = batch[w]
        BY <2>5 DEF Leave, Go, Types, TypeOK
      <4>2. \A s \in batch[w] : s.delivery # e
        BY <2>5, <3>1 DEF Shape, Fits, JobPhases
      <4>3. ~Holds(w, e)'
        BY <4>1, <4>2 DEF Holds
      <4>4. Holds(w, e)
        BY <2>5, <3>1 DEF Holds
      <4>. QED BY <4>3, <4>4
    <3>2. \A d \in Deliveries : d # job[w].row.delivery => delivery'[d] = delivery[d]
      BY <2>5 DEF Types, TypeOK
    <3>. QED BY <2>3, <3>1, <3>2 DEF Reopens
  <2>. QED BY <1>2, <2>4, <2>5, DelivererRows DEF Finish
<1>3. CASE (\E d \in Deliveries : Elapse(d)) \/ Administer
  BY <1>1, <1>3, EnvironmentRows
<1>4. CASE UNCHANGED vars
  BY <1>1, <1>4 DEF vars, local
<1>. QED BY <1>2, <1>3, <1>4 DEF Next

\* A delivered or abandoned row is taken up by nobody, and only an invocation that had
\* read it before it was settled, and is done with it then, changes its status: overlap
\* is the only way a settled notification is reopened, and each invocation that was
\* under way when it was settled can reopen it once.
THEOREM OnlyOverlapReopensHolds == Spec => OnlyOverlapReopens
<1>1. Types /\ Types' /\ Shape /\ [Next]_vars => [Reopens]_vars
  BY ReopensStep
<1>2. [Reopens]_vars <=> [\A d \in Deliveries : delivery[d] \in {"DELIVERED", "FAILED"} =>
         /\ \A w \in Deliverers : Holds(w, d)' => Holds(w, d)
         /\ \/ delivery'[d] \in {delivery[d], "NONE"}
            \/ \E w \in Deliverers : Holds(w, d) /\ ~Holds(w, d)' ]_vars
  BY DEF Reopens
<1>. QED BY <1>1, <1>2, BalanceHolds, PTL DEF Spec, OnlyOverlapReopens
=============================================================================
