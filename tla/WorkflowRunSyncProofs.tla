------------------------ MODULE WorkflowRunSyncProofs ------------------------
(***************************************************************************)
(* For any runs, workflows, stamps, clocks, changes and faults: the cursor *)
(* and the refreshed runs together see every change, what is stored is     *)
(* announced, a recovery follows a failure that was told or stored, and a  *)
(* synchronization that completes leaves the aggregate of its runs.        *)
(***************************************************************************)
EXTENDS WorkflowRunSync, FiniteSetTheorems, SequenceTheorems, TLAPS

USE WorkflowRunConstants

-----------------------------------------------------------------------------
(* The inductive invariant. *)

Present == {"RUNNING", "SUCCESS", "FAILED", "CANCELLED"}
Stages  == {"idle", "listing", "working", "announcing", "aggregating", "finishing"}
Remote  == [status: Present \cup {"ABSENT", "GONE"}, created: Int, stamp: Int]
Row     == [status: Present \cup {"ABSENT", "UNKNOWN"}, created: Int, linked: BOOLEAN]
Entries == Runs \X Present
Sync    == [started: Nat, cursor: Nat \cup {NoCursor}, refresh: SUBSET Runs,
            queue: Seq(Entries), run: Runs \cup {0}, then: {"working", "finishing"}]

TypeOK ==
  /\ clock \in Nat
  /\ remote \in [Runs -> Remote]
  /\ row \in [Runs -> Row]
  /\ cursor \in Nat \cup {NoCursor}
  /\ pc \in Stages /\ sync \in Sync
  /\ interrupted \in BOOLEAN

\* The listing is over: the runs to store are queued or to be fetched.
Busy == pc \notin {"idle", "listing"}

Queued == Range(sync.queue)

\* The cursor of a synchronization is the stored one and lies behind its start;
\* it finishes when nothing is left, and announces what is stored.
Order ==
  /\ cursor # NoCursor => cursor <= clock
  /\ pc # "idle" =>
       /\ sync.cursor = cursor /\ sync.started <= clock
       /\ cursor # NoCursor => cursor <= sync.started
  /\ Busy /\ "finishing" \in {pc, sync.then} => sync.queue = <<>> /\ sync.refresh = {}
  /\ pc = "listing" => sync.then = "working"
  /\ pc = "announcing" => sync.run \in Runs /\ Known(sync.run)

\* What is stored, queued or to be fetched was started at the provider.
Real ==
  /\ \A r \in Runs : row[r].status # "ABSENT" => remote[r].status # "ABSENT"
  /\ Busy => /\ \A r \in sync.refresh : remote[r].status # "ABSENT"
             /\ \A e \in Queued : remote[e[1]].status # "ABSENT"

\* The runs a listing may be expected to tell of.
Seen == {r \in Runs \ missed : Exists(r)}

\* The status is the provider's, or was before a change that the next listing or the
\* next refresh of active runs will see.
Fits(r, status) ==
  \/ status = remote[r].status
  \/ r \in moved /\ (remote[r].stamp >= sync.started \/ status = "RUNNING")

Pending(r) == r \in sync.refresh \/ \E e \in Queued : e[1] = r

\* CursorCoversRuns, for the stored cursor and, once the listing is over, for the time
\* at which the synchronization started.
Coverage ==
  /\ moved \subseteq ahead
  /\ CursorCoversRuns
  /\ cursor # NoCursor =>
       \A r \in Seen : \/ row[r].status \in {remote[r].status, "RUNNING"}
                       \/ remote[r].stamp >= cursor
  /\ Busy => /\ \A r \in Seen : Pending(r) \/ Fits(r, row[r].status)
             /\ \A e \in Queued : e[1] \in Seen => Fits(e[1], e[2])

\* The runs that AssociateRuns links.
Loose == {r \in Runs : Known(r) /\ ~row[r].linked}

\* Where no aggregate is due, it is current or a run is left for AssociateRuns.
Aggregates ==
  /\ AggregateIsCurrent
  /\ pc \in {"idle", "listing", "working"} /\ ~interrupted =>
       workflowStatus = Aggregate \/ Loose # {}

Invariant ==
  TypeOK /\ Order /\ Real /\ Coverage /\ Aggregates /\ OutcomesAreAnnounced

-----------------------------------------------------------------------------
(* Queues. *)

LEMMA QueueEmpty == Range(<<>>) = {}
BY DEF Range

LEMMA QueueElements ==
  ASSUME NEW S, NEW q \in Seq(S)
  PROVE  Range(q) \subseteq S
BY DEF Range

LEMMA QueueHead ==
  ASSUME NEW S, NEW q \in Seq(S), q # <<>>
  PROVE  /\ Head(q) \in S /\ Tail(q) \in Seq(S)
         /\ Range(q) = Range(Tail(q)) \cup {Head(q)}
<1>1. /\ Head(q) \in S /\ Tail(q) \in Seq(S) /\ Head(q) = q[1] /\ Len(q) \in Nat \ {0}
      /\ Len(Tail(q)) = Len(q) - 1
      /\ \A i \in 1 .. Len(q) - 1 : Tail(q)[i] = q[i + 1]
  OBVIOUS
<1>2. DOMAIN q = 1 .. Len(q) /\ DOMAIN Tail(q) = 1 .. Len(q) - 1
  BY <1>1
<1>3. ASSUME NEW i \in 1 .. Len(q)
      PROVE  q[i] = Head(q) \/ q[i] \in Range(Tail(q))
  <2>1. CASE i = 1
    BY <1>1, <2>1
  <2>2. CASE i # 1
    <3>1. i - 1 \in 1 .. Len(q) - 1 /\ Tail(q)[i - 1] = q[i]
      BY <1>1, <2>2
    <3>. QED BY <1>2, <3>1 DEF Range
  <2>. QED BY <2>1, <2>2
<1>4. ASSUME NEW i \in 1 .. Len(q) - 1
      PROVE  Tail(q)[i] \in Range(q)
  <2>1. i + 1 \in 1 .. Len(q) /\ Tail(q)[i] = q[i + 1]
    BY <1>1
  <2>. QED BY <1>2, <2>1 DEF Range
<1>5. Head(q) \in Range(q)
  BY <1>1, <1>2 DEF Range
<1>6. Range(q) \subseteq Range(Tail(q)) \cup {Head(q)}
  BY <1>2, <1>3 DEF Range
<1>7. Range(Tail(q)) \subseteq Range(q)
  BY <1>2, <1>4 DEF Range
<1>. QED BY <1>1, <1>5, <1>6, <1>7

LEMMA QueueAppend ==
  ASSUME NEW S, NEW q \in Seq(S), NEW e \in S
  PROVE  /\ Append(q, e) \in Seq(S)
         /\ Range(Append(q, e)) = Range(q) \cup {e}
<1>1. /\ Append(q, e) \in Seq(S) /\ Len(q) \in Nat
      /\ Len(Append(q, e)) = Len(q) + 1
      /\ \A i \in 1 .. Len(q) : Append(q, e)[i] = q[i]
      /\ Append(q, e)[Len(q) + 1] = e
  OBVIOUS
<1>2. DOMAIN q = 1 .. Len(q) /\ DOMAIN Append(q, e) = 1 .. Len(q) + 1
  BY <1>1
<1>3. ASSUME NEW i \in 1 .. Len(q) + 1
      PROVE  Append(q, e)[i] = e \/ Append(q, e)[i] \in Range(q)
  BY <1>1, <1>2 DEF Range
<1>4. Range(Append(q, e)) \subseteq Range(q) \cup {e}
  BY <1>2, <1>3 DEF Range
<1>5. ASSUME NEW i \in 1 .. Len(q)
      PROVE  q[i] \in Range(Append(q, e))
  <2>1. i \in 1 .. Len(q) + 1 /\ q[i] = Append(q, e)[i]
    BY <1>1
  <2>. QED BY <1>2, <2>1 DEF Range
<1>6. e \in Range(Append(q, e))
  <2>1. Len(q) + 1 \in 1 .. Len(q) + 1
    BY <1>1
  <2>. QED BY <1>1, <1>2, <2>1 DEF Range
<1>. QED BY <1>1, <1>2, <1>4, <1>5, <1>6 DEF Range

\* A listing in any order is one of all the runs it is of.
LEMMA QueueListed ==
  ASSUME TypeOK, NEW runs \in SetToSeqs(Listed)
  PROVE  LET q == [i \in DOMAIN runs |-> <<runs[i], remote[runs[i]].status>>] IN
         /\ q \in Seq(Entries)
         /\ Range(q) = {<<r, remote[r].status>> : r \in Listed}
<1>. DEFINE n == Cardinality(Listed)
            q == [i \in DOMAIN runs |-> <<runs[i], remote[runs[i]].status>>]
<1>1. Listed \subseteq Runs /\ IsFiniteSet(Listed)
  <2>1. Listed \subseteq Runs
    BY DEF Listed
  <2>. QED BY <2>1, FS_Subset
<1>2. n \in Nat
  BY <1>1, FS_CardinalityType
<1>3. /\ runs \in [1 .. n -> Listed]
      /\ \A i, j \in 1 .. n : i # j => runs[i] # runs[j]
  BY DEF SetToSeqs
<1>4. \A r \in Listed : \E i \in 1 .. n : runs[i] = r
  <2>. HIDE DEF n
  <2>1. runs \in Injection(1 .. n, Listed)
    BY <1>3 DEF Injection, IsInjective
  <2>2. IsFiniteSet(1 .. n) /\ Cardinality(1 .. n) = n
    <3>1. /\ IsFiniteSet(1 .. n)
          /\ Cardinality(1 .. n) = IF 1 > n THEN 0 ELSE n - 1 + 1
      <4>1. 1 \in Int /\ n \in Int
        BY <1>2
      <4>. QED BY ONLY <4>1, FS_Interval
    <3>. QED BY <1>2, <3>1
  <2>3. runs \in Surjection(1 .. n, Listed)
    BY <1>1, <2>1, <2>2, FS_Injection DEF n
  <2>. QED BY <2>3 DEF Surjection
<1>5. \A r \in Listed : <<r, remote[r].status>> \in Entries
  BY <1>1 DEF Listed, TypeOK, Remote, Present, Entries
<1>. HIDE DEF n
<1>6. DOMAIN q = 1 .. n /\ \A i \in 1 .. n : q[i] = <<runs[i], remote[runs[i]].status>>
  BY <1>3
<1>7. q \in [1 .. n -> Entries]
  BY <1>3, <1>5
<1>8. q \in Seq(Entries)
  BY <1>2, <1>7
<1>. HIDE DEF q
<1>9. Range(q) = {<<r, remote[r].status>> : r \in Listed}
  <2>1. \A i \in 1 .. n : q[i] \in {<<r, remote[r].status>> : r \in Listed}
    BY <1>3, <1>6
  <2>2. \A r \in Listed : \E i \in 1 .. n : q[i] = <<r, remote[r].status>>
    BY <1>4, <1>6
  <2>3. Range(q) = {q[i] : i \in 1 .. n}
    BY <1>6 DEF Range
  <2>. QED BY <2>1, <2>2, <2>3
<1>. QED BY <1>8, <1>9 DEF q

\* The aggregate is of the rows and nothing else.
LEMMA AggregateKept ==
  ASSUME UNCHANGED row
  PROVE  Aggregate' = Aggregate /\ Loose' = Loose
<1>1. \A r \in Runs : Known(r)' = Known(r)
  BY DEF Known
<1>2. Current' = Current
  BY DEF Current, Known, SameContext, Newer
<1>. QED BY <1>1, <1>2 DEF Aggregate, Loose
-----------------------------------------------------------------------------
(* The initial states. *)

LEMMA NoSyncType == NoSync \in Sync /\ NoSync.then = "working"
BY DEF NoSync, Sync

LEMMA InitInvariant == Init => Invariant
<1> SUFFICES ASSUME Init PROVE Invariant
  OBVIOUS
<1>1. TypeOK
  <2>1. NoSync \in Sync
    BY NoSyncType
  <2>2. remote \in [Runs -> Remote]
    BY DEF Init, Remote, Present
  <2>3. row \in [Runs -> Row]
    BY DEF Init, Row, NoRow
  <2>. QED BY <2>1, <2>2, <2>3 DEF Init, TypeOK, Stages
<1>2. \A r \in Runs : row[r].status = "ABSENT" /\ ~Known(r)
  BY DEF Init, NoRow, Known
<1>3. Order /\ Real
  BY <1>2 DEF Init, Order, Real, Busy
<1>4. Coverage
  BY DEF Init, Coverage, CursorCoversRuns, Busy
<1>5. Aggregates
  <2>1. Current = {}
    BY <1>2 DEF Current
  <2>2. Aggregate = "UNKNOWN"
    BY <2>1 DEF Aggregate
  <2>. QED BY <2>2 DEF Init, Aggregates, AggregateIsCurrent
<1>6. OutcomesAreAnnounced
  BY <1>2 DEF OutcomesAreAnnounced
<1>. QED BY <1>1, <1>3, <1>4, <1>5, <1>6 DEF Invariant

-----------------------------------------------------------------------------
(* The provider. *)

LEMMA TickInvariant == Invariant /\ Tick => Invariant'
<1> SUFFICES ASSUME Invariant, Tick PROVE Invariant'
  OBVIOUS
<1>1. /\ clock' = clock + 1
      /\ UNCHANGED <<query, remote, changes, missed, row, workflowStatus, cursor, announced,
                     pc, sync, unsaid, interrupted, moved, ahead>>
  BY DEF Tick, stored, history, recency
<1>2. Aggregate' = Aggregate /\ Loose' = Loose
  BY <1>1, AggregateKept
<1>3. TypeOK'
  BY <1>1 DEF Invariant, TypeOK
<1>4. Order'
  BY <1>1 DEF Invariant, TypeOK, Order, Busy, Known, Sync
<1>5. Real' /\ Coverage'
  BY <1>1 DEF Invariant, Real, Coverage, CursorCoversRuns, Busy, Queued, Pending, Fits,
              Seen, Exists
<1>6. Aggregates' /\ OutcomesAreAnnounced'
  BY <1>1, <1>2 DEF Invariant, Aggregates, AggregateIsCurrent, OutcomesAreAnnounced
<1>. QED BY <1>3, <1>4, <1>5, <1>6 DEF Invariant

\* A change that is seen has a stamp in the next listing's window, unless the run was
\* active before.
LEMMA AlterInvariant ==
  ASSUME Invariant, NEW r \in Runs, NEW v \in Remote, NEW out \in BOOLEAN, Alter(r, v, out),
         v.status # "ABSENT",
         \/ v.status = "GONE"
         \/ out = Escapes(v.stamp)
         \/ remote[r].status = "RUNNING" /\ v.stamp >= remote[r].stamp
  PROVE  Invariant'
<1>1. /\ remote' = [remote EXCEPT ![r] = v]
      /\ moved' = moved \cup {r} /\ ahead' = ahead \cup {r}
      /\ missed' = IF out THEN missed \cup {r} ELSE missed
      /\ UNCHANGED <<query, clock, row, workflowStatus, cursor, announced, pc, sync,
                     unsaid, interrupted>>
  BY DEF Alter, stored, history
<1>2. Aggregate' = Aggregate /\ Loose' = Loose
  BY <1>1, AggregateKept
<1>3. TypeOK'
  BY <1>1 DEF Invariant, TypeOK
<1>4. Order'
  BY <1>1 DEF Invariant, Order, Busy, Known
<1>5. /\ remote'[r] = v
      /\ \A q \in Runs \ {r} : remote'[q] = remote[q]
  BY <1>1 DEF Invariant, TypeOK
<1>6. Busy => sync.refresh \subseteq Runs /\ \A e \in Queued : e[1] \in Runs
  BY QueueElements DEF Invariant, TypeOK, Sync, Queued, Entries
<1>7. Real'
  BY <1>1, <1>5, <1>6 DEF Invariant, Real, Busy, Queued
<1>8. \A q \in Seen' : q # r => q \in Seen
  BY <1>1, <1>5 DEF Seen, Exists
<1>9. ASSUME r \in Seen'
      PROVE  \/ /\ cursor # NoCursor => v.stamp >= cursor
                /\ Busy => v.stamp >= sync.started
             \/ remote[r].status = "RUNNING" /\ v.stamp >= remote[r].stamp /\ r \in Seen
  <2>1. v.status # "GONE" /\ ~out /\ r \notin missed
    BY <1>1, <1>5, <1>9 DEF Seen, Exists
  <2>2. CASE remote[r].status = "RUNNING" /\ v.stamp >= remote[r].stamp
    BY <2>1, <2>2 DEF Seen, Exists
  <2>3. CASE ~Escapes(v.stamp)
    <3>1. WindowStart # NoCursor => v.stamp >= WindowStart
      BY <2>3 DEF Escapes, WindowStart, Invariant, TypeOK, Sync, Remote
    <3>2. CASE Busy
      BY <3>1, <3>2, SMTT(60) DEF WindowStart, Busy, Invariant, TypeOK, Sync, Remote, Order
    <3>3. CASE ~Busy
      BY <3>1, <3>3 DEF WindowStart, Busy
    <3>. QED BY <3>2, <3>3
  <2>. QED BY <2>1, <2>2, <2>3
<1>10. ASSUME r \in Seen', cursor # NoCursor
       PROVE  row[r].status \in {remote'[r].status, "RUNNING"} \/ remote'[r].stamp >= cursor
  BY <1>5, <1>9, <1>10 DEF Invariant, Coverage, TypeOK, Remote, Row
<1>11. ASSUME r \in Seen', Busy, NEW status, r \in Seen => Fits(r, status)
       PROVE  Fits(r, status)'
  <2>1. /\ remote[r].stamp \in Int /\ v.stamp \in Int /\ sync.started \in Int
        /\ r \in moved' /\ sync' = sync
    BY <1>1 DEF Invariant, TypeOK, Remote, Sync
  <2>2. CASE v.stamp >= sync.started
    BY <1>5, <2>1, <2>2 DEF Fits
  <2>3. CASE remote[r].status = "RUNNING" /\ v.stamp >= remote[r].stamp /\ r \in Seen
    <3>1. status = "RUNNING" \/ remote[r].stamp >= sync.started
      BY <1>11, <2>3 DEF Fits
    <3>. QED BY <1>5, <2>1, <2>3, <3>1 DEF Fits
  <2>. QED BY <1>9, <1>11, <2>2, <2>3
<1>12. ASSUME NEW q \in Runs \ {r}, NEW status
       PROVE  Fits(q, status)' <=> Fits(q, status)
  BY <1>1, <1>5 DEF Fits
<1>13. Coverage'
  <2>1. (moved \subseteq ahead)'
    BY <1>1 DEF Invariant, Coverage
  <2>2. CursorCoversRuns'
    BY <1>1, <1>5 DEF Invariant, Coverage, CursorCoversRuns, Exists
  <2>3. (cursor # NoCursor =>
           \A q \in Seen : row[q].status \in {remote[q].status, "RUNNING"}
                         \/ remote[q].stamp >= cursor)'
    BY <1>1, <1>5, <1>8, <1>10 DEF Invariant, Coverage, Seen
  <2>4. ASSUME Busy'
        PROVE  (\A q \in Seen : Pending(q) \/ Fits(q, row[q].status))'
    <3>. SUFFICES ASSUME NEW q \in Seen', ~Pending(q)' PROVE Fits(q, row[q].status)'
      OBVIOUS
    <3>1. Busy /\ ~Pending(q)
      BY <1>1, <2>4 DEF Busy, Pending, Queued
    <3>2. q \in Seen => Fits(q, row[q].status)
      BY <3>1 DEF Invariant, Coverage
    <3>3. CASE q = r
      <4>1. Fits(r, row[r].status)'
        BY <1>1, <1>11, <3>1, <3>2, <3>3 DEF Fits
      <4>. QED BY <3>3, <4>1
    <3>4. CASE q # r
      <4>1. q \in Runs \ {r} /\ q \in Seen
        BY <1>8, <3>4 DEF Seen
      <4>. QED BY <1>1, <1>12, <3>2, <4>1 DEF Fits
    <3>. QED BY <3>3, <3>4
  <2>5. ASSUME Busy', NEW e \in Queued', e[1] \in Seen'
        PROVE  Fits(e[1], e[2])'
    <3>1. Busy /\ e \in Queued
      BY <1>1, <2>5 DEF Busy, Queued
    <3>2. e[1] \in Seen => Fits(e[1], e[2])
      BY <3>1 DEF Invariant, Coverage
    <3>3. CASE e[1] = r
      BY <1>11, <2>5, <3>1, <3>2, <3>3
    <3>4. CASE e[1] # r
      <4>1. e[1] \in Runs \ {r} /\ e[1] \in Seen
        BY <1>8, <2>5, <3>4 DEF Seen
      <4>. QED BY <1>12, <3>2, <4>1
    <3>. QED BY <3>3, <3>4
  <2>. QED BY <2>1, <2>2, <2>3, <2>4, <2>5 DEF Coverage
<1>14. Aggregates' /\ OutcomesAreAnnounced'
  BY <1>1, <1>2 DEF Invariant, Aggregates, AggregateIsCurrent, OutcomesAreAnnounced
<1>. QED BY <1>3, <1>4, <1>7, <1>13, <1>14 DEF Invariant

LEMMA ProviderInvariant == Invariant /\ Provider => Invariant'
<1> SUFFICES ASSUME Invariant, NEW r \in Runs,
                    \/ \E t \in clock - Skew .. clock : StartRun(r, t)
                    \/ \E t \in Times :
                         Rerun(r, t) \/ \E s \in Settled : ConcludeRun(r, s, t)
                    \/ DeleteRun(r)
             PROVE  Invariant'
  BY DEF Provider
<1>1. remote[r] \in Remote /\ clock \in Nat
  BY DEF Invariant, TypeOK
<1>2. ASSUME NEW t \in clock - Skew .. clock, StartRun(r, t)
      PROVE  Invariant'
  <2>. DEFINE v == [status |-> "RUNNING", created |-> t, stamp |-> t]
  <2>1. v \in Remote /\ v.status = "RUNNING" /\ v.stamp = t
    BY <1>1 DEF Remote, Present
  <2>2. Alter(r, v, Escapes(t)) /\ Escapes(t) \in BOOLEAN
    BY <1>2 DEF StartRun, Escapes
  <2>. HIDE DEF v
  <2>. QED BY <2>1, <2>2, AlterInvariant
<1>3. ASSUME NEW t \in Times, Rerun(r, t)
      PROVE  Invariant'
  <2>. DEFINE v == [remote[r] EXCEPT !.status = "RUNNING", !.stamp = t]
  <2>1. v \in Remote /\ v.status = "RUNNING" /\ v.stamp = t
    <3>1. t \in Int
      BY DEF Times
    <3>. QED BY <1>1, <3>1 DEF Remote, Present
  <2>2. Alter(r, v, Escapes(t)) /\ Escapes(t) \in BOOLEAN
    BY <1>3 DEF Rerun, Escapes
  <2>. HIDE DEF v
  <2>. QED BY <2>1, <2>2, AlterInvariant
<1>4. ASSUME NEW t \in Times, NEW s \in Settled, ConcludeRun(r, s, t)
      PROVE  Invariant'
  <2>. DEFINE v == [remote[r] EXCEPT !.status = s, !.stamp = t]
  <2>1. v \in Remote /\ v.status = s /\ v.stamp = t /\ s # "ABSENT"
    <3>1. t \in Int /\ s \in Present \ {"RUNNING"}
      BY DEF Times, Settled, Present
    <3>. QED BY <1>1, <3>1 DEF Remote, Present
  <2>2. Alter(r, v, FALSE) /\ remote[r].status = "RUNNING" /\ t >= remote[r].stamp
    BY <1>4 DEF ConcludeRun, Touched
  <2>. HIDE DEF v
  <2>. QED BY <2>1, <2>2, AlterInvariant
<1>5. CASE DeleteRun(r)
  <2>. DEFINE v == [remote[r] EXCEPT !.status = "GONE"]
  <2>1. v \in Remote /\ v.status = "GONE"
    BY <1>1 DEF Remote
  <2>2. Alter(r, v, FALSE)
    BY <1>5 DEF DeleteRun
  <2>. HIDE DEF v
  <2>. QED BY <2>1, <2>2, AlterInvariant
<1>. QED BY <1>2, <1>3, <1>4, <1>5

-----------------------------------------------------------------------------
(* The synchronization. *)

\* A step that leaves the rows, the queue and the histories alone.
LEMMA QuietInvariant ==
  ASSUME Invariant, NEW p \in Stages, NEW v \in Sync, Go(p, v),
         UNCHANGED <<clock, remote, missed, row, moved, ahead, cursor, unsaid>>,
         announced \subseteq announced',
         Busy, p \notin {"idle", "listing"},
         v.started = sync.started /\ v.cursor = sync.cursor /\ v.refresh = sync.refresh,
         v.queue = sync.queue,
         "finishing" \in {p, v.then} => "finishing" \in {pc, sync.then},
         p # "announcing",
         pc = "announcing" =>
           \E type \in IF row[sync.run].status = "FAILED" THEN {"FAILED"}
                                                          ELSE {"SUCCEEDED", "RECOVERED"} :
              <<sync.run, type>> \in announced',
         interrupted' \in BOOLEAN, Aggregates'
  PROVE  Invariant'
<1>1. pc' = p /\ sync' = v
  BY DEF Go
<1>2. TypeOK'
  BY <1>1 DEF Invariant, TypeOK
<1>3. Order'
  BY <1>1 DEF Invariant, Order, Busy, Stages, Known
<1>4. Queued' = Queued /\ Busy'
  BY <1>1 DEF Queued, Busy
<1>5. Real'
  BY <1>1, <1>4 DEF Invariant, Real, Busy
<1>6. Coverage'
  <2>1. \A r, s : Pending(r)' = Pending(r) /\ Fits(r, s)' = Fits(r, s)
    BY <1>1, <1>4 DEF Pending, Fits
  <2>2. Seen' = Seen
    BY DEF Seen, Exists
  <2>. QED BY <1>1, <1>4, <2>1, <2>2
           DEF Invariant, Coverage, CursorCoversRuns, Exists, Pending, Fits
<1>7. OutcomesAreAnnounced'
  BY <1>1 DEF Invariant, OutcomesAreAnnounced
<1>. QED BY <1>2, <1>3, <1>5, <1>6, <1>7 DEF Invariant

LEMMA BeginInvariant == Invariant /\ BeginSync => Invariant'
<1> SUFFICES ASSUME Invariant, BeginSync PROVE Invariant'
  OBVIOUS
<1>. DEFINE v == [NoSync EXCEPT !.started = clock, !.cursor = cursor]
<1>1. /\ pc = "idle" /\ pc' = "listing" /\ sync' = v /\ moved' = {}
      /\ UNCHANGED <<clock, remote, missed, row, workflowStatus, cursor, announced,
                     unsaid, interrupted, ahead>>
  BY DEF BeginSync, Go, provider, stored, history
<1>2. v \in Sync /\ v.started = clock /\ v.cursor = cursor /\ v.then = "working"
  BY NoSyncType DEF Invariant, TypeOK, Sync
<1>. HIDE DEF v
<1>3. TypeOK'
  BY <1>1, <1>2 DEF Invariant, TypeOK, Stages
<1>4. Order' /\ Real'
  BY <1>1, <1>2 DEF Invariant, TypeOK, Order, Real, Busy
<1>5. Coverage'
  BY <1>1 DEF Invariant, Coverage, CursorCoversRuns, Busy, Seen, Exists
<1>6. Aggregate' = Aggregate /\ Loose' = Loose
  BY <1>1, AggregateKept
<1>7. Aggregates' /\ OutcomesAreAnnounced'
  BY <1>1, <1>6 DEF Invariant, Aggregates, AggregateIsCurrent, OutcomesAreAnnounced
<1>. QED BY <1>3, <1>4, <1>5, <1>7 DEF Invariant

LEMMA ListInvariant == Invariant /\ ListRuns => Invariant'
<1> SUFFICES ASSUME Invariant, ListRuns PROVE Invariant'
  OBVIOUS
<1>1. PICK runs \in SetToSeqs(Listed) :
        Go("working", [sync EXCEPT
          !.queue   = [i \in DOMAIN runs |-> <<runs[i], remote[runs[i]].status>>],
          !.refresh = Refreshable \ Listed])
  BY DEF ListRuns
<1>. DEFINE q == [i \in DOMAIN runs |-> <<runs[i], remote[runs[i]].status>>]
            v == [sync EXCEPT !.queue = q, !.refresh = Refreshable \ Listed]
<1>2. q \in Seq(Entries) /\ Range(q) = {<<r, remote[r].status>> : r \in Listed}
  BY QueueListed DEF Invariant
<1>3. /\ pc = "listing" /\ pc' = "working" /\ sync' = v
      /\ UNCHANGED <<clock, remote, missed, row, workflowStatus, cursor, announced,
                     unsaid, interrupted, moved, ahead>>
  BY <1>1 DEF ListRuns, Go, provider, stored, history, recency
<1>. HIDE DEF q
<1>4. Refreshable \ Listed \subseteq Runs
  BY DEF Refreshable, Current
<1>5. /\ v \in Sync /\ v.queue = q /\ v.refresh = Refreshable \ Listed
      /\ v.started = sync.started /\ v.cursor = sync.cursor /\ v.then = sync.then
  BY <1>2, <1>4 DEF Invariant, TypeOK, Sync
<1>. HIDE DEF v
<1>6. TypeOK'
  BY <1>3, <1>5 DEF Invariant, TypeOK, Stages
<1>7. Order'
  BY <1>3, <1>5 DEF Invariant, Order, Busy
<1>8. Queued' = {<<r, remote[r].status>> : r \in Listed} /\ Busy'
  BY <1>2, <1>3, <1>5 DEF Queued, Busy
<1>9. Real'
  <2>1. \A r \in Refreshable : remote[r].status # "ABSENT"
    BY DEF Refreshable, Current, Invariant, Real
  <2>2. \A r \in Listed : remote[r].status # "ABSENT"
    BY DEF Listed
  <2>. QED BY <1>3, <1>5, <1>8, <2>1, <2>2 DEF Invariant, Real
<1>10. Coverage'
  <2>1. ASSUME NEW r \in Seen
        PROVE  Pending(r)' \/ Fits(r, row[r].status)'
    <3>1. CASE r \in Listed
      <4>1. <<r, remote[r].status>> \in Queued'
        BY <1>8, <3>1
      <4>. QED BY <4>1 DEF Pending
    <3>2. CASE r \notin Listed
      <4>1. cursor # NoCursor /\ ~(remote[r].stamp >= cursor)
        BY <1>3, <3>2 DEF Listed, Seen, Exists, Invariant, Order
      <4>2. row[r].status \in {remote[r].status, "RUNNING"}
        BY <4>1 DEF Invariant, Coverage
      <4>3. row[r].status = "RUNNING" => r \in sync'.refresh
        BY <1>3, <1>5, <3>2 DEF Refreshable, Seen
      <4>. QED BY <1>3, <4>2, <4>3 DEF Pending, Fits
    <3>. QED BY <3>1, <3>2
  <2>2. \A e \in Queued' : Fits(e[1], e[2])'
    BY <1>3, <1>8 DEF Fits
  <2>3. Seen' = Seen
    BY <1>3 DEF Seen, Exists
  <2>. QED BY <1>3, <2>1, <2>2, <2>3 DEF Invariant, Coverage, CursorCoversRuns, Exists, Fits
<1>11. Aggregate' = Aggregate /\ Loose' = Loose
  BY <1>3, AggregateKept
<1>12. Aggregates' /\ OutcomesAreAnnounced'
  BY <1>3, <1>11 DEF Invariant, Aggregates, AggregateIsCurrent, OutcomesAreAnnounced
<1>. QED BY <1>6, <1>7, <1>9, <1>10, <1>12 DEF Invariant

LEMMA LoseInvariant ==
  ASSUME Invariant, NEW r \in Runs, LoseRun(r)
  PROVE  Invariant'
<1>. DEFINE active == row[r].status = "RUNNING"
<1>1. PICK p \in {"working", "aggregating"}, v \in Sync :
        /\ Go(p, v)
        /\ v.queue = sync.queue /\ v.refresh = sync.refresh \ {r}
        /\ v.started = sync.started /\ v.cursor = sync.cursor /\ v.then = sync.then
        /\ p = "working" => ~active \/ ~row[r].linked
  <2>. DEFINE rest == [sync EXCEPT !.refresh = @ \ {r}]
              v    == [rest EXCEPT !.run = r]
  <2>1. sync \in Sync
    BY DEF Invariant, TypeOK
  <2>2. /\ rest \in Sync /\ rest.queue = sync.queue /\ rest.refresh = sync.refresh \ {r}
        /\ rest.started = sync.started /\ rest.cursor = sync.cursor /\ rest.then = sync.then
    BY <2>1 DEF Sync
  <2>. HIDE DEF rest
  <2>3. /\ v \in Sync /\ v.queue = rest.queue /\ v.refresh = rest.refresh
        /\ v.started = rest.started /\ v.cursor = rest.cursor /\ v.then = rest.then
    BY <2>2 DEF Sync
  <2>4. \/ Go("aggregating", v)
        \/ Go("working", rest) /\ (~active \/ ~row[r].linked)
    BY DEF LoseRun, rest
  <2>. HIDE DEF v
  <2>. QED BY <2>2, <2>3, <2>4
<1>2. /\ pc = "working" /\ r \in sync.refresh /\ remote[r].status = "GONE"
      /\ row' = IF active THEN [row EXCEPT ![r].status = "UNKNOWN"] ELSE row
      /\ UNCHANGED <<clock, remote, missed, workflowStatus, cursor, announced,
                     unsaid, interrupted, moved, ahead>>
  BY DEF LoseRun, provider, history, recency
<1>3. pc' = p /\ sync' = v
  BY <1>1 DEF Go
<1>4. /\ row' \in [Runs -> Row]
      /\ \A q \in Runs \ {r} : row'[q] = row[q]
      /\ row'[r].status = IF active THEN "UNKNOWN" ELSE row[r].status
      /\ row'[r].linked = row[r].linked
  BY <1>2 DEF Invariant, TypeOK, Row
<1>5. TypeOK'
  BY <1>1, <1>2, <1>3, <1>4 DEF Invariant, TypeOK, Stages
<1>6. Order'
  BY <1>1, <1>2, <1>3 DEF Invariant, Order, Busy
<1>7. Queued' = Queued /\ Busy /\ Busy'
  BY <1>1, <1>2, <1>3 DEF Queued, Busy
<1>8. Real'
  BY <1>1, <1>2, <1>3, <1>4, <1>7 DEF Invariant, Real
<1>9. Coverage'
  <2>1. Seen' = Seen /\ r \notin Seen /\ ~Exists(r)
    BY <1>2 DEF Seen, Exists
  <2>2. \A q \in Seen : Pending(q)' = Pending(q) /\ row'[q] = row[q]
    BY <1>1, <1>3, <1>4, <1>7, <2>1 DEF Pending, Seen
  <2>3. \A q, s : Fits(q, s)' = Fits(q, s)
    BY <1>1, <1>2, <1>3 DEF Fits
  <2>4. \A q \in Seen : (Pending(q) \/ Fits(q, row[q].status))'
    BY <1>1, <1>2, <1>3, <1>7, <2>2 DEF Invariant, Coverage, Fits
  <2>5. CursorCoversRuns'
    BY <1>2, <1>4, <2>1 DEF Invariant, Coverage, CursorCoversRuns, Exists
  <2>. QED BY <1>2, <1>7, <2>1, <2>2, <2>3, <2>4, <2>5 DEF Invariant, Coverage
<1>10. Aggregates'
  <2>1. CASE ~active
    <3>1. Aggregate' = Aggregate /\ Loose' = Loose
      BY <1>2, <2>1, AggregateKept
    <3>. QED BY <1>2, <1>3, <3>1 DEF Invariant, Aggregates, AggregateIsCurrent
  <2>2. CASE active
    <3>1. ~row[r].linked => r \in Loose'
      BY <1>4, <2>2 DEF Loose, Known, NoRow
    <3>. QED BY <1>1, <1>3, <2>2, <3>1 DEF Aggregates, AggregateIsCurrent
  <2>. QED BY <2>1, <2>2
<1>11. OutcomesAreAnnounced'
  <2>1. pc # "announcing" /\ pc' # "announcing"
    BY <1>1, <1>2, <1>3
  <2>2. \A q \in Runs : row'[q].status \in {row[q].status, "UNKNOWN"}
    BY <1>4
  <2>. QED BY <1>2, <2>1, <2>2 DEF Invariant, OutcomesAreAnnounced
<1>. QED BY <1>5, <1>6, <1>8, <1>9, <1>10, <1>11 DEF Invariant

LEMMA FetchInvariant ==
  ASSUME Invariant, NEW r \in Runs, FetchRun(r)
  PROVE  Invariant'
<1>. DEFINE e == <<r, remote[r].status>>
            v == [sync EXCEPT !.refresh = @ \ {r}, !.queue = Append(@, e)]
<1>1. /\ pc = "working" /\ r \in sync.refresh /\ remote[r].status # "GONE"
      /\ pc' = "working" /\ sync' = v
      /\ UNCHANGED <<clock, remote, missed, row, workflowStatus, cursor, announced,
                     unsaid, interrupted, moved, ahead>>
  BY DEF FetchRun, Go, provider, stored, history, recency
<1>2. e \in Entries /\ remote[r].status # "ABSENT"
  BY <1>1 DEF Invariant, TypeOK, Remote, Real, Busy, Entries, Present
<1>3. sync \in Sync /\ sync.queue \in Seq(Entries)
  BY DEF Invariant, TypeOK, Sync
<1>4. /\ Append(sync.queue, e) \in Seq(Entries)
      /\ Range(Append(sync.queue, e)) = Queued \cup {e}
  <2>. HIDE DEF e
  <2>. QED BY <1>2, <1>3, QueueAppend DEF Queued
<1>5. /\ v \in Sync /\ v.queue = Append(sync.queue, e) /\ v.refresh = sync.refresh \ {r}
      /\ v.started = sync.started /\ v.cursor = sync.cursor /\ v.then = sync.then
  <2>. HIDE DEF e
  <2>. QED BY <1>3, <1>4 DEF Sync
<1>. HIDE DEF v
<1>6. TypeOK'
  BY <1>1, <1>5 DEF Invariant, TypeOK
<1>7. Order'
  BY <1>1, <1>5 DEF Invariant, Order, Busy
<1>8. Queued' = Queued \cup {e} /\ Busy /\ Busy'
  BY <1>1, <1>4, <1>5 DEF Queued, Busy
<1>9. Real'
  BY <1>1, <1>2, <1>5, <1>8 DEF Invariant, Real
<1>10. Coverage'
  <2>1. Seen' = Seen
    BY <1>1 DEF Seen, Exists
  <2>2. \A q \in Seen : Pending(q) => Pending(q)'
    BY <1>1, <1>5, <1>8 DEF Pending
  <2>3. \A q, s : Fits(q, s)' = Fits(q, s)
    BY <1>1, <1>5 DEF Fits
  <2>4. \A q \in Seen : (Pending(q) \/ Fits(q, row[q].status))'
    BY <1>1, <1>5, <1>8, <2>2 DEF Invariant, Coverage, Fits
  <2>5. \A f \in Queued' : f[1] \in Seen => Fits(f[1], f[2])
    BY <1>8 DEF Invariant, Coverage, Fits
  <2>. QED BY <1>1, <1>8, <2>1, <2>3, <2>4, <2>5
           DEF Invariant, Coverage, CursorCoversRuns, Exists
<1>11. Aggregate' = Aggregate /\ Loose' = Loose
  BY <1>1, AggregateKept
<1>12. Aggregates' /\ OutcomesAreAnnounced'
  BY <1>1, <1>11 DEF Invariant, Aggregates, AggregateIsCurrent, OutcomesAreAnnounced
<1>. QED BY <1>6, <1>7, <1>9, <1>10, <1>12 DEF Invariant

LEMMA PersistInvariant == Invariant /\ PersistRun => Invariant'
<1> SUFFICES ASSUME Invariant, PersistRun PROVE Invariant'
  OBVIOUS
<1>. DEFINE e      == Head(sync.queue)
            r      == e[1]
            status == e[2]
            named  == r \in Named
            news   == IsNews(row[r].status, status)
<1>1. /\ pc = "working" /\ sync.refresh = {} /\ sync.queue # <<>>
      /\ row' = [row EXCEPT ![r] = [status |-> status, created |-> remote[r].created,
                                    linked |-> named]]
      /\ unsaid' = IF row[r].status = status THEN unsaid
                   ELSE IF baseline THEN unsaid \cup {r} ELSE unsaid \ {r}
      /\ UNCHANGED <<clock, remote, missed, workflowStatus, cursor, announced,
                     interrupted, moved, ahead>>
  BY DEF PersistRun, provider, recency
<1>2. sync \in Sync /\ sync.queue \in Seq(Entries)
  BY DEF Invariant, TypeOK, Sync
<1>3. /\ e \in Entries /\ Tail(sync.queue) \in Seq(Entries)
      /\ Queued = Range(Tail(sync.queue)) \cup {e}
  BY <1>1, <1>2, QueueHead DEF Queued
<1>4. r \in Runs /\ status \in Present /\ named \in BOOLEAN
  BY <1>3 DEF Entries
<1>5. PICK p \in {"announcing", "aggregating", "working"}, v \in Sync :
        /\ Go(p, v)
        /\ v.queue = Tail(sync.queue) /\ v.refresh = sync.refresh
        /\ v.started = sync.started /\ v.cursor = sync.cursor /\ v.then = sync.then
        /\ p = "announcing" => v.run = r
        /\ p # "announcing" => ~news
        /\ p = "working" => ~named
  <2>. DEFINE rest == [sync EXCEPT !.queue = Tail(@)]
              v    == [rest EXCEPT !.run = r]
  <2>1. /\ rest \in Sync /\ rest.queue = Tail(sync.queue) /\ rest.refresh = sync.refresh
        /\ rest.started = sync.started /\ rest.cursor = sync.cursor /\ rest.then = sync.then
    <3>. HIDE DEF e
    <3>. QED BY <1>2, <1>3 DEF Sync
  <2>. HIDE DEF rest
  <2>2. /\ v \in Sync /\ v.queue = rest.queue /\ v.refresh = rest.refresh /\ v.run = r
        /\ v.started = rest.started /\ v.cursor = rest.cursor /\ v.then = rest.then
    <3>. HIDE DEF r
    <3>. QED BY <1>4, <2>1 DEF Sync
  <2>3. \/ Go("announcing", v) /\ news
        \/ Go("aggregating", v) /\ ~news
        \/ Go("working", rest) /\ ~news /\ ~named
    BY DEF PersistRun, rest
  <2>. HIDE DEF v, r, news, named
  <2>. QED BY <2>1, <2>2, <2>3
<1>6. pc' = p /\ sync' = v
  BY <1>5 DEF Go
<1>7. /\ row' \in [Runs -> Row]
      /\ \A q \in Runs \ {r} : row'[q] = row[q]
      /\ row'[r].status = status /\ row'[r].linked = named
  <2>. HIDE DEF r, status, named
  <2>1. [status |-> status, created |-> remote[r].created, linked |-> named] \in Row
    BY <1>4 DEF Invariant, TypeOK, Remote, Row
  <2>. QED BY <1>1, <1>4, <2>1 DEF Invariant, TypeOK
<1>. HIDE DEF r, status, named
<1>8. Queued' = Range(Tail(sync.queue)) /\ Busy /\ Busy'
  BY <1>1, <1>5, <1>6 DEF Queued, Busy
<1>9. e \in Queued /\ Queued' \subseteq Queued /\ Queued \subseteq Queued' \cup {e}
  BY <1>3, <1>8
<1>10. TypeOK'
  BY <1>1, <1>5, <1>6, <1>7 DEF Invariant, TypeOK, Stages
<1>11. Order'
  <2>1. row'[r] # NoRow
    BY <1>4, <1>7 DEF NoRow, Present
  <2>2. sync.then # "finishing"
    BY <1>1, <1>8 DEF Invariant, Order
  <2>. QED BY <1>1, <1>4, <1>5, <1>6, <2>1, <2>2 DEF Invariant, Order, Known
<1>12. Real'
  <2>1. remote[r].status # "ABSENT"
    BY <1>8, <1>9 DEF Invariant, Real, r
  <2>. QED BY <1>1, <1>5, <1>6, <1>7, <1>8, <1>9, <2>1 DEF Invariant, Real
<1>13. r \in Seen => Fits(r, status)
  BY <1>8, <1>9 DEF Invariant, Coverage, r, status
<1>14. Coverage'
  <2>1. Seen' = Seen /\ \A q \in Runs : Exists(q)' = Exists(q)
    BY <1>1 DEF Seen, Exists
  <2>2. CursorCoversRuns'
    <3>1. r \notin moved /\ r \in Seen => status = remote[r].status
      BY <1>13 DEF Fits
    <3>. QED BY <1>1, <1>7, <2>1, <3>1 DEF Invariant, Coverage, CursorCoversRuns, Seen
  <2>3. (cursor # NoCursor =>
           \A q \in Seen : \/ row[q].status \in {remote[q].status, "RUNNING"}
                           \/ remote[q].stamp >= cursor)'
    <3>1. cursor # NoCursor /\ r \in Seen =>
            status \in {remote[r].status, "RUNNING"} \/ remote[r].stamp >= cursor
      BY <1>1, <1>4, <1>13 DEF Fits, Invariant, TypeOK, Remote, Sync, Order
    <3>. QED BY <1>1, <1>7, <2>1, <3>1 DEF Invariant, Coverage, Seen
  <2>4. \A q, s : Fits(q, s)' = Fits(q, s)
    BY <1>1, <1>5, <1>6 DEF Fits
  <2>5. ASSUME NEW q \in Seen
        PROVE  (Pending(q) \/ Fits(q, row[q].status))'
    <3>1. CASE q = r
      BY <1>1, <1>5, <1>6, <1>7, <1>13, <2>5, <3>1 DEF Fits
    <3>2. CASE q # r
      <4>1. Pending(q) => Pending(q)'
        BY <1>5, <1>6, <1>9, <3>2 DEF Pending, r
      <4>2. row'[q] = row[q]
        BY <1>7, <3>2 DEF Seen
      <4>. QED BY <1>1, <1>5, <1>6, <1>8, <4>1, <4>2 DEF Invariant, Coverage, Fits
    <3>. QED BY <3>1, <3>2
  <2>6. \A f \in Queued' : f[1] \in Seen => Fits(f[1], f[2])
    BY <1>8, <1>9 DEF Invariant, Coverage
  <2>7. (moved \subseteq ahead)'
    BY <1>1 DEF Invariant, Coverage
  <2>. QED BY <1>8, <2>1, <2>2, <2>3, <2>4, <2>5, <2>6, <2>7 DEF Coverage
<1>15. Aggregates'
  <2>1. ~named => r \in Loose'
    BY <1>4, <1>7 DEF Loose, Known, NoRow, Present
  <2>. QED BY <1>5, <1>6, <2>1 DEF Aggregates, AggregateIsCurrent
<1>16. OutcomesAreAnnounced'
  <2>. SUFFICES ASSUME NEW q \in Runs, q \notin unsaid',
                       row'[q].status \in {"SUCCESS", "FAILED"},
                       ~(pc' = "announcing" /\ sync'.run = q)
                PROVE  \E type \in IF row'[q].status = "FAILED"
                                   THEN {"FAILED"} ELSE {"SUCCEEDED", "RECOVERED"} :
                         <<q, type>> \in announced
    BY <1>1 DEF OutcomesAreAnnounced
  <2>1. row'[q].status = row[q].status /\ q \notin unsaid
    <3>1. CASE q = r
      <4>1. ~news
        BY <1>5, <1>6, <3>1
      <4>. QED BY <1>1, <1>7, <3>1, <4>1 DEF IsNews, baseline
    <3>2. CASE q # r
      BY <1>1, <1>7, <3>2
    <3>. QED BY <3>1, <3>2
  <2>. QED BY <1>1, <2>1 DEF Invariant, OutcomesAreAnnounced
<1>. QED BY <1>10, <1>11, <1>12, <1>14, <1>15, <1>16 DEF Invariant

LEMMA AnnounceInvariant == Invariant /\ AnnounceRun => Invariant'
<1> SUFFICES ASSUME Invariant, AnnounceRun PROVE Invariant'
  OBVIOUS
<1>. DEFINE v == [sync EXCEPT !.run = 0]
<1>1. /\ pc = "announcing" /\ announced' = announced \cup {<<sync.run, Outcome(sync.run)>>}
      /\ UNCHANGED <<clock, remote, missed, row, workflowStatus, cursor,
                     unsaid, interrupted, moved, ahead>>
      /\ IF row[sync.run].linked THEN Go("aggregating", sync) ELSE Go("working", v)
  BY DEF AnnounceRun, provider, history, recency
<1>2. /\ sync \in Sync /\ v \in Sync
      /\ v.started = sync.started /\ v.cursor = sync.cursor /\ v.refresh = sync.refresh
      /\ v.queue = sync.queue /\ v.then = sync.then
  BY DEF Invariant, TypeOK, Sync
<1>3. sync.run \in Runs /\ Known(sync.run) /\ Busy
  BY <1>1 DEF Invariant, Order, Busy
<1>4. \E type \in IF row[sync.run].status = "FAILED" THEN {"FAILED"}
                                                 ELSE {"SUCCEEDED", "RECOVERED"} :
         <<sync.run, type>> \in announced'
  BY <1>1 DEF Outcome
<1>5. Loose' = Loose
  BY <1>1, AggregateKept
<1>6. interrupted' \in BOOLEAN /\ announced \subseteq announced'
  BY <1>1 DEF Invariant, TypeOK
<1>. HIDE DEF v
<1>7. CASE row[sync.run].linked
  <2>1. Go("aggregating", sync)
    BY <1>1, <1>7
  <2>2. Aggregates'
    BY <2>1 DEF Go, Aggregates, AggregateIsCurrent
  <2>. QED BY <1>1, <1>2, <1>3, <1>4, <1>6, <2>1, <2>2, QuietInvariant DEF Stages
<1>8. CASE ~row[sync.run].linked
  <2>1. Go("working", v)
    BY <1>1, <1>8
  <2>2. Loose # {}
    BY <1>3, <1>8 DEF Loose
  <2>3. Aggregates'
    BY <1>5, <2>1, <2>2 DEF Go, Aggregates, AggregateIsCurrent
  <2>. QED BY <1>1, <1>2, <1>3, <1>4, <1>6, <2>1, <2>3, QuietInvariant DEF Stages
<1>. QED BY <1>7, <1>8

LEMMA RefreshInvariant == Invariant /\ RefreshAggregate => Invariant'
<1> SUFFICES ASSUME Invariant, RefreshAggregate PROVE Invariant'
  OBVIOUS
<1>. DEFINE v == [sync EXCEPT !.run = 0]
<1>1. /\ pc = "aggregating" /\ workflowStatus' = Aggregate /\ interrupted' = FALSE
      /\ Go(sync.then, v)
      /\ UNCHANGED <<clock, remote, missed, row, cursor, announced, unsaid, moved, ahead>>
  BY DEF RefreshAggregate, provider, recency
<1>2. /\ sync.then \in {"working", "finishing"} /\ v \in Sync
      /\ v.started = sync.started /\ v.cursor = sync.cursor /\ v.refresh = sync.refresh
      /\ v.queue = sync.queue /\ v.then = sync.then
  BY DEF Invariant, TypeOK, Sync
<1>3. Aggregate' = Aggregate
  BY <1>1, AggregateKept
<1>4. Aggregates'
  BY <1>1, <1>3 DEF Aggregates, AggregateIsCurrent
<1>. HIDE DEF v
<1>. QED BY <1>1, <1>2, <1>4, QuietInvariant DEF Stages, Busy

LEMMA AssociateInvariant == Invariant /\ AssociateRuns => Invariant'
<1> SUFFICES ASSUME Invariant, AssociateRuns PROVE Invariant'
  OBVIOUS
<1>. DEFINE v == [sync EXCEPT !.then = "finishing"]
<1>1. /\ pc = "working" /\ sync.refresh = {} /\ sync.queue = <<>>
      /\ row' = [r \in Runs |-> [row[r] EXCEPT !.linked = @ \/ r \in Loose]]
      /\ IF Loose = {} THEN Go("finishing", sync) ELSE Go("aggregating", v)
      /\ UNCHANGED <<clock, remote, missed, workflowStatus, cursor, announced,
                     unsaid, interrupted, moved, ahead>>
  BY DEF AssociateRuns, Loose, provider, history, recency
<1>2. /\ sync \in Sync /\ v \in Sync
      /\ v.started = sync.started /\ v.cursor = sync.cursor /\ v.refresh = sync.refresh
      /\ v.queue = sync.queue
  BY DEF Invariant, TypeOK, Sync
<1>3. \A r \in Runs : row'[r] = [row[r] EXCEPT !.linked = @ \/ r \in Loose]
  BY <1>1
<1>4. ASSUME NEW r \in Runs
      PROVE  row'[r] \in Row /\ row'[r].status = row[r].status
             /\ (Loose = {} => row'[r] = row[r])
  <2>. DEFINE linked == row[r].linked \/ r \in Loose
  <2>1. row[r] \in Row /\ linked \in BOOLEAN
    BY DEF Invariant, TypeOK
  <2>2. row'[r] = [row[r] EXCEPT !.linked = linked]
    BY <1>3
  <2>3. Loose = {} => linked = row[r].linked
    BY <2>1 DEF Row
  <2>. HIDE DEF linked
  <2>. QED BY <2>1, <2>2, <2>3 DEF Row
<1>5. row' \in [Runs -> Row]
  BY <1>1, <1>4
<1>. HIDE DEF v
<1>6. PICK p \in {"finishing", "aggregating"}, w \in Sync :
        /\ Go(p, w)
        /\ w.started = sync.started /\ w.cursor = sync.cursor /\ w.refresh = sync.refresh
        /\ w.queue = sync.queue
        /\ p = "finishing" => Loose = {}
  BY <1>1, <1>2
<1>7. pc' = p /\ sync' = w
  BY <1>6 DEF Go
<1>8. TypeOK'
  BY <1>1, <1>5, <1>6, <1>7 DEF Invariant, TypeOK, Stages
<1>9. Busy /\ Busy' /\ Queued' = Queued
  BY <1>1, <1>6, <1>7 DEF Busy, Queued
<1>10. Order'
  BY <1>1, <1>6, <1>7 DEF Invariant, Order
<1>11. Real'
  BY <1>1, <1>4, <1>6, <1>7, <1>9 DEF Invariant, Real
<1>12. Coverage'
  <2>1. Seen' = Seen /\ \A q \in Runs : Exists(q)' = Exists(q)
    BY <1>1 DEF Seen, Exists
  <2>2. CursorCoversRuns'
    BY <1>1, <1>4, <2>1 DEF Invariant, Coverage, CursorCoversRuns
  <2>3. \A q, s : Fits(q, s)' = Fits(q, s) /\ Pending(q)' = Pending(q)
    BY <1>1, <1>6, <1>7, <1>9 DEF Fits, Pending
  <2>4. \A q \in Seen : row'[q].status = row[q].status
    BY <1>4 DEF Seen
  <2>5. \A q \in Seen : (Pending(q) \/ Fits(q, row[q].status))'
    BY <1>1, <1>6, <1>7, <1>9, <2>3, <2>4 DEF Invariant, Coverage, Fits
  <2>. QED BY <1>1, <1>9, <2>1, <2>2, <2>3, <2>4, <2>5 DEF Invariant, Coverage
<1>13. Aggregates'
  <2>1. CASE Loose = {}
    <3>1. row' = row
      BY <1>4, <1>5, <2>1 DEF Invariant, TypeOK
    <3>2. Aggregate' = Aggregate /\ Loose' = Loose
      BY <3>1, AggregateKept
    <3>. QED BY <1>1, <1>7, <2>1, <3>2 DEF Invariant, Aggregates, AggregateIsCurrent
  <2>2. CASE Loose # {}
    BY <1>6, <1>7, <2>2 DEF Aggregates, AggregateIsCurrent
  <2>. QED BY <2>1, <2>2
<1>14. OutcomesAreAnnounced'
  <2>1. pc # "announcing" /\ pc' # "announcing"
    BY <1>1, <1>6, <1>7
  <2>. QED BY <1>1, <1>4, <2>1 DEF Invariant, OutcomesAreAnnounced
<1>. QED BY <1>8, <1>10, <1>11, <1>12, <1>13, <1>14 DEF Invariant

LEMMA SuccessInvariant == Invariant /\ MarkSuccess => Invariant'
<1> SUFFICES ASSUME Invariant, MarkSuccess PROVE Invariant'
  OBVIOUS
<1>1. /\ pc = "finishing" /\ cursor' = sync.started /\ pc' = "idle" /\ sync' = NoSync
      /\ ahead' = moved
      /\ UNCHANGED <<clock, remote, missed, row, workflowStatus, announced,
                     unsaid, interrupted, moved>>
  BY DEF MarkSuccess, Go, provider, history
<1>2. TypeOK'
  BY <1>1, NoSyncType DEF Invariant, TypeOK, Stages, Sync
<1>3. Order' /\ Real'
  BY <1>1 DEF Invariant, Order, Real, Busy
<1>4. Coverage'
  <2>1. Queued = {} /\ sync.refresh = {} /\ Busy
    BY <1>1, QueueEmpty DEF Invariant, Order, Busy, Queued
  <2>2. \A r \in Seen : Fits(r, row[r].status)
    BY <2>1 DEF Invariant, Coverage, Pending
  <2>. QED BY <1>1, <2>2 DEF Coverage, CursorCoversRuns, Fits, Seen, Exists, Busy
<1>5. Aggregate' = Aggregate /\ Loose' = Loose
  BY <1>1, AggregateKept
<1>6. Aggregates' /\ OutcomesAreAnnounced'
  BY <1>1, <1>5 DEF Invariant, Aggregates, AggregateIsCurrent, OutcomesAreAnnounced
<1>. QED BY <1>2, <1>3, <1>4, <1>6 DEF Invariant

LEMMA CrashInvariant == Invariant /\ Crash => Invariant'
<1> SUFFICES ASSUME Invariant, Crash PROVE Invariant'
  OBVIOUS
<1>1. /\ pc # "idle" /\ pc' = "idle" /\ sync' = NoSync
      /\ unsaid' = IF pc = "announcing" THEN unsaid \cup {sync.run} ELSE unsaid
      /\ interrupted' = \/ interrupted
                        \/ pc = "aggregating"
                        \/ pc = "announcing" /\ row[sync.run].linked
      /\ UNCHANGED <<clock, remote, missed, row, workflowStatus, cursor, announced,
                     moved, ahead>>
  BY DEF Crash, Go, provider, stored, recency
<1>2. TypeOK'
  BY <1>1, NoSyncType DEF Invariant, TypeOK, Stages
<1>3. Order' /\ Real'
  BY <1>1 DEF Invariant, Order, Real, Busy
<1>4. Coverage'
  BY <1>1 DEF Invariant, Coverage, CursorCoversRuns, Seen, Exists, Busy
<1>5. Aggregate' = Aggregate /\ Loose' = Loose
  BY <1>1, AggregateKept
<1>6. Aggregates'
  <2>1. pc = "announcing" /\ ~row[sync.run].linked => Loose # {}
    BY DEF Invariant, Order, Loose
  <2>. QED BY <1>1, <1>5, <2>1 DEF Invariant, TypeOK, Stages, Aggregates, AggregateIsCurrent
<1>7. OutcomesAreAnnounced'
  BY <1>1 DEF Invariant, OutcomesAreAnnounced
<1>. QED BY <1>2, <1>3, <1>4, <1>6, <1>7 DEF Invariant

LEMMA PullRequestInvariant == Invariant /\ PersistPullRequest => Invariant'
<1> SUFFICES ASSUME Invariant, PersistPullRequest PROVE Invariant'
  OBVIOUS
<1>1. /\ pc \in {"idle", "listing"} /\ workflowStatus' = Aggregate /\ interrupted' = FALSE
      /\ UNCHANGED <<clock, remote, missed, row, cursor, announced, pc, sync, unsaid,
                     moved, ahead>>
  BY DEF PersistPullRequest, provider, recency
<1>2. TypeOK' /\ Order' /\ Real' /\ OutcomesAreAnnounced'
  BY <1>1 DEF Invariant, TypeOK, Order, Real, OutcomesAreAnnounced, Busy, Known
<1>3. Coverage'
  BY <1>1 DEF Invariant, Coverage, CursorCoversRuns, Seen, Exists, Busy
<1>4. Aggregate' = Aggregate
  BY <1>1, AggregateKept
<1>5. Aggregates'
  BY <1>1, <1>4 DEF Aggregates, AggregateIsCurrent
<1>. QED BY <1>2, <1>3, <1>5 DEF Invariant

-----------------------------------------------------------------------------
(* The theorems. *)

LEMMA StepInvariant == Invariant /\ [Next]_vars => Invariant'
<1>1. ASSUME Invariant, UNCHANGED vars
      PROVE  Invariant'
  <2>1. UNCHANGED <<clock, remote, missed, row, workflowStatus, cursor, announced, pc, sync,
                    unsaid, interrupted, moved, ahead>>
    BY <1>1 DEF vars, provider, stored, history, recency
  <2>2. Aggregate' = Aggregate /\ Loose' = Loose
    BY <2>1, AggregateKept
  <2>3. TypeOK' /\ Order' /\ Real' /\ OutcomesAreAnnounced'
    BY <1>1, <2>1 DEF Invariant, TypeOK, Order, Real, OutcomesAreAnnounced, Busy, Known,
                      Queued
  <2>4. Coverage'
    BY <1>1, <2>1 DEF Invariant, Coverage, CursorCoversRuns, Busy, Queued, Pending, Fits,
                      Seen, Exists
  <2>5. Aggregates'
    BY <1>1, <2>1, <2>2 DEF Invariant, Aggregates, AggregateIsCurrent
  <2>. QED BY <2>3, <2>4, <2>5 DEF Invariant
<1>. QED BY <1>1, TickInvariant, ProviderInvariant, BeginInvariant, ListInvariant,
            LoseInvariant, FetchInvariant, PersistInvariant, AnnounceInvariant,
            RefreshInvariant, AssociateInvariant, SuccessInvariant, CrashInvariant,
            PullRequestInvariant DEF Next, Step

LEMMA InvariantHolds == Spec => []Invariant
BY InitInvariant, StepInvariant, PTL DEF Spec

\* lastSyncAt and the refresh of active and failed runs together lose no change of a
\* run, whenever it falls and whatever stops a synchronization, but those that lie
\* outside every listing's window.
THEOREM CursorCoversRunsHolds == Spec => []CursorCoversRuns
<1>1. Invariant => CursorCoversRuns
  BY DEF Invariant, Coverage
<1>. QED BY <1>1, InvariantHolds, PTL

\* evaluateWorkflowRun has announced every outcome that persistWorkflowRun stored,
\* unless it was the baseline's or the process died in between.
THEOREM OutcomesAreAnnouncedHolds == Spec => []OutcomesAreAnnounced
<1>1. Invariant => OutcomesAreAnnounced
  BY DEF Invariant
<1>. QED BY <1>1, InvariantHolds, PTL

\* When a synchronization completes, the pull request has the aggregate status of the
\* newest run of each workflow, unless one died between a run and the aggregate.
THEOREM AggregateIsCurrentHolds == Spec => []AggregateIsCurrent
<1>1. Invariant => AggregateIsCurrent
  BY DEF Invariant, Aggregates
<1>. QED BY <1>1, InvariantHolds, PTL

\* evaluateWorkflowRun tells of a recovery only if the failure of a run of the workflow
\* was told before, or is stored and could not be told.
THEOREM RecoveriesFollowFailuresHolds == Spec => RecoveriesFollowFailures
<1>. DEFINE Follows ==
       \A e \in announced' \ announced :
         e[2] = "RECOVERED" =>
           \E q \in Runs \ {e[1]} :
             /\ WorkflowOf[q] = WorkflowOf[e[1]]
             /\ \/ <<q, "FAILED">> \in announced
                \/ q \in unsaid /\ row[q].status = "FAILED"
<1>1. ASSUME Invariant, AnnounceRun
      PROVE  Follows
  <2>. SUFFICES ASSUME NEW e \in announced' \ announced, e[2] = "RECOVERED"
                PROVE  \E q \in Runs \ {e[1]} :
                         /\ WorkflowOf[q] = WorkflowOf[e[1]]
                         /\ \/ <<q, "FAILED">> \in announced
                            \/ q \in unsaid /\ row[q].status = "FAILED"
    OBVIOUS
  <2>1. e = <<sync.run, Outcome(sync.run)>>
    BY <1>1 DEF AnnounceRun
  <2>2. e[1] = sync.run /\ Outcome(sync.run) = "RECOVERED"
    BY <2>1
  <2>3. PICK q \in Runs \ {sync.run} :
          WorkflowOf[q] = WorkflowOf[sync.run] /\ row[q].status = "FAILED"
    BY <2>2 DEF Outcome, Recovered, SameContext
  <2>4. q \in unsaid \/ <<q, "FAILED">> \in announced
    BY <1>1, <2>3 DEF Invariant, OutcomesAreAnnounced
  <2>. QED BY <2>2, <2>3, <2>4
<1>2. ASSUME Next, ~AnnounceRun
      PROVE  announced' = announced
  BY <1>2 DEF Next, Tick, Provider, StartRun, Rerun, ConcludeRun, DeleteRun, Alter, Step,
     BeginSync, ListRuns, LoseRun, FetchRun, PersistRun, RefreshAggregate, AssociateRuns,
     MarkSuccess, PersistPullRequest, Crash, stored
<1>3. Invariant /\ [Next]_vars => [Follows]_vars
  BY <1>1, <1>2
<1>. QED BY <1>3, InvariantHolds, PTL DEF Spec, RecoveriesFollowFailures
=============================================================================
