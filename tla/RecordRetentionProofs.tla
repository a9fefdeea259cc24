------------------------ MODULE RecordRetentionProofs ------------------------
(***************************************************************************)
(* For any number of repositories, runs, cleanups and periods: a run goes  *)
(* only under a period that was in force since the cleanup began, and the  *)
(* total runtime that is shown is kept where nothing raced a cleanup.      *)
(***************************************************************************)
EXTENDS RecordRetention, FiniteSetTheorems, WellFoundedInduction, TLAPS

StoredRun == [stored: BOOLEAN, completedAt: Nat \cup {NoTime}, duration: Nat]

\* What a cleanup that is under way carries: a time that has come, and periods
\* that were set for their scope since the cleanup began.
Carries(c, time, P) ==
  /\ DOMAIN c = {"pc", "now", "scope", "days", "rest", "sums"}
  /\ c.now \in Nat /\ c.now <= time
  /\ c.scope \in Scopes
  /\ c.days \in P[c.scope]
  /\ \A p \in c.rest : p[1] \in Repositories /\ p[2] \in P[p[1]]

\* The inductive invariant: while a cleanup is under way, the periods since it
\* began include the ones in force and the ones it carries.
PeriodsAreKept ==
  /\ clock \in Nat
  /\ default \in Days
  /\ override \in [Repositories -> Days \cup {NoOverride}]
  /\ periods \in [Scopes -> SUBSET Days]
  /\ run \in [Runs -> StoredRun]
  /\ DOMAIN job = Jobs
  /\ \A j \in Jobs : job[j] = Idle \/ Carries(job[j], clock, periods)
  /\ (\E j \in Jobs : job[j] # Idle) =>
       \A s \in Scopes : Periods(s) \subseteq periods[s]

LEMMA InitKeepsPeriods == Init => PeriodsAreKept
<1> SUFFICES ASSUME Init PROVE PeriodsAreKept
  OBVIOUS
<1>1. run \in [Runs -> StoredRun]
  BY DEF Init, NoRun, StoredRun
<1>2. \A j \in Jobs : job[j] = Idle
  BY DEF Init
<1>. QED BY <1>1, <1>2 DEF Init, PeriodsAreKept

\* What a cleanup carries is good later, and with a history that has grown.
LEMMA CarriedStays ==
  ASSUME NEW c, NEW t \in Nat, NEW u \in Nat, t <= u, NEW P, NEW Q,
         Carries(c, t, P), \A s \in Scopes : P[s] \subseteq Q[s]
  PROVE  Carries(c, u, Q)
<1>1. \A p \in c.rest : p[1] \in Scopes
  BY DEF Carries, Scopes
<1>2. c.now \in Nat /\ c.now <= u
  BY DEF Carries
<1>. QED BY <1>1, <1>2 DEF Carries

\* What neither cleans nor changes a period keeps the invariant.
LEMMA OthersKeepPeriods ==
  ASSUME PeriodsAreKept, UNCHANGED <<policy, job, periods>>,
         clock' \in Nat, clock <= clock', run' \in [Runs -> StoredRun]
  PROVE  PeriodsAreKept'
<1>1. \A j \in Jobs : job'[j] = Idle \/ Carries(job'[j], clock', periods')
  BY CarriedStays DEF PeriodsAreKept
<1>2. (\E j \in Jobs : job'[j] # Idle) =>
         \A s \in Scopes : Periods(s)' \subseteq periods'[s]
  BY DEF PeriodsAreKept, Periods, policy, Idle
<1>3. DOMAIN job' = Jobs /\ default' \in Days
      /\ override' \in [Repositories -> Days \cup {NoOverride}]
      /\ periods' \in [Scopes -> SUBSET Days]
  BY DEF PeriodsAreKept, policy
<1>4. ((\E j \in Jobs : job[j] # Idle) =>
         \A s \in Scopes : Periods(s) \subseteq periods[s])'
  BY <1>2 DEF Scopes, Idle, Periods
<1>5. (\A j \in Jobs : job[j] = Idle \/ Carries(job[j], clock, periods))'
  BY <1>1 DEF Idle
<1>6. (run \in [Runs -> StoredRun])'
  BY DEF StoredRun
<1>. QED BY <1>3, <1>4, <1>5, <1>6 DEF PeriodsAreKept, Scopes

LEMMA SynchronizationKeepsRuns ==
  ASSUME PeriodsAreKept, Synchronize
  PROVE  /\ run' \in [Runs -> StoredRun]
         /\ UNCHANGED <<clock, policy, job, periods>>
<1>. USE RetentionConstants DEF PeriodsAreKept
<1>1. \A x \in Runs : \A t \in Nat \cup {NoTime} : \A d \in Nat :
        [run EXCEPT ![x] = [stored |-> TRUE, completedAt |-> t, duration |-> d]]
          \in [Runs -> StoredRun]
  BY DEF StoredRun
<1>2. \A t \in 0..clock : t \in Nat \cup {NoTime}
  OBVIOUS
<1>3. \A d \in Durations : d \in Nat
  OBVIOUS
<1>4. ASSUME NEW x \in Runs, StoreRun(x)
      PROVE  run' \in [Runs -> StoredRun]
  <2>1. CASE WriteRun(x, NoTime, 0)
    BY <1>1, <2>1 DEF WriteRun
  <2>2. ASSUME NEW t \in 0..clock, NEW d \in Durations, WriteRun(x, t, d)
        PROVE  run' \in [Runs -> StoredRun]
    BY <1>1, <1>2, <1>3, <2>2 DEF WriteRun
  <2>. QED BY <1>4, <2>1, <2>2 DEF StoreRun
<1>5. ASSUME NEW x \in Runs, Refresh(x)
      PROVE  run' \in [Runs -> StoredRun]
  BY <1>1, <1>2, <1>3, <1>5 DEF Refresh, WriteRun
<1>6. ASSUME NEW x \in Runs, ReadForRefresh(x)
      PROVE  run' = run
  BY <1>6 DEF ReadForRefresh
<1>7. ASSUME NEW i \in Items, StoreItem(i) \/ ForgetDeliveries(i)
      PROVE  run' = run
  BY <1>7 DEF StoreItem, ForgetDeliveries
<1>8. run' \in [Runs -> StoredRun]
  BY <1>4, <1>5, <1>6, <1>7 DEF Synchronize
<1>9. UNCHANGED <<clock, policy, job, periods>>
  BY DEF Synchronize, StoreRun, ReadForRefresh, Refresh, StoreItem, ForgetDeliveries,
         history
<1>. QED BY <1>8, <1>9

\* An administrator adds to the history what is in force from now on.
LEMMA ChangeKeepsPeriods ==
  ASSUME PeriodsAreKept, ChangePeriod
  PROVE  PeriodsAreKept'
<1>. USE DEF PeriodsAreKept
<1>1. /\ default' \in Days /\ override' \in [Repositories -> Days \cup {NoOverride}]
      /\ UNCHANGED <<clock, run, job>>
  BY DEF ChangePeriod, records
<1>2. \A s \in Scopes : Periods(s)' \subseteq Days
  BY <1>1 DEF Periods, Scopes
<1>3. periods' = [s \in Scopes |-> periods[s] \cup Periods(s)']
  BY DEF ChangePeriod
<1>4. /\ periods' \in [Scopes -> SUBSET Days]
      /\ \A s \in Scopes : periods[s] \subseteq periods'[s]
                           /\ Periods(s)' \subseteq periods'[s]
  BY <1>2, <1>3 DEF Scopes
<1>5. \A j \in Jobs : job'[j] = Idle \/ Carries(job'[j], clock', periods')
  BY <1>1, <1>4, CarriedStays
<1>6. ((\E j \in Jobs : job[j] # Idle) =>
         \A s \in Scopes : Periods(s) \subseteq periods[s])'
  BY <1>4 DEF Scopes, Idle, Periods
<1>7. (\A j \in Jobs : job[j] = Idle \/ Carries(job[j], clock, periods))'
  BY <1>5 DEF Idle
<1>8. (run \in [Runs -> StoredRun])'
  BY <1>1 DEF StoredRun
<1>. QED BY <1>1, <1>4, <1>6, <1>7, <1>8 DEF Scopes

\* A cleanup that begins starts the history, unless another one has started it.
LEMMA StartKeepsPeriods ==
  ASSUME PeriodsAreKept, NEW j \in Jobs, Start(j)
  PROVE  PeriodsAreKept'
<1>. USE DEF PeriodsAreKept
<1>1. UNCHANGED <<clock, default, override, run>>
  BY DEF Start, policy, records
<1>2. \A s \in Scopes : Periods(s)' = Periods(s) /\ Periods(s) \subseteq Days
  BY <1>1 DEF Periods, Scopes
<1>3. /\ periods' \in [Scopes -> SUBSET Days]
      /\ \A s \in Scopes : Periods(s)' \subseteq periods'[s]
  <2>1. CASE \A k \in Jobs : job[k] = Idle
    <3>1. periods' = [s \in Scopes |-> Periods(s)]
      BY <2>1 DEF Start
    <3>. QED BY <1>2, <3>1
  <2>2. CASE ~ \A k \in Jobs : job[k] = Idle
    <3>1. periods' = periods
      BY <2>2 DEF Start
    <3>. QED BY <1>2, <2>2, <3>1
  <2>. QED BY <2>1, <2>2
<1>4. \A s \in Scopes : (\E k \in Jobs : job[k] # Idle) => periods'[s] = periods[s]
  BY DEF Start
<1>5. /\ NoOverride \in Scopes /\ default \in periods'[NoOverride]
  BY <1>2, <1>3 DEF Periods, Scopes
<1>6. Carries(job'[j], clock', periods')
  BY <1>1, <1>5 DEF Carries, Start
<1>7. \A k \in Jobs \ {j} : job'[k] = Idle \/ Carries(job'[k], clock', periods')
  BY <1>1, <1>4, CarriedStays DEF Start
<1>8. ((\E k \in Jobs : job[k] # Idle) =>
         \A s \in Scopes : Periods(s) \subseteq periods[s])'
  BY <1>3 DEF Scopes, Idle, Periods
<1>9. (\A k \in Jobs : job[k] = Idle \/ Carries(job[k], clock, periods))'
  BY <1>6, <1>7 DEF Idle
<1>10. (run \in [Runs -> StoredRun])'
  BY <1>1 DEF StoredRun
<1>11. DOMAIN job' = Jobs
  BY DEF Start
<1>. QED BY <1>1, <1>3, <1>8, <1>9, <1>10, <1>11 DEF Scopes

\* What a cleanup does between its start and its end leaves the periods alone.
LEMMA CleaningKeepsPeriods ==
  ASSUME PeriodsAreKept, NEW j \in Jobs, Clean(j) \/ Abort(j), ~Start(j)
  PROVE  PeriodsAreKept'
<1>. USE DEF PeriodsAreKept
<1>1. job[j] # Idle
  <2>1. CASE Abort(j)
    BY <2>1 DEF Abort
  <2>2. CASE Clean(j)
    <3>1. job[j].pc \in {"next", "summed", "done", "choosing", "issues", "pulls"}
      BY <2>2 DEF Clean, Sum, DeleteRuns, ReadOverrides, NextRepository, DeleteIssues,
                  DeletePulls
    <3>. QED BY <3>1 DEF Idle
  <2>. QED BY <2>1, <2>2
<1>2. Carries(job[j], clock, periods) /\ \A s \in Scopes : Periods(s) \subseteq periods[s]
  BY <1>1
<1>3. UNCHANGED <<clock, default, override, periods>>
  BY DEF Clean, Sum, DeleteRuns, ReadOverrides, NextRepository, DeleteIssues, DeletePulls,
         Abort, policy, records, history
<1>4. run' \in [Runs -> StoredRun]
  <2>1. CASE DeleteRuns(j)
    BY <2>1 DEF DeleteRuns, NoRun, StoredRun
  <2>2. CASE ~DeleteRuns(j)
    BY <2>2 DEF Clean, Sum, ReadOverrides, NextRepository, DeleteIssues, DeletePulls,
                Abort, records
  <2>. QED BY <2>1, <2>2
<1>5. /\ DOMAIN job' = Jobs
      /\ \A k \in Jobs \ {j} : job'[k] = job[k]
  BY DEF Clean, Sum, DeleteRuns, ReadOverrides, NextRepository, DeleteIssues, DeletePulls,
         Abort
<1>6. job'[j] = Idle \/ Carries(job'[j], clock, periods)
  <2>1. CASE Sum(j) \/ DeleteRuns(j) \/ DeleteIssues(j)
    BY <1>2, <2>1 DEF Sum, DeleteRuns, DeleteIssues, Carries
  <2>2. CASE DeletePulls(j) \/ Abort(j)
    BY <2>2 DEF DeletePulls, Abort
  <2>3. CASE ReadOverrides(j)
    <3>1. \A r \in Repositories :
            override[r] # NoOverride => r \in Scopes /\ override[r] \in periods[r]
      <4>. TAKE r \in Repositories
      <4>. HAVE override[r] # NoOverride
      <4>1. r \in Scopes /\ r # NoOverride
        BY RetentionConstants DEF Scopes
      <4>2. Periods(r) = {override[r]}
        BY <4>1 DEF Periods
      <4>. QED BY <1>2, <4>1, <4>2
    <3>2. job'[j] = [job[j] EXCEPT !.pc = "choosing",
            !.rest = {<<r, override[r]>> :
                        r \in {q \in Repositories : override[q] # NoOverride}}]
      BY <2>3 DEF ReadOverrides
    <3>3. \A q \in job'[j].rest : q[1] \in Repositories /\ q[2] \in periods[q[1]]
      BY <1>2, <3>1, <3>2 DEF Carries
    <3>. QED BY <1>2, <3>2, <3>3 DEF Carries
  <2>4. CASE NextRepository(j)
    <3>1. CASE job' = [job EXCEPT ![j].pc = "issues"]
      BY <1>2, <3>1 DEF Carries
    <3>2. ASSUME NEW p \in job[j].rest,
                 job' = [job EXCEPT ![j].pc = "next", ![j].scope = p[1],
                                    ![j].days = p[2], ![j].rest = @ \ {p}]
          PROVE  Carries(job'[j], clock, periods)
      BY <1>2, <3>2 DEF Carries, Scopes
    <3>. QED BY <2>4, <3>1, <3>2 DEF NextRepository
  <2>. QED BY <2>1, <2>2, <2>3, <2>4 DEF Clean
<1>7. (\A k \in Jobs : job[k] = Idle \/ Carries(job[k], clock, periods))'
  BY <1>3, <1>5, <1>6 DEF Idle
<1>8. ((\E k \in Jobs : job[k] # Idle) =>
         \A s \in Scopes : Periods(s) \subseteq periods[s])'
  BY <1>2, <1>3 DEF Scopes, Idle, Periods
<1>9. (run \in [Runs -> StoredRun])'
  BY <1>4 DEF StoredRun
<1>. QED BY <1>3, <1>5, <1>7, <1>8, <1>9 DEF Scopes

LEMMA StepKeepsPeriods == PeriodsAreKept /\ [Next]_vars => PeriodsAreKept'
<1> SUFFICES ASSUME PeriodsAreKept, [Next]_vars PROVE PeriodsAreKept'
  OBVIOUS
<1>1. CASE Tick
  BY <1>1, OthersKeepPeriods DEF Tick, policy, records, history, PeriodsAreKept
<1>2. CASE Synchronize
  BY <1>2, OthersKeepPeriods, SynchronizationKeepsRuns DEF PeriodsAreKept
<1>3. CASE ChangePeriod
  BY <1>3, ChangeKeepsPeriods
<1>4. ASSUME NEW j \in Jobs, Clean(j) \/ Abort(j)
      PROVE  PeriodsAreKept'
  BY <1>4, StartKeepsPeriods, CleaningKeepsPeriods
<1>5. CASE UNCHANGED vars
  BY <1>5, OthersKeepPeriods DEF vars, policy, records, history, PeriodsAreKept
<1>. QED BY <1>1, <1>2, <1>3, <1>4, <1>5 DEF Next

\* Only the delete of a cleanup removes a run, and what it matches is older than the
\* period it carries for its scope.
LEMMA OnlyMatchingGo ==
  ASSUME PeriodsAreKept, [Next]_vars, NEW x \in Runs, run[x].stored, ~run'[x].stored
  PROVE  \E j \in Jobs : DeleteRuns(j) /\ x \in Matching(j)
<1>1. CASE Synchronize
  <2>1. ASSUME NEW y, NEW t, NEW d,
               run' = [run EXCEPT ![y] =
                         [stored |-> TRUE, completedAt |-> t, duration |-> d]]
        PROVE  FALSE
    BY <2>1 DEF PeriodsAreKept
  <2>2. run' # run
    OBVIOUS
  <2>3. ASSUME NEW y \in Runs, StoreRun(y) \/ Refresh(y)
        PROVE  FALSE
    BY <2>1, <2>3 DEF StoreRun, Refresh, WriteRun
  <2>4. ~ \E y \in Runs : ReadForRefresh(y)
    BY <2>2 DEF ReadForRefresh
  <2>5. ~ \E i \in Items : StoreItem(i) \/ ForgetDeliveries(i)
    BY <2>2 DEF StoreItem, ForgetDeliveries
  <2>. QED BY <1>1, <2>3, <2>4, <2>5 DEF Synchronize
<1>2. ASSUME NEW j \in Jobs, DeleteRuns(j)
      PROVE  x \in Matching(j)
  BY <1>2 DEF DeleteRuns
<1>3. CASE ~Synchronize /\ ~\E j \in Jobs : DeleteRuns(j)
  BY <1>3 DEF Next, Tick, ChangePeriod, Clean, Start, Sum, ReadOverrides, NextRepository,
              DeleteIssues, DeletePulls, Abort, vars, records
<1>. QED BY <1>1, <1>2, <1>3

LEMMA OnlyExpiredGoStep ==
  ASSUME PeriodsAreKept, [Next]_vars, NEW x \in Runs, run[x].stored, ~run'[x].stored
  PROVE  \E d \in periods[RepositoryOf[x]]
                  \cup (IF override[RepositoryOf[x]] = NoOverride
                        THEN periods[NoOverride] ELSE {}) :
           Before(run[x].completedAt, Cutoff(d, clock))
<1>1. PICK j \in Jobs : DeleteRuns(j) /\ x \in Matching(j)
  BY OnlyMatchingGo
<1>2. Carries(job[j], clock, periods)
  BY <1>1 DEF PeriodsAreKept, DeleteRuns, Idle
<1>3. job[j].days \in Nat
  BY <1>2, RetentionConstants DEF Carries, PeriodsAreKept, Scopes
<1>4. Before(run[x].completedAt, Cutoff(job[j].days, clock))
  BY <1>1, <1>2, <1>3, RetentionConstants
     DEF Matching, Before, Cutoff, Carries, PeriodsAreKept, StoredRun
<1>5. \/ job[j].scope = NoOverride /\ override[RepositoryOf[x]] = NoOverride
      \/ job[j].scope = RepositoryOf[x]
  BY <1>1 DEF Matching, InScope
<1>. QED BY <1>2, <1>4, <1>5 DEF Carries

\* A run goes only under a period that was in force for its repository since the
\* cleanup began, whatever administrators, synchronizations, crashes and other
\* cleanups do between the steps of workflow-run-retention.service.ts.
THEOREM OnlyExpiredGoHolds == Spec => OnlyExpiredGo
<1>1. Init => PeriodsAreKept
  BY InitKeepsPeriods
<1>2. PeriodsAreKept /\ [Next]_vars => PeriodsAreKept'
  BY StepKeepsPeriods
<1>3. PeriodsAreKept /\ [Next]_vars =>
        [\A x \in Runs :
           run[x].stored /\ ~run'[x].stored =>
             \E d \in periods[RepositoryOf[x]]
                      \cup (IF override[RepositoryOf[x]] = NoOverride
                            THEN periods[NoOverride] ELSE {}) :
               Before(run[x].completedAt, Cutoff(d, clock))]_vars
  BY OnlyExpiredGoStep
<1>. QED BY <1>1, <1>2, <1>3, PTL DEF Spec, OnlyExpiredGo

-----------------------------------------------------------------------------
(* Sums of durations.                                                      *)
(*                                                                         *)
(* What MapThenSumSet computes is shown by induction on the size of the    *)
(* set: a least number for which it is wrong cannot exist.                 *)

LEMMA LeastElement ==
  ASSUME NEW T, T \subseteq Nat, T # {}
  PROVE  \E n \in T : \A m \in T : n <= m
<1>. DEFINE R == OpToRel(<, Nat)
<1>1. IsWellFoundedOn(R, Nat)
  BY NatLessThanWellFounded
<1>. HIDE DEF R
<1>2. PICK n \in T : \A m \in T : <<m, n>> \notin R
  BY <1>1, WFMin
<1>3. \A m \in T : ~(m < n)
  BY <1>2 DEF R, OpToRel
<1>. QED BY <1>3

Some(s) == CHOOSE x \in s : TRUE

\* The sum of the durations that the rows v show for the runs X.
Time(v, X) == MapThenSumSet(LAMBDA x : v[x].duration, X)

\* g[s] is that sum for the subsets s of X.
Adds(g, v, X) ==
  g = [s \in SUBSET X |-> IF s = {} THEN 0 ELSE v[Some(s)].duration + g[s \ {Some(s)}]]

Timed(v, X) == IsFiniteSet(X) /\ \A x \in X : v[x].duration \in Nat

LEMMA SomeElement ==
  ASSUME NEW s, s # {}
  PROVE  Some(s) \in s
BY DEF Some

LEMMA OneLess ==
  ASSUME NEW s, IsFiniteSet(s), NEW x \in s
  PROVE  /\ IsFiniteSet(s \ {x})
         /\ Cardinality(s) \in Nat \ {0} /\ Cardinality(s \ {x}) = Cardinality(s) - 1
<1>1. IsFiniteSet(s \ {x}) /\ Cardinality(s \ {x}) = Cardinality(s) - 1
  BY FS_RemoveElement
<1>2. Cardinality(s) \in Nat /\ Cardinality(s) # 0
  BY FS_CardinalityType, FS_EmptySet
<1>. QED BY <1>1, <1>2

LEMMA SumExists ==
  ASSUME NEW v, NEW X, Timed(v, X)
  PROVE  \E g : Adds(g, v, X)
<1>. DEFINE Upto(n) == {s \in SUBSET X : Cardinality(s) <= n}
            Next1(g, s) == IF s = {} THEN 0 ELSE v[Some(s)].duration + g[s \ {Some(s)}]
            P(n) == \E g \in [Upto(n) -> Nat] : \A s \in Upto(n) : g[s] = Next1(g, s)
            T == {n \in Nat : ~P(n)}
<1>1. \A s \in SUBSET X : IsFiniteSet(s) /\ Cardinality(s) \in Nat
  BY FS_Subset, FS_CardinalityType DEF Timed
<1>2. P(0)
  <2>. DEFINE g == [s \in Upto(0) |-> 0]
  <2>1. \A s \in Upto(0) : s = {}
    BY <1>1, FS_EmptySet
  <2>2. g \in [Upto(0) -> Nat] /\ \A s \in Upto(0) : g[s] = Next1(g, s)
    BY <2>1
  <2>. QED BY <2>2
<1>3. ASSUME NEW n \in Nat, P(n) PROVE P(n + 1)
  <2>1. PICK g \in [Upto(n) -> Nat] : \A s \in Upto(n) : g[s] = Next1(g, s)
    BY <1>3
  <2>. DEFINE h == [s \in Upto(n + 1) |-> Next1(g, s)]
  <2>2. \A s \in Upto(n + 1) : s # {} =>
          /\ Some(s) \in X /\ s \ {Some(s)} \in Upto(n) /\ s \ {Some(s)} \in Upto(n + 1)
    <3>. TAKE s \in Upto(n + 1)
    <3>. HAVE s # {}
    <3>1. Some(s) \in s
      BY SomeElement
    <3>2. /\ Cardinality(s \ {Some(s)}) = Cardinality(s) - 1
          /\ Cardinality(s) \in Nat /\ Cardinality(s) <= n + 1
      BY <1>1, <3>1, OneLess
    <3>. QED BY <3>1, <3>2
  <2>3. h \in [Upto(n + 1) -> Nat]
    BY <2>2 DEF Timed
  <2>4. \A s \in Upto(n) : s \in Upto(n + 1) /\ h[s] = g[s]
    BY <1>1, <2>1
  <2>5. \A s \in Upto(n + 1) : h[s] = Next1(h, s)
    BY <2>2, <2>4
  <2>. QED BY <2>3, <2>5
<1>. HIDE DEF P
<1>4. \A n \in Nat : P(n)
  <2> SUFFICES ASSUME T # {} PROVE FALSE
    OBVIOUS
  <2>1. PICK n \in T : \A m \in T : n <= m
    BY LeastElement
  <2>2. n # 0 /\ n - 1 \in Nat /\ n - 1 \notin T
    BY <1>2, <2>1
  <2>3. P(n - 1 + 1)
    BY <1>3, <2>2
  <2>. QED BY <2>1, <2>3
<1>5. P(Cardinality(X)) /\ Cardinality(X) \in Nat
  BY <1>1, <1>4
<1>6. PICK g \in [Upto(Cardinality(X)) -> Nat] :
        \A s \in Upto(Cardinality(X)) : g[s] = Next1(g, s)
  BY <1>5 DEF P
<1>7. Upto(Cardinality(X)) = SUBSET X
  BY FS_Subset DEF Timed
<1>8. g = [s \in SUBSET X |-> Next1(g, s)]
  BY <1>6, <1>7
<1>9. Adds(g, v, X)
  BY <1>8 DEF Adds
<1>. QED BY <1>9

LEMMA TimeAdds ==
  ASSUME NEW v, NEW X, Timed(v, X)
  PROVE  \E g : Adds(g, v, X) /\ Time(v, X) = g[X]
<1>. DEFINE g == CHOOSE g : Adds(g, v, X)
<1>1. Adds(g, v, X)
  BY SumExists
<1>2. Time(v, X) = g[X]
  BY DEF Time, Adds, Some, MapThenSumSet, MapThenFoldSet
<1>. QED BY <1>1, <1>2

LEMMA SumsAgree ==
  ASSUME NEW g, NEW v, NEW X, Adds(g, v, X), Timed(v, X),
         NEW h, NEW u, NEW Y, Adds(h, u, Y),
         NEW s, s \subseteq X \cap Y, \A x \in s : v[x].duration = u[x].duration
  PROVE  g[s] = h[s] /\ g[s] \in Nat
<1>. DEFINE T == {n \in Nat : \E z \in SUBSET s : /\ Cardinality(z) = n
                                                   /\ ~(g[z] = h[z] /\ g[z] \in Nat)}
<1>1. \A z \in SUBSET s : IsFiniteSet(z) /\ Cardinality(z) \in Nat
  BY FS_Subset, FS_CardinalityType DEF Timed
<1>2. T = {}
  <2> SUFFICES ASSUME T # {} PROVE FALSE
    OBVIOUS
  <2>1. PICK n \in T : \A m \in T : n <= m
    BY LeastElement
  <2>2. PICK z \in SUBSET s : Cardinality(z) = n /\ ~(g[z] = h[z] /\ g[z] \in Nat)
    BY <2>1
  <2>3. z \in SUBSET X /\ z \in SUBSET Y
    OBVIOUS
  <2>4. /\ g[z] = IF z = {} THEN 0 ELSE v[Some(z)].duration + g[z \ {Some(z)}]
        /\ h[z] = IF z = {} THEN 0 ELSE u[Some(z)].duration + h[z \ {Some(z)}]
    BY <2>3 DEF Adds
  <2>5. z # {}
    BY <2>2, <2>4
  <2>6. Some(z) \in z
    BY <2>5, SomeElement
  <2>. DEFINE y == z \ {Some(z)}
  <2>7. y \in SUBSET s /\ Cardinality(y) = n - 1 /\ n - 1 \in Nat
    BY <1>1, <2>2, <2>6, OneLess
  <2>8. g[y] = h[y] /\ g[y] \in Nat
    <3>1. n - 1 \notin T
      BY <2>1, <2>7
    <3>. QED BY <2>7, <3>1
  <2>9. v[Some(z)].duration = u[Some(z)].duration /\ v[Some(z)].duration \in Nat
    BY <2>6 DEF Timed
  <2>. QED BY <2>2, <2>4, <2>5, <2>8, <2>9
<1>3. Cardinality(s) \in Nat /\ Cardinality(s) \notin T
  BY <1>1, <1>2
<1>. QED BY <1>3

\* Sums of what is the same are the same.
LEMMA TimeSame ==
  ASSUME NEW v, NEW u, NEW X, Timed(v, X), \A x \in X : v[x].duration = u[x].duration
  PROVE  Time(v, X) = Time(u, X) /\ Time(v, X) \in Nat
<1>1. Timed(u, X)
  BY DEF Timed
<1>2. PICK g : Adds(g, v, X) /\ Time(v, X) = g[X]
  BY TimeAdds
<1>3. PICK h : Adds(h, u, X) /\ Time(u, X) = h[X]
  BY <1>1, TimeAdds
<1>4. g[X] = h[X] /\ g[X] \in Nat
  BY <1>2, <1>3, SumsAgree
<1>. QED BY <1>2, <1>3, <1>4

LEMMA TimeSome ==
  ASSUME NEW v, NEW X, Timed(v, X)
  PROVE  Time(v, X) = IF X = {} THEN 0 ELSE v[Some(X)].duration + Time(v, X \ {Some(X)})
<1>1. PICK g : Adds(g, v, X) /\ Time(v, X) = g[X]
  BY TimeAdds
<1>. DEFINE Y == X \ {Some(X)}
<1>2. g[X] = IF X = {} THEN 0 ELSE v[Some(X)].duration + g[Y]
  <2>1. X \in SUBSET X
    OBVIOUS
  <2>. QED BY <1>1, <2>1 DEF Adds
<1>3. Timed(v, Y)
  BY FS_Subset DEF Timed
<1>4. PICK h : Adds(h, v, Y) /\ Time(v, Y) = h[Y]
  BY <1>3, TimeAdds
<1>5. g[Y] = h[Y]
  BY <1>1, <1>4, SumsAgree
<1>. QED BY <1>1, <1>2, <1>4, <1>5

LEMMA TimeIsNat ==
  ASSUME NEW v, NEW X, Timed(v, X)
  PROVE  Time(v, X) \in Nat
BY TimeSame

\* Whichever run is taken first.
LEMMA TimeAny ==
  ASSUME NEW v, NEW X, Timed(v, X), NEW x \in X
  PROVE  Time(v, X) = v[x].duration + Time(v, X \ {x})
<1>. DEFINE Wrong(z) == \E y \in z : Time(v, z) # v[y].duration + Time(v, z \ {y})
            T == {n \in Nat : \E z \in SUBSET X : Cardinality(z) = n /\ Wrong(z)}
<1>1. \A z \in SUBSET X : Timed(v, z) /\ Cardinality(z) \in Nat
  BY FS_Subset, FS_CardinalityType DEF Timed
<1>2. T = {}
  <2> SUFFICES ASSUME T # {} PROVE FALSE
    OBVIOUS
  <2>1. PICK n \in T : \A m \in T : n <= m
    BY LeastElement
  <2>2. PICK z \in SUBSET X : Cardinality(z) = n /\ Wrong(z)
    BY <2>1
  <2>3. PICK y \in z : Time(v, z) # v[y].duration + Time(v, z \ {y})
    BY <2>2
  <2>. DEFINE c == Some(z)
  <2>4. c \in z /\ Time(v, z) = v[c].duration + Time(v, z \ {c})
    BY <1>1, <2>3, SomeElement, TimeSome
  <2>. HIDE DEF c
  <2>5. c # y
    BY <2>3, <2>4
  <2>6. \A e \in z : /\ z \ {e} \in SUBSET X /\ Cardinality(z \ {e}) = n - 1
                     /\ n - 1 \in Nat
    BY <1>1, <2>2, OneLess DEF Timed
  <2>7. \A e \in z : ~Wrong(z \ {e})
    <3>1. n - 1 \notin T
      BY <2>1, <2>6, <2>4
    <3>. QED BY <2>6, <3>1
  <2>8. Time(v, z \ {c}) = v[y].duration + Time(v, (z \ {c}) \ {y})
    BY <2>4, <2>5, <2>7
  <2>9. Time(v, z \ {y}) = v[c].duration + Time(v, (z \ {y}) \ {c})
    BY <2>4, <2>5, <2>7
  <2>10. (z \ {c}) \ {y} = (z \ {y}) \ {c}
    OBVIOUS
  <2>11. /\ v[c].duration \in Nat /\ v[y].duration \in Nat
         /\ Time(v, (z \ {y}) \ {c}) \in Nat
    <3>1. (z \ {y}) \ {c} \in SUBSET X
      OBVIOUS
    <3>2. Timed(v, (z \ {y}) \ {c})
      BY <1>1, <3>1
    <3>3. Time(v, (z \ {y}) \ {c}) \in Nat
      BY <3>2, TimeIsNat
    <3>4. \A e \in z : v[e].duration \in Nat
      BY <1>1 DEF Timed
    <3>5. v[c].duration \in Nat
      BY <2>4, <3>4
    <3>6. v[y].duration \in Nat
      BY <3>4
    <3>. QED BY <3>3, <3>5, <3>6
  <2>. DEFINE rest == Time(v, (z \ {y}) \ {c})
              dc   == v[c].duration
              dy   == v[y].duration
  <2>12. Time(v, z \ {c}) = dy + rest
    BY <2>8, <2>10
  <2>13. dc \in Nat /\ dy \in Nat /\ rest \in Nat
    BY <2>11
  <2>14. /\ Time(v, z) = dc + Time(v, z \ {c})
         /\ Time(v, z \ {y}) = dc + rest
         /\ Time(v, z) # dy + Time(v, z \ {y})
    BY <2>3, <2>4, <2>9
  <2>. HIDE DEF rest, dc, dy
  <2>15. dc + (dy + rest) = dy + (dc + rest)
    BY <2>13
  <2>. QED BY <2>12, <2>14, <2>15
<1>3. ~Wrong(X)
  BY <1>1, <1>2
<1>. QED BY <1>3

\* The sum without any of the runs that are taken out.
LEMMA TimeSplit ==
  ASSUME NEW v, NEW u, NEW X, Timed(v, X), NEW M, M \subseteq X,
         \A x \in X : u[x].duration = IF x \in M THEN 0 ELSE v[x].duration
  PROVE  Time(v, X) = Time(v, M) + Time(u, X) /\ Time(u, X) \in Nat /\ Time(v, M) \in Nat
<1>. DEFINE Less(w, z) == \A x \in X : w[x].duration = IF x \in z THEN 0 ELSE v[x].duration
            Right(z, w) == Time(v, X) = Time(v, z) + Time(w, X)
            W(z) == [x \in X |-> [duration |-> IF x \in z THEN 0 ELSE v[x].duration]]
            T == {n \in Nat : \E z \in SUBSET X : Cardinality(z) = n /\ ~Right(z, W(z))}
<1>1. \A z \in SUBSET X : /\ IsFiniteSet(z) /\ Cardinality(z) \in Nat
                          /\ Timed(v, z) /\ Time(v, z) \in Nat
  BY FS_Subset, FS_CardinalityType, TimeSame DEF Timed
<1>2. \A z \in SUBSET X : Timed(W(z), X) /\ Time(W(z), X) \in Nat
  <2>. TAKE z \in SUBSET X
  <2>. DEFINE w == W(z)
  <2>1. Timed(w, X)
    BY DEF Timed
  <2>. HIDE DEF w
  <2>2. Time(w, X) \in Nat
    BY <2>1, TimeIsNat
  <2>. QED BY <2>1, <2>2 DEF w
<1>3. T = {}
  <2> SUFFICES ASSUME T # {} PROVE FALSE
    OBVIOUS
  <2>1. PICK n \in T : \A m \in T : n <= m
    BY LeastElement
  <2>2. PICK z \in SUBSET X : Cardinality(z) = n /\ ~Right(z, W(z))
    BY <2>1
  <2>3. z # {}
    <3> SUFFICES ASSUME z = {} PROVE FALSE
      OBVIOUS
    <3>. DEFINE w == W({})
    <3>1. \A x \in X : v[x].duration = w[x].duration
      OBVIOUS
    <3>. HIDE DEF w
    <3>2. Time(v, X) = Time(w, X) /\ Time(v, X) \in Nat
      BY <3>1, TimeSame
    <3>3. Timed(v, {})
      BY <1>1
    <3>4. Time(v, {}) = 0
      BY <3>3, TimeSome
    <3>5. Right({}, w)
      BY <3>2, <3>4
    <3>. QED BY <2>2, <3>5 DEF w
  <2>4. PICK c \in z : TRUE
    BY <2>3
  <2>. DEFINE y == z \ {c}
              a == W(z)
              b == W(y)
  <2>5. y \in SUBSET X /\ Cardinality(y) = n - 1 /\ n - 1 \in Nat
    BY <1>1, <2>2, <2>4, OneLess
  <2>6. Right(y, b)
    <3>1. ~(n <= n - 1)
      BY <2>5
    <3>. HIDE DEF T
    <3>2. n - 1 \notin T
      BY <2>1, <3>1
    <3>. QED BY <2>5, <3>2 DEF T
  <2>7. Timed(a, X) /\ Timed(b, X)
    BY <1>2, <2>5
  <2>8. c \in X /\ a[c].duration = 0 /\ b[c].duration = v[c].duration
    BY <2>4
  <2>9. \A x \in X \ {c} : a[x].duration = b[x].duration
    OBVIOUS
  <2>. HIDE DEF a, b, y
  <2>10. Time(a, X) = Time(a, X \ {c}) /\ Time(b, X) = v[c].duration + Time(b, X \ {c})
    <3>1. Time(a, X) = a[c].duration + Time(a, X \ {c})
      BY <2>7, <2>8, TimeAny
    <3>2. Time(b, X) = b[c].duration + Time(b, X \ {c})
      BY <2>7, <2>8, TimeAny
    <3>3. Timed(a, X \ {c})
      BY <2>7, FS_RemoveElement DEF Timed
    <3>4. Time(a, X \ {c}) \in Nat
      BY <3>3, TimeSame
    <3>. QED BY <2>8, <3>1, <3>2, <3>4
  <2>11. Time(a, X \ {c}) = Time(b, X \ {c}) /\ Time(a, X \ {c}) \in Nat
    <3>1. Timed(a, X \ {c})
      BY <2>7, FS_RemoveElement DEF Timed
    <3>. QED BY <2>9, <3>1, TimeSame
  <2>12. Time(v, z) = v[c].duration + Time(v, y)
    BY <1>1, <2>4, TimeAny DEF y
  <2>13. v[c].duration \in Nat /\ Time(v, y) \in Nat
    BY <1>1, <2>5, <2>8 DEF Timed
  <2>14. Right(z, a)
    BY <2>6, <2>10, <2>11, <2>12, <2>13
  <2>. QED BY <2>2, <2>14 DEF a
<1>4. Cardinality(M) \in Nat /\ Cardinality(M) \notin T
  BY <1>1, <1>3
<1>. DEFINE w == W(M)
<1>5. Right(M, w)
  BY <1>4
<1>6. \A x \in X : w[x].duration = u[x].duration
  OBVIOUS
<1>7. Timed(w, X) /\ Time(w, X) \in Nat
  BY <1>2
<1>. HIDE DEF w
<1>8. Time(w, X) = Time(u, X)
  BY <1>6, <1>7, TimeSame
<1>. QED BY <1>1, <1>5, <1>7, <1>8

\* A run that is written changes the sum by what its duration changes.
LEMMA TimeUpdate ==
  ASSUME NEW v, NEW u, NEW X, Timed(v, X), NEW x \in X,
         \A y \in X \ {x} : u[y].duration = v[y].duration, u[x].duration \in Nat
  PROVE  Time(u, X) = Time(v, X) + u[x].duration - v[x].duration
<1>1. Timed(u, X) /\ Timed(v, X \ {x})
  BY FS_RemoveElement DEF Timed
<1>2. Time(v, X \ {x}) = Time(u, X \ {x}) /\ Time(v, X \ {x}) \in Nat
  BY <1>1, TimeSame
<1>3. Time(v, X) = v[x].duration + Time(v, X \ {x})
  BY TimeAny
<1>4. Time(u, X) = u[x].duration + Time(u, X \ {x})
  BY <1>1, TimeAny
<1>5. v[x].duration \in Nat
  BY DEF Timed
<1>. QED BY <1>2, <1>3, <1>4, <1>5

-----------------------------------------------------------------------------
(* The total runtime. *)

Unraced(r) == RunsOf(r) \cap raced = {}

\* What the cleanup j would delete of the repository r now.
DueOf(j, r) == {x \in Matching(j) : RepositoryOf[x] = r}

\* A run that is not stored takes no time.
TotalTypes ==
  /\ total \in [Repositories -> Int]
  /\ retained \in [Repositories -> Nat]
  /\ \A x \in Runs : ~run[x].stored => run[x] = NoRun

\* The sums of an open cleanup are still those of what it would delete ...
SumsHold(j) ==
  /\ job[j].sums \in [Repositories -> Nat]
  /\ \A r \in Repositories : Unraced(r) => job[j].sums[r] = Time(run, DueOf(j, r))

\* ... and two cleanups that are open have raced each other.
OneIsOpen == \A j, k \in Open : j # k => Runs \subseteq raced

RuntimeIsKept ==
  \A r \in Repositories : Unraced(r) => retained[r] + Time(run, RunsOf(r)) = total[r]

Accounts ==
  /\ TotalTypes
  /\ \A j \in Open : SumsHold(j)
  /\ OneIsOpen
  /\ RuntimeIsKept

LEMMA RunsAreTimed ==
  ASSUME PeriodsAreKept, NEW X, X \subseteq Runs
  PROVE  Timed(run, X) /\ Time(run, X) \in Nat
<1>1. Timed(run, X)
  BY RetentionConstants, FS_Subset DEF Timed, PeriodsAreKept, StoredRun
<1>. QED BY <1>1, TimeIsNat

LEMMA InitAccounts == Init => Accounts
<1> SUFFICES ASSUME Init PROVE Accounts
  OBVIOUS
<1>1. Open = {}
  BY DEF Init, Open, Idle
<1>2. TotalTypes
  BY DEF Init, TotalTypes
<1>3. ASSUME NEW r \in Repositories
      PROVE  retained[r] + Time(run, RunsOf(r)) = total[r]
  <2>1. RunsOf(r) \subseteq Runs
    BY DEF RunsOf
  <2>2. \A x \in Runs : run[x].duration = 0
    BY DEF Init, NoRun
  <2>3. Timed(run, RunsOf(r))
    BY <2>1, <2>2, RetentionConstants, FS_Subset DEF Timed
  <2>4. Time(run, RunsOf(r)) = Time(run, RunsOf(r)) + Time(run, RunsOf(r))
    <3>1. \A x \in RunsOf(r) : run[x].duration = IF x \in RunsOf(r) THEN 0
                                                 ELSE run[x].duration
      BY <2>1, <2>2
    <3>. QED BY <2>3, <3>1, TimeSplit
  <2>5. Time(run, RunsOf(r)) \in Nat
    BY <2>3, TimeIsNat
  <2>6. Time(run, RunsOf(r)) = 0
    <3>. DEFINE t == Time(run, RunsOf(r))
    <3>1. t = t + t /\ t \in Nat
      BY <2>4, <2>5
    <3>. HIDE DEF t
    <3>2. t = 0
      BY <3>1
    <3>. QED BY <3>2 DEF t
  <2>7. retained[r] = 0 /\ total[r] = 0
    BY DEF Init
  <2>. QED BY <2>6, <2>7
<1>. QED BY <1>1, <1>2, <1>3 DEF Accounts, OneIsOpen, RuntimeIsKept

\* Once every run has raced, only repositories without runs are unraced.
LEMMA AllRaced ==
  ASSUME Runs \subseteq raced, NEW r \in Repositories, Unraced(r)
  PROVE  RunsOf(r) = {}
BY DEF Unraced, RunsOf

\* A step that leaves the runs and the durations alone keeps the accounts, if it
\* opens no cleanup and changes no period behind the back of an open one.
LEMMA QuietAccounts ==
  ASSUME PeriodsAreKept, Accounts, UNCHANGED <<run, retained, total>>,
         raced \subseteq raced',
         \A j \in Jobs : job'[j].pc = "summed" => job'[j] = job[j],
         UNCHANGED override \/ Open = {} \/ Runs \subseteq raced'
  PROVE  Accounts'
<1>1. \A r \in Repositories : RunsOf(r)' = RunsOf(r) /\ (Unraced(r)' => Unraced(r))
  BY DEF Unraced, RunsOf
<1>2. Open' \subseteq Open
  BY DEF Open
<1>3. OneIsOpen'
  BY <1>2 DEF Accounts, OneIsOpen
<1>4. TotalTypes'
  BY DEF Accounts, TotalTypes, NoRun
<1>5. RuntimeIsKept'
  BY <1>1 DEF Accounts, RuntimeIsKept
<1>6. ASSUME NEW j \in Open'
      PROVE  SumsHold(j)'
  <2>1. j \in Open /\ job'[j] = job[j]
    BY <1>2, <1>6 DEF Open
  <2>2. SumsHold(j)
    BY <2>1 DEF Accounts
  <2>3. ASSUME NEW r \in Repositories, Unraced(r)'
        PROVE  DueOf(j, r)' = DueOf(j, r)
    <3>1. CASE UNCHANGED override
      BY <2>1, <3>1 DEF DueOf, Matching, InScope
    <3>2. CASE Runs \subseteq raced'
      <4>1. RunsOf(r) = {}
        BY <2>3, <3>2 DEF Unraced, RunsOf
      <4>. QED BY <4>1 DEF RunsOf, DueOf, Matching
    <3>. QED BY <2>1, <3>1, <3>2
  <2>. QED BY <1>1, <2>1, <2>2, <2>3 DEF SumsHold
<1>. QED BY <1>3, <1>4, <1>5, <1>6 DEF Accounts

\* A run is written: either it has raced an open cleanup, or its repository's total
\* changes with it and no cleanup is open.
LEMMA WriteAccounts ==
  ASSUME PeriodsAreKept, PeriodsAreKept', Accounts,
         NEW x \in Runs, NEW rec \in StoredRun, rec.stored,
         run' = [run EXCEPT ![x] = rec], UNCHANGED <<override, retained, job>>,
         raced \subseteq raced', total' \in [Repositories -> Int],
         \A r \in Repositories \ {RepositoryOf[x]} : total'[r] = total[r],
         \/ x \in raced'
         \/ /\ Open = {}
            /\ total'[RepositoryOf[x]]
                  = total[RepositoryOf[x]] + rec.duration - run[x].duration
  PROVE  Accounts'
<1>. DEFINE q == RepositoryOf[x]
<1>1. \A r \in Repositories : RunsOf(r)' = RunsOf(r) /\ (Unraced(r)' => Unraced(r))
  BY DEF Unraced, RunsOf
<1>2. Open' = Open /\ OneIsOpen'
  BY DEF Accounts, OneIsOpen, Open
<1>3. run \in [Runs -> StoredRun] /\ run'[x] = rec
      /\ \A y \in Runs \ {x} : run'[y] = run[y]
  BY DEF PeriodsAreKept
<1>4. TotalTypes'
  BY <1>3 DEF Accounts, TotalTypes, NoRun
<1>5. ASSUME NEW r \in Repositories, r # q, NEW X, X \subseteq RunsOf(r)
      PROVE  Time(run', X) = Time(run, X)
  <2>1. X \subseteq Runs /\ x \notin X
    BY <1>5 DEF RunsOf
  <2>2. Timed(run, X)
    BY <2>1, RunsAreTimed
  <2>. DEFINE u == run'
  <2>3. \A y \in X : run[y].duration = u[y].duration
    BY <1>3, <2>1
  <2>. HIDE DEF u
  <2>4. Time(run, X) = Time(u, X)
    BY <2>2, <2>3, TimeSame
  <2>. QED BY <2>4 DEF u
<1>6. ASSUME NEW r \in Repositories, Unraced(r)'
      PROVE  retained'[r] + Time(run', RunsOf(r)) = total'[r]
  <2>1. retained[r] + Time(run, RunsOf(r)) = total[r]
    BY <1>1, <1>6 DEF Accounts, RuntimeIsKept
  <2>2. CASE r # q
    BY <1>5, <2>1, <2>2
  <2>3. CASE r = q
    <3>1. x \in RunsOf(r) /\ RunsOf(r) \subseteq Runs
      BY <2>3 DEF RunsOf
    <3>2. total'[q] = total[q] + rec.duration - run[x].duration
      BY <1>6, <2>3, <3>1 DEF Unraced, RunsOf
    <3>3. Timed(run, RunsOf(r)) /\ Time(run, RunsOf(r)) \in Nat
      BY <3>1, RunsAreTimed
    <3>4. \A y \in RunsOf(r) \ {x} : run'[y].duration = run[y].duration
      BY <1>3, <3>1
    <3>5. run'[x].duration \in Nat /\ run[x].duration \in Nat
      BY <1>3 DEF StoredRun
    <3>. DEFINE u == run'
                X == RunsOf(r)
    <3>6. Time(u, X) = Time(run, X) + u[x].duration - run[x].duration
      <4>1. Timed(run, X) /\ x \in X /\ u[x].duration \in Nat
            /\ \A y \in X \ {x} : u[y].duration = run[y].duration
        BY <3>1, <3>3, <3>4, <3>5
      <4>. HIDE DEF u, X
      <4>. QED BY <4>1, TimeUpdate
    <3>7. retained[r] \in Nat /\ total[r] \in Int
      BY DEF Accounts, TotalTypes
    <3>. QED BY <1>3, <2>1, <2>3, <3>2, <3>3, <3>5, <3>6, <3>7
  <2>. QED BY <2>2, <2>3
<1>7. RuntimeIsKept'
  BY <1>1, <1>6 DEF RuntimeIsKept
<1>8. ASSUME NEW j \in Open'
      PROVE  SumsHold(j)'
  <2>1. j \in Open /\ job' = job /\ x \in raced'
    BY <1>2, <1>8
  <2>2. SumsHold(j)
    BY <2>1 DEF Accounts
  <2>3. ASSUME NEW r \in Repositories, Unraced(r)'
        PROVE  Time(run', DueOf(j, r)') = Time(run, DueOf(j, r))
    <3>1. r # q
      BY <2>1, <2>3 DEF Unraced, RunsOf
    <3>2. DueOf(j, r)' = DueOf(j, r)
      <4>1. \A y \in Runs : RepositoryOf[y] = r => run'[y] = run[y]
        BY <1>3, <3>1
      <4>. QED BY <2>1, <4>1 DEF DueOf, Matching, InScope
    <3>3. DueOf(j, r) \subseteq RunsOf(r)
      BY DEF DueOf, Matching, RunsOf
    <3>. QED BY <1>5, <3>1, <3>2, <3>3
  <2>. QED BY <1>1, <2>1, <2>2, <2>3 DEF SumsHold
<1>. QED BY <1>2, <1>4, <1>7, <1>8 DEF Accounts

LEMMA SynchronizationAccounts ==
  ASSUME PeriodsAreKept, PeriodsAreKept', Accounts, Synchronize
  PROVE  Accounts'
<1>. DEFINE Rec(t, d) == [stored |-> TRUE, completedAt |-> t, duration |-> d]
<1>1. \A t \in Nat \cup {NoTime} : \A d \in Nat : Rec(t, d) \in StoredRun
  BY DEF StoredRun
<1>2. clock \in Nat /\ Durations \subseteq Nat
  BY RetentionConstants DEF PeriodsAreKept
<1>3. UNCHANGED <<override, job>>
  BY SynchronizationKeepsRuns DEF policy
<1>4. ASSUME NEW x \in Runs, NEW t \in Nat \cup {NoTime}, NEW d \in Nat, WriteRun(x, t, d),
             UNCHANGED retained
      PROVE  Accounts'
  <2>. DEFINE rec == Rec(t, d)
  <2>1. rec \in StoredRun /\ rec.stored /\ rec.duration = d
    BY <1>1
  <2>2. run' = [run EXCEPT ![x] = rec]
    BY <1>4 DEF WriteRun
  <2>3. RepositoryOf[x] \in Repositories /\ run[x].duration \in Nat
        /\ total \in [Repositories -> Int]
    BY RetentionConstants DEF PeriodsAreKept, StoredRun, Accounts, TotalTypes
  <2>4. /\ total' \in [Repositories -> Int]
        /\ \A r \in Repositories \ {RepositoryOf[x]} : total'[r] = total[r]
        /\ total'[RepositoryOf[x]] = total[RepositoryOf[x]] + d - run[x].duration
    BY <1>4, <2>3 DEF WriteRun
  <2>5. raced \subseteq raced' /\ (x \in raced' \/ Open = {})
    BY <1>4 DEF WriteRun, Race
  <2>. HIDE DEF rec
  <2>. QED BY <1>3, <1>4, <2>1, <2>2, <2>4, <2>5, WriteAccounts
<1>5. ASSUME NEW x \in Runs, StoreRun(x)
      PROVE  Accounts'
  <2>1. UNCHANGED retained
    BY <1>5 DEF StoreRun
  <2>2. CASE WriteRun(x, NoTime, 0)
    BY <1>4, <2>1, <2>2
  <2>3. ASSUME NEW t \in 0..clock, NEW d \in Durations, WriteRun(x, t, d)
        PROVE  Accounts'
    BY <1>2, <1>4, <2>1, <2>3
  <2>. QED BY <1>5, <2>2, <2>3 DEF StoreRun
<1>6. ASSUME NEW x \in Runs, Refresh(x)
      PROVE  Accounts'
  <2>1. UNCHANGED retained
    BY <1>6 DEF Refresh
  <2>2. PICK t \in 0..clock : \E d \in Durations :
          IF run[x].stored THEN WriteRun(x, t, d)
          ELSE /\ run' = [run EXCEPT ![x] = Rec(t, d)]
               /\ raced' = raced \cup {x}
               /\ UNCHANGED total
    BY <1>6 DEF Refresh
  <2>3. PICK d \in Durations :
          IF run[x].stored THEN WriteRun(x, t, d)
          ELSE /\ run' = [run EXCEPT ![x] = Rec(t, d)]
               /\ raced' = raced \cup {x}
               /\ UNCHANGED total
    BY <2>2
  <2>4. t \in Nat \cup {NoTime} /\ d \in Nat
    BY <1>2
  <2>5. CASE run[x].stored
    BY <1>4, <2>1, <2>3, <2>4, <2>5
  <2>6. CASE ~run[x].stored
    <3>. DEFINE rec == Rec(t, d)
    <3>1. rec \in StoredRun /\ rec.stored
      BY <1>1, <2>4
    <3>2. /\ run' = [run EXCEPT ![x] = rec]
          /\ raced \subseteq raced' /\ x \in raced' /\ UNCHANGED total
      BY <2>3, <2>6
    <3>3. total' \in [Repositories -> Int]
      BY <3>2 DEF Accounts, TotalTypes
    <3>. HIDE DEF rec
    <3>. QED BY <1>3, <2>1, <3>1, <3>2, <3>3, WriteAccounts
  <2>. QED BY <2>5, <2>6
<1>7. ASSUME NEW x \in Runs, ReadForRefresh(x)
      PROVE  Accounts'
  BY <1>3, <1>7, QuietAccounts DEF ReadForRefresh, history
<1>8. ASSUME NEW i \in Items, StoreItem(i) \/ ForgetDeliveries(i)
      PROVE  Accounts'
  BY <1>3, <1>8, QuietAccounts DEF StoreItem, ForgetDeliveries, history
<1>. QED BY <1>5, <1>6, <1>7, <1>8 DEF Synchronize

\* A cleanup sums what it would delete, and races one that is open.
LEMMA SumAccounts ==
  ASSUME PeriodsAreKept, Accounts, NEW j \in Jobs, Sum(j)
  PROVE  Accounts'
<1>1. UNCHANGED <<override, run, retained, total>>
  BY DEF Sum, policy, records
<1>2. /\ DOMAIN job = Jobs /\ job[j].pc = "next"
      /\ DOMAIN job[j] = {"pc", "now", "scope", "days", "rest", "sums"}
  BY DEF Sum, PeriodsAreKept, Carries, Idle
<1>3. /\ job'[j].pc = "summed" /\ job'[j].now = job[j].now
      /\ job'[j].days = job[j].days /\ job'[j].scope = job[j].scope
      /\ job'[j].sums = [r \in Repositories |-> SumOf(DueOf(j, r))]
      /\ \A k \in Jobs \ {j} : job'[k] = job[k]
  BY <1>2 DEF Sum, DueOf
<1>4. j \notin Open /\ Open' = Open \cup {j}
  BY <1>2, <1>3 DEF Open
<1>5. /\ Open # {} => Runs \subseteq raced'
      /\ raced \subseteq raced'
  BY DEF Sum, Race
<1>6. \A r \in Repositories : RunsOf(r)' = RunsOf(r) /\ (Unraced(r)' => Unraced(r))
  BY <1>5 DEF Unraced, RunsOf
<1>7. OneIsOpen'
  BY <1>4, <1>5 DEF OneIsOpen
<1>8. TotalTypes' /\ RuntimeIsKept'
  BY <1>1, <1>6 DEF Accounts, TotalTypes, RuntimeIsKept, NoRun
<1>9. SumsHold(j)'
  <2>1. \A r \in Repositories : DueOf(j, r)' = DueOf(j, r)
    BY <1>1, <1>3 DEF DueOf, Matching, InScope
  <2>2. \A r \in Repositories : SumOf(DueOf(j, r)) = Time(run, DueOf(j, r))
    BY DEF SumOf, Time
  <2>3. \A r \in Repositories : Time(run, DueOf(j, r)) \in Nat
    <3>1. \A r \in Repositories : DueOf(j, r) \subseteq Runs
      BY DEF DueOf, Matching
    <3>. QED BY <3>1, RunsAreTimed
  <2>. QED BY <1>1, <1>3, <2>1, <2>2, <2>3 DEF SumsHold
<1>10. ASSUME NEW k \in Open
       PROVE  SumsHold(k)'
  <2>1. SumsHold(k) /\ job'[k] = job[k]
    BY <1>3, <1>4, <1>10 DEF Accounts, Open
  <2>2. \A r \in Repositories : DueOf(k, r)' = DueOf(k, r)
    BY <1>1, <2>1 DEF DueOf, Matching, InScope
  <2>. QED BY <1>1, <1>6, <2>1, <2>2 DEF SumsHold
<1>. QED BY <1>4, <1>7, <1>8, <1>9, <1>10 DEF Accounts

\* A cleanup retains what it deletes, unless something raced it.
LEMMA DeleteAccounts ==
  ASSUME PeriodsAreKept, PeriodsAreKept', Accounts, NEW j \in Jobs, DeleteRuns(j)
  PROVE  Accounts'
<1>1. UNCHANGED <<override, total, raced>> /\ j \in Open
  BY DEF DeleteRuns, policy, history, Open
<1>2. DOMAIN job = Jobs
      /\ DOMAIN job[j] = {"pc", "now", "scope", "days", "rest", "sums"}
  BY <1>1 DEF Open, PeriodsAreKept, Carries, Idle
<1>3. job'[j].pc = "done" /\ \A k \in Jobs \ {j} : job'[k] = job[k]
  BY <1>2 DEF DeleteRuns
<1>4. Open' = Open \ {j}
  BY <1>3 DEF Open
<1>5. /\ SumsHold(j)
      /\ retained' = [r \in Repositories |-> retained[r] + job[j].sums[r]]
  BY <1>1 DEF Accounts, DeleteRuns, Incremented
<1>6. /\ \A x \in Matching(j) : run'[x] = NoRun
      /\ \A x \in Runs \ Matching(j) : run'[x] = run[x]
  BY DEF DeleteRuns, Matching
<1>7. \A r \in Repositories : RunsOf(r)' = RunsOf(r) /\ Unraced(r)' = Unraced(r)
  BY <1>1 DEF Unraced, RunsOf
<1>8. OneIsOpen'
  BY <1>1, <1>4 DEF Accounts, OneIsOpen
<1>9. TotalTypes'
  <2>1. \A x \in Runs : ~run'[x].stored => run'[x] = NoRun
    BY <1>6 DEF Accounts, TotalTypes
  <2>2. retained' \in [Repositories -> Nat]
    BY <1>5 DEF Accounts, TotalTypes, SumsHold
  <2>3. total' \in [Repositories -> Int]
    BY <1>1 DEF Accounts, TotalTypes
  <2>. QED BY <2>1, <2>2, <2>3 DEF TotalTypes, NoRun
<1>10. ASSUME NEW r \in Repositories, Unraced(r)
       PROVE  retained'[r] + Time(run', RunsOf(r)) = total[r]
  <2>. DEFINE M == DueOf(j, r)
  <2>1. M \subseteq RunsOf(r) /\ RunsOf(r) \subseteq Runs
    BY DEF DueOf, Matching, RunsOf
  <2>2. \A x \in RunsOf(r) : x \in M <=> x \in Matching(j)
    BY DEF DueOf, RunsOf
  <2>3. \A x \in RunsOf(r) :
          run'[x].duration = IF x \in M THEN 0 ELSE run[x].duration
    BY <1>6, <2>1, <2>2 DEF NoRun
  <2>4. Timed(run, RunsOf(r))
    BY <2>1, RunsAreTimed
  <2>. HIDE DEF M
  <2>5. /\ Time(run, RunsOf(r)) = Time(run, M) + Time(run', RunsOf(r))
        /\ Time(run', RunsOf(r)) \in Nat /\ Time(run, M) \in Nat
    BY <2>1, <2>3, <2>4, TimeSplit
  <2>6. job[j].sums[r] = Time(run, M)
    BY <1>5, <1>10 DEF SumsHold, M
  <2>7. /\ retained[r] + Time(run, RunsOf(r)) = total[r]
        /\ retained[r] \in Nat
    BY <1>10 DEF Accounts, RuntimeIsKept, TotalTypes
  <2>8. retained'[r] = retained[r] + Time(run, M)
    BY <1>5, <2>6
  <2>. QED BY <2>5, <2>7, <2>8
<1>11. RuntimeIsKept'
  BY <1>1, <1>7, <1>10 DEF RuntimeIsKept
<1>12. ASSUME NEW k \in Open'
       PROVE  SumsHold(k)'
  <2>1. k \in Open /\ k # j /\ job'[k] = job[k] /\ SumsHold(k)
    BY <1>3, <1>4, <1>12 DEF Accounts, Open
  <2>2. Runs \subseteq raced
    BY <1>1, <2>1 DEF Accounts, OneIsOpen
  <2>3. ASSUME NEW r \in Repositories, Unraced(r)
        PROVE  DueOf(k, r) = {} /\ DueOf(k, r)' = {}
    BY <2>2, <2>3, AllRaced DEF RunsOf, DueOf, Matching
  <2>4. Time(run, {}) = 0 /\ Time(run', {}) = 0
    <3>1. Timed(run, {}) /\ Timed(run', {})
      BY FS_EmptySet DEF Timed
    <3>. QED BY <3>1, TimeSome
  <2>. QED BY <1>7, <2>1, <2>3, <2>4 DEF SumsHold
<1>. QED BY <1>8, <1>9, <1>11, <1>12 DEF Accounts

LEMMA StepAccounts ==
  ASSUME PeriodsAreKept, PeriodsAreKept', Accounts, [Next]_vars
  PROVE  Accounts'
<1>1. CASE Tick
  BY <1>1, QuietAccounts DEF Tick, policy, records, history
<1>2. CASE Synchronize
  BY <1>2, SynchronizationAccounts
<1>3. CASE ChangePeriod
  <2>1. /\ UNCHANGED <<run, retained, total, job>> /\ raced \subseteq raced'
        /\ Open = {} \/ Runs \subseteq raced'
    BY <1>3 DEF ChangePeriod, records, Race
  <2>. QED BY <2>1, QuietAccounts
<1>4. ASSUME NEW j \in Jobs,
             \/ Start(j) \/ ReadOverrides(j) \/ NextRepository(j) \/ DeleteIssues(j)
             \/ DeletePulls(j) \/ Abort(j)
      PROVE  Accounts'
  <2>1. UNCHANGED <<run, retained, total, override, raced>>
    BY <1>4 DEF Start, ReadOverrides, NextRepository, DeleteIssues, DeletePulls, Abort,
                policy, records, history
  <2>2. \A k \in Jobs \ {j} : job'[k] = job[k]
    BY <1>4 DEF Start, ReadOverrides, NextRepository, DeleteIssues, DeletePulls, Abort,
                PeriodsAreKept
  <2>3. job'[j].pc # "summed"
    <3>1. CASE Start(j) \/ DeletePulls(j) \/ Abort(j)
      BY <3>1 DEF Start, DeletePulls, Abort, PeriodsAreKept, Idle
    <3>2. CASE ReadOverrides(j) \/ NextRepository(j) \/ DeleteIssues(j)
      <4>1. job[j].pc \in {"done", "choosing", "issues"}
        BY <3>2 DEF ReadOverrides, NextRepository, DeleteIssues
      <4>2. /\ DOMAIN job = Jobs
            /\ DOMAIN job[j] = {"pc", "now", "scope", "days", "rest", "sums"}
        BY <4>1 DEF PeriodsAreKept, Carries, Idle
      <4>3. ASSUME NEW p, job' = [job EXCEPT ![j].pc = "next", ![j].scope = p[1],
                                            ![j].days = p[2], ![j].rest = @ \ {p}]
            PROVE  job'[j].pc = "next"
        BY <4>2, <4>3
      <4>4. CASE NextRepository(j)
        BY <4>2, <4>3, <4>4 DEF NextRepository
      <4>. QED BY <3>2, <4>2, <4>4 DEF ReadOverrides, DeleteIssues
    <3>. QED BY <1>4, <3>1, <3>2
  <2>. QED BY <2>1, <2>2, <2>3, QuietAccounts
<1>5. ASSUME NEW j \in Jobs, Sum(j)
      PROVE  Accounts'
  BY <1>5, SumAccounts
<1>6. ASSUME NEW j \in Jobs, DeleteRuns(j)
      PROVE  Accounts'
  BY <1>6, DeleteAccounts
<1>7. CASE UNCHANGED vars
  BY <1>7, QuietAccounts DEF vars, policy, records, history
<1>. QED BY <1>1, <1>2, <1>3, <1>4, <1>5, <1>6, <1>7 DEF Next, Clean

LEMMA AccountsKeepTotal == Accounts => TotalIsKept
<1> SUFFICES ASSUME Accounts PROVE TotalIsKept
  OBVIOUS
<1>1. \A r \in Repositories : SumOf(RunsOf(r)) = Time(run, RunsOf(r))
  BY DEF SumOf, Time
<1>. QED BY <1>1 DEF Accounts, RuntimeIsKept, Unraced, TotalIsKept, Shown

\* The total runtime of a repository survives the transactions of
\* workflow-run-retention.service.ts, which sum and delete in two statements, whoever
\* stores runs, changes periods, crashes or cleans besides: whatever is summed is what
\* is deleted, except for repositories with runs that raced.
THEOREM TotalIsKeptHolds == Spec => []TotalIsKept
<1>1. Init => PeriodsAreKept /\ Accounts
  BY InitKeepsPeriods, InitAccounts
<1>2. PeriodsAreKept /\ Accounts /\ [Next]_vars => (PeriodsAreKept /\ Accounts)'
  BY StepKeepsPeriods, StepAccounts
<1>3. PeriodsAreKept /\ Accounts => TotalIsKept
  BY AccountsKeepTotal
<1>. QED BY <1>1, <1>2, <1>3, PTL DEF Spec
=============================================================================
