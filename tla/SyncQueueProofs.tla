--------------------------- MODULE SyncQueueProofs ---------------------------
(***************************************************************************)
(* Proofs about SyncQueue, for any number of repositories, accounts,       *)
(* workers, tokens, requests and faults: its type invariant; that no two   *)
(* workers whose leases last work for the same account; of its rows and of *)
(* what a claim reads, that a running row carries a lease, that no request *)
(* is claimed before it is due, and that no requested work is forgotten;   *)
(* and that the queue implements its two abstract specifications, its      *)
(* leases the lock of each provider account and its rows the requests of   *)
(* those who ask for work.                                                 *)
(***************************************************************************)
EXTENDS SyncQueueRefinement, TLAPS

USE ConstantsAssumption, DeadlinesAssumption

TypeInv == TypeOK /\ ClaimPhase

-----------------------------------------------------------------------------
(* What the operators on rows and claims return. *)

\* A claim is not the null claim, and orphaning it changes neither that nor its
\* repository nor its token: the process still runs what it claimed.
LEMMA OrphanedClaim ==
  ASSUME NEW c \in Claim \cup {NoClaim}, NEW R
  PROVE  /\ Orphaned(c, R) \in Claim \cup {NoClaim}
         /\ Orphaned(c, R) = NoClaim <=> c = NoClaim
         /\ Orphaned(c, R).token = c.token
         /\ c # NoClaim => Orphaned(c, R).repository = c.repository
<1>1. CASE c = NoClaim
  BY <1>1 DEF Orphaned
<1>2. CASE c # NoClaim
  <2>1. c \in Claim
    BY <1>2
  <2>2. [c EXCEPT !.live = FALSE] \in Claim
    BY <2>1 DEF Claim
  <2>3. \A d \in Claim : d # NoClaim
    BY DEF Claim, NoClaim
  <2>4. /\ [c EXCEPT !.live = FALSE].token = c.token
        /\ [c EXCEPT !.live = FALSE].repository = c.repository
    BY <2>1 DEF Claim
  <2> QED
    BY <1>2, <2>1, <2>2, <2>3, <2>4 DEF Orphaned
<1> QED
  BY <1>1, <1>2

\* Orphaned candidates are candidates: claimNextRequest goes on with its list.
LEMMA OrphanedCandidate ==
  ASSUME NEW c \in Candidate, NEW R
  PROVE  Orphaned(c, R) \in Candidate
BY DEF Orphaned, Candidate

\* The upsert and the reset yield proper rows.
LEMMA RowTypes ==
  ASSUME NEW row \in Request \cup {NoRequest}, NEW S \in SUBSET Scopes
  PROVE  /\ Merge(row, S) \in Request
         /\ NewRequest(S) \in Request
         /\ row # NoRequest => Restarted(row) \in Request
         /\ row # NoRequest => RestartedAnew(row) \in Request
<1>1. NewRequest(S) \in Request
  BY DEF NewRequest, Request, Statuses
<1>2. CASE row = NoRequest
  BY <1>1, <1>2 DEF Merge
<1>3. CASE row # NoRequest
  <2>1. row \in Request
    BY <1>3
  <2>2. Restarted(row) \in Request
    BY <2>1 DEF Restarted, Request, Statuses
  <2>3. Merge(row, S) \in Request
    <3>1. /\ row.generation + 1 \in Nat
          /\ row.scopes \cup S \in SUBSET Scopes
          /\ row.lease \in Tokens \cup {NoToken}
          /\ row.attempt \in Nat
      BY <2>1 DEF Request
    <3>2. CASE row.status = "RUNNING"
      BY <1>3, <2>1, <3>1, <3>2 DEF Merge, Request, Statuses
    <3>3. CASE row.status # "RUNNING"
      BY <1>3, <2>1, <3>1, <3>3 DEF Merge, Request, Statuses
    <3> QED
      BY <3>2, <3>3
  <2>4. RestartedAnew(row) \in Request
    <3> DEFINE base == Restarted(row)
    <3>1. row.generation + 1 \in Nat /\ base \in Request
      BY <2>1, <2>2 DEF Request
    <3>2. RestartedAnew(row) = [base EXCEPT !.generation = row.generation + 1,
                                            !.scopes = Scopes]
      BY DEF RestartedAnew
    <3> HIDE DEF base
    <3> QED
      BY <3>1, <3>2 DEF Request
  <2> QED
    BY <1>1, <2>2, <2>3, <2>4
<1> QED
  BY <1>2, <1>3

-----------------------------------------------------------------------------
(* Type correctness. *)

LEMMA ArmType ==
  ASSUME TypeOK, NEW ds \in SUBSET Deadlines, NEW late, Arm(ds, late)
  PROVE  elapsed' \subseteq Deadlines /\ seen' \in [Workers -> SUBSET Deadlines]
BY DEF TypeOK, Arm

LEMMA ClearType ==
  ASSUME TypeOK, NEW ds \in SUBSET Deadlines, Clear(ds)
  PROVE  elapsed' \subseteq Deadlines /\ seen' \in [Workers -> SUBSET Deadlines]
BY DEF TypeOK, Clear

LEMMA AskType ==
  ASSUME TypeOK, NEW r \in Repositories, NEW S \in SUBSET Scopes, Ask(r, S)
  PROVE  /\ owed' \in [Repositories -> SUBSET Scopes]
         /\ covers' \in [Workers -> SUBSET Scopes]
         /\ exposed' \in [Repositories -> SUBSET Scopes]
<1>1. owed' \in [Repositories -> SUBSET Scopes]
  BY DEF TypeOK, Ask
<1>2. covers' \in [Workers -> SUBSET Scopes]
  BY DEF TypeOK, Ask
<1>3. exposed' \in [Repositories -> SUBSET Scopes]
  BY DEF TypeOK, Ask
<1> QED
  BY <1>1, <1>2, <1>3

LEMMA EnqueueType ==
  ASSUME TypeInv, NEW r \in Repositories, NEW S \in SUBSET Scopes, Enqueue(r, S),
         pass' \subseteq Repositories,
         manual' \in [Repositories -> {"none", "update", "create"}]
  PROVE  TypeInv'
<1>1. request' \in [Repositories -> Request \cup {NoRequest}]
  BY RowTypes DEF TypeInv, TypeOK, Enqueue
<1>2. elapsed' \subseteq Deadlines /\ seen' \in [Workers -> SUBSET Deadlines]
  <2>1. PICK late \in SUBSET Choosing : Arm({r}, late)
    BY DEF Enqueue
  <2> QED
    BY <2>1, ArmType DEF TypeInv, Deadlines
<1>3. /\ owed' \in [Repositories -> SUBSET Scopes]
      /\ covers' \in [Workers -> SUBSET Scopes]
      /\ exposed' \in [Repositories -> SUBSET Scopes]
  BY AskType DEF TypeInv, Enqueue
<1> QED
  BY <1>1, <1>2, <1>3
  DEF TypeInv, TypeOK, ClaimPhase, Claiming, Enqueue, switches

LEMMA ProduceType ==
  ASSUME TypeInv, Produce
  PROVE  TypeInv'
<1>1. CASE StartReconciliation
  BY <1>1 DEF TypeInv, TypeOK, ClaimPhase, Claiming, StartReconciliation, switches,
              rows, local, history
<1>2. ASSUME NEW r \in Repositories, ReconcileRepository(r)
      PROVE  TypeInv'
  BY <1>2, EnqueueType DEF TypeInv, TypeOK, ReconcileRepository
<1>3. ASSUME NEW r \in Repositories, NEW S \in (SUBSET Scopes) \ {{}},
             EnqueueWebhook(r, S)
      PROVE  TypeInv'
  BY <1>3, EnqueueType DEF TypeInv, TypeOK, EnqueueWebhook, producers
<1>4. ASSUME NEW r \in Repositories, ReadAvailability(r) \/ RefuseStart(r)
      PROVE  TypeInv'
  BY <1>4 DEF TypeInv, TypeOK, ClaimPhase, Claiming, ReadAvailability, RefuseStart,
              switches, rows, local, history
<1>5. ASSUME NEW r \in Repositories, StartAvailable(r)
      PROVE  TypeInv'
  <2>1. request' \in [Repositories -> Request \cup {NoRequest}]
    <3>1. NewRequest(Scopes) \in Request
      BY RowTypes
    <3>2. request[r] # NoRequest => RestartedAnew(request[r]) \in Request
      BY RowTypes DEF TypeInv, TypeOK
    <3> QED
      BY <1>5, <3>1, <3>2 DEF TypeInv, TypeOK, StartAvailable, Queued
  <2>2. elapsed' \subseteq Deadlines /\ seen' \in [Workers -> SUBSET Deadlines]
    <3>1. PICK late \in SUBSET Choosing : Arm({r}, late)
      BY <1>5 DEF StartAvailable
    <3> QED
      BY <3>1, ArmType DEF TypeInv, Deadlines
  <2>3. /\ owed' \in [Repositories -> SUBSET Scopes]
        /\ covers' \in [Workers -> SUBSET Scopes]
        /\ exposed' \in [Repositories -> SUBSET Scopes]
    BY <1>5, AskType DEF TypeInv, StartAvailable
  <2> QED
    BY <1>5, <2>1, <2>2, <2>3
    DEF TypeInv, TypeOK, ClaimPhase, Claiming, StartAvailable, switches
<1> QED
  BY <1>1, <1>2, <1>3, <1>4, <1>5 DEF Produce

LEMMA DeleteType ==
  ASSUME TypeOK, NEW R, Delete(R)
  PROVE  /\ request' \in [Repositories -> Request \cup {NoRequest}]
         /\ candidates' \in [Workers -> SUBSET Candidate]
<1>1. request' \in [Repositories -> Request \cup {NoRequest}]
  BY DEF TypeOK, Delete
<1>2. ASSUME NEW w \in Workers
      PROVE  {Orphaned(c, R) : c \in candidates[w]} \in SUBSET Candidate
  <2>1. candidates[w] \subseteq Candidate
    BY DEF TypeOK
  <2> QED
    BY <2>1, OrphanedCandidate
<1>3. candidates' = [w \in Workers |-> {Orphaned(c, R) : c \in candidates[w]}]
  BY DEF Delete
<1> QED
  BY <1>1, <1>2, <1>3

LEMMA StartProcessingType ==
  ASSUME TypeInv, NEW w \in Workers, StartProcessing(w)
  PROVE  TypeInv'
<1> DEFINE R == {r \in Repositories : ~Enabled(r)}
<1>1. Delete(R) /\ claim' = [v \in Workers |-> Orphaned(claim[v], R)]
  BY DEF StartProcessing
<1> HIDE DEF R
<1>2. /\ request' \in [Repositories -> Request \cup {NoRequest}]
      /\ candidates' \in [Workers -> SUBSET Candidate]
  BY <1>1, DeleteType DEF TypeInv
<1>3. ASSUME NEW v \in Workers
      PROVE  /\ Orphaned(claim[v], R) \in Claim \cup {NoClaim}
             /\ Orphaned(claim[v], R) = NoClaim <=> claim[v] = NoClaim
  <2>1. claim[v] \in Claim \cup {NoClaim}
    BY DEF TypeInv, TypeOK
  <2> QED
    BY <2>1, OrphanedClaim
<1>4. claim' \in [Workers -> Claim \cup {NoClaim}]
  BY <1>1, <1>3
<1>5. ClaimPhase'
  BY <1>1, <1>3
  DEF TypeInv, TypeOK, ClaimPhase, Claiming, ClaimedPhases, StartProcessing
<1> QED
  BY <1>2, <1>4, <1>5
  DEF TypeInv, TypeOK, StartProcessing, switches, producers, history

LEMMA ReadCandidatesType ==
  ASSUME TypeInv, NEW w \in Workers, ReadCandidates(w)
  PROVE  TypeInv'
<1>1. \A r \in Repositories : Claimable(request[r], r, elapsed) =>
        [repository |-> r, live |-> TRUE, attempt |-> request[r].attempt,
         generation |-> request[r].generation, scopes |-> request[r].scopes]
          \in Candidate
  BY DEF TypeInv, TypeOK, Claimable, Candidate, Request
<1>2. candidates' \in [Workers -> SUBSET Candidate]
  BY <1>1 DEF TypeInv, TypeOK, ReadCandidates
<1>3. seen' \in [Workers -> SUBSET Deadlines]
  BY DEF TypeInv, TypeOK, ReadCandidates
<1>4. /\ pc' \in [Workers -> {"idle", "polling", "choosing", "claimed", "syncing",
                              "settling", "writing"}]
      /\ ClaimPhase'
  BY DEF TypeInv, TypeOK, ClaimPhase, Claiming, ClaimedPhases, ReadCandidates
<1> QED
  BY <1>2, <1>3, <1>4
  DEF TypeInv, TypeOK, ReadCandidates, switches, rows, producers, history

LEMMA ClaimsType ==
  ASSUME TypeInv, NEW w \in Workers, Claims(w)
  PROVE  TypeInv'
<1> PICK c \in candidates[w] :
      (\E t \in Tokens : ClaimCandidate(w, c, t)) \/ SkipCandidate(w, c)
  BY DEF Claims
<1>1. c \in Candidate
  BY DEF TypeInv, TypeOK
<1>2. ASSUME NEW t \in Tokens, ClaimCandidate(w, c, t)
      PROVE  TypeInv'
  <2> DEFINE r == c.repository
             new == [repository |-> r, live |-> TRUE, attempt |-> c.attempt + 1,
                     generation |-> c.generation, scopes |-> c.scopes, token |-> t]
  <2>1. r \in Repositories /\ new \in Claim /\ new # NoClaim
    BY <1>1 DEF Candidate, Claim, NoClaim
  <2>2. request[r] \in Request
    BY <1>2, <2>1
    DEF TypeInv, TypeOK, ClaimCandidate, Acquirable, Claimable
  <2>3. request' \in [Repositories -> Request \cup {NoRequest}]
    <3> DEFINE row == [request[r] EXCEPT !.status = "RUNNING",
                                         !.attempt = request[r].attempt + 1,
                                         !.lease = t]
    <3>1. request[r].attempt + 1 \in Nat
      BY <2>2 DEF Request
    <3>2. row \in Request
      BY <2>2, <3>1 DEF Request, Statuses
    <3>3. request' = [request EXCEPT ![r] = row]
      BY <1>2, <2>1, <2>2 DEF ClaimCandidate, TypeInv, TypeOK
    <3> HIDE DEF row
    <3> QED
      BY <3>2, <3>3 DEF TypeInv, TypeOK
  <2>4. /\ claim' \in [Workers -> Claim \cup {NoClaim}]
        /\ candidates' \in [Workers -> SUBSET Candidate]
        /\ ClaimPhase'
    BY <1>2, <2>1
    DEF TypeInv, TypeOK, ClaimPhase, Claiming, ClaimedPhases, ClaimCandidate
  <2>5. /\ seen' \in [Workers -> SUBSET Deadlines]
        /\ elapsed' \subseteq Deadlines
    BY <1>2 DEF TypeInv, TypeOK, ClaimCandidate
  <2> QED
    BY <1>2, <2>3, <2>4, <2>5
    DEF TypeInv, TypeOK, ClaimCandidate, switches, producers, history
<1>3. CASE SkipCandidate(w, c)
  <2>1. /\ pc' \in [Workers -> {"idle", "polling", "choosing", "claimed",
                                "syncing", "settling", "writing"}]
        /\ ClaimPhase'
    BY <1>3
    DEF TypeInv, TypeOK, ClaimPhase, Claiming, ClaimedPhases, SkipCandidate
  <2> QED
    BY <1>3, <2>1
    DEF TypeInv, TypeOK, SkipCandidate, switches, producers, history
<1> QED
  BY <1>2, <1>3

LEMMA ExecuteType ==
  ASSUME TypeInv, NEW w \in Workers,
         \/ BeginSync(w)
         \/ \E v \in Verdicts : EndSync(w, v)
         \/ ReadCurrent(w)
  PROVE  TypeInv'
<1>1. CASE BeginSync(w)
  <2>1. claim[w] \in Claim
    BY <1>1 DEF TypeInv, TypeOK, ClaimPhase, Claiming, ClaimedPhases, BeginSync
  <2>2. claim[w].scopes \in SUBSET Scopes
    BY <2>1 DEF Claim
  <2> QED
    BY <1>1, <2>2 DEF TypeInv, TypeOK, ClaimPhase, Claiming, ClaimedPhases, BeginSync,
                      switches, rows, producers
<1>2. ASSUME NEW v \in Verdicts, EndSync(w, v)
      PROVE  TypeInv'
  BY <1>2 DEF TypeInv, TypeOK, ClaimPhase, Claiming, ClaimedPhases, EndSync,
              switches, rows, producers, history
<1>3. CASE ReadCurrent(w)
  BY <1>3 DEF TypeInv, TypeOK, ClaimPhase, Claiming, ClaimedPhases, ReadCurrent,
              switches, rows, producers, history
<1> QED
  BY <1>1, <1>2, <1>3

LEMMA WriteCompletionType ==
  ASSUME TypeInv, NEW w \in Workers, WriteCompletion(w)
  PROVE  TypeInv'
<1> DEFINE c == claim[w]
           r == c.repository
           a == AccountOf[r]
<1>1. c \in Claim
  BY DEF TypeInv, TypeOK, ClaimPhase, Claiming, ClaimedPhases, WriteCompletion
<1>2. r \in Repositories /\ a \in Accounts /\ c.scopes \in SUBSET Scopes
  BY <1>1 DEF Claim
<1>3. RowExists(w) => request[r] \in Request
  BY <1>2 DEF TypeInv, TypeOK, RowExists, Queued
<1>4. /\ request' \in [Repositories -> Request \cup {NoRequest}]
      /\ candidates' \in [Workers -> SUBSET Candidate]
  <2>1. CASE UNCHANGED <<request, candidates>>
    BY <2>1 DEF TypeInv, TypeOK
  <2>2. CASE /\ RowExists(w)
             /\ request' = [request EXCEPT ![r] = Restarted(@)]
             /\ UNCHANGED candidates
    <3>1. Restarted(request[r]) \in Request
      BY <1>3, <2>2, RowTypes DEF RowExists, Queued
    <3> QED
      BY <2>2, <3>1 DEF TypeInv, TypeOK
  <2>3. CASE /\ RowExists(w)
             /\ request' = [request EXCEPT ![r].status = "WARNING",
                                           ![r].lease = NoToken]
             /\ UNCHANGED candidates
    <3> DEFINE row == [request[r] EXCEPT !.status = "WARNING", !.lease = NoToken]
    <3>1. row \in Request
      BY <1>3, <2>3 DEF Request, Statuses
    <3>2. request' = [request EXCEPT ![r] = row]
      BY <1>2, <1>3, <2>3 DEF TypeInv, TypeOK
    <3>3. candidates' = candidates
      BY <2>3
    <3> HIDE DEF row
    <3> QED
      BY <3>1, <3>2, <3>3 DEF TypeInv, TypeOK
  <2>4. CASE Delete({r})
    <3> DEFINE R == {r}
    <3>1. Delete(R) /\ TypeOK
      BY <2>4 DEF TypeInv
    <3> HIDE DEF R
    <3> QED
      BY <3>1, DeleteType
  <2> QED
    BY <2>1, <2>2, <2>3, <2>4 DEF WriteCompletion
<1>5. \A v \in Workers : claim'[v] \in Claim \cup {NoClaim}
      /\ (v # w => (claim'[v] = NoClaim <=> claim[v] = NoClaim))
  <2>1. ASSUME NEW v \in Workers
        PROVE  /\ Orphaned(claim[v], {r}) \in Claim \cup {NoClaim}
               /\ Orphaned(claim[v], {r}) = NoClaim <=> claim[v] = NoClaim
    <3>1. claim[v] \in Claim \cup {NoClaim}
      BY DEF TypeInv, TypeOK
    <3> QED
      BY <3>1, OrphanedClaim
  <2>2. CASE claim' = [claim EXCEPT ![w] = NoClaim]
    BY <2>2 DEF TypeInv, TypeOK
  <2>3. CASE claim' = [v \in Workers |-> IF v = w THEN NoClaim
                                         ELSE Orphaned(claim[v], {r})]
    BY <2>1, <2>3
  <2> QED
    BY <2>2, <2>3 DEF WriteCompletion
<1>6. /\ claim' = [v \in Workers |-> claim'[v]]
      /\ claim'[w] = NoClaim
  BY DEF TypeInv, TypeOK, WriteCompletion
<1>7. claim' \in [Workers -> Claim \cup {NoClaim}]
  BY <1>5, <1>6
<1>8. /\ pc' = [pc EXCEPT ![w] = "polling"]
      /\ verdict' \in [Workers -> Verdicts]
      /\ found' \in [Workers -> {"lost", "superseded", "current"}]
  BY DEF TypeInv, TypeOK, WriteCompletion, Forget, Verdicts
<1>9. ClaimPhase'
  BY <1>5, <1>6, <1>8 DEF TypeInv, TypeOK, ClaimPhase, Claiming, ClaimedPhases
<1>10. elapsed' \subseteq Deadlines /\ seen' \in [Workers -> SUBSET Deadlines]
  <2>1. CASE Clear({a})
    BY <1>2, <2>1, ClearType DEF TypeInv, Deadlines
  <2>2. CASE UNCHANGED <<elapsed, seen>>
    BY <2>2 DEF TypeInv, TypeOK
  <2> QED
    BY <2>1, <2>2 DEF WriteCompletion
<1>11. /\ owed' \in [Repositories -> SUBSET Scopes]
       /\ covers' \in [Workers -> SUBSET Scopes]
       /\ exposed' \in [Repositories -> SUBSET Scopes]
  <2>1. CASE Discharge(w)
    BY <2>1 DEF TypeInv, TypeOK, Discharge
  <2>2. CASE Undischarged(w)
    BY <2>2 DEF TypeInv, TypeOK, Undischarged
  <2> QED
    BY <2>1, <2>2 DEF WriteCompletion
<1>12. accountLease' \in [Accounts -> Tokens \cup {NoToken}]
  BY DEF TypeInv, TypeOK, WriteCompletion, ReleaseAccount
<1> QED
  BY <1>4, <1>7, <1>8, <1>9, <1>10, <1>11, <1>12
  DEF TypeInv, TypeOK, WriteCompletion, switches, producers

LEMMA WriteFailureType ==
  ASSUME TypeInv, NEW w \in Workers, WriteFailure(w)
  PROVE  TypeInv'
<1> DEFINE c == claim[w]
           r == c.repository
           a == AccountOf[r]
<1>1. c \in Claim
  BY DEF TypeInv, TypeOK, ClaimPhase, Claiming, ClaimedPhases, WriteFailure
<1>2. r \in Repositories /\ a \in Accounts
  BY <1>1 DEF Claim
<1>3. RowExists(w) => request[r] \in Request
  BY <1>2 DEF TypeInv, TypeOK, RowExists, Queued
<1>4. request' \in [Repositories -> Request \cup {NoRequest}]
  <2>1. CASE UNCHANGED request
    BY <2>1 DEF TypeInv, TypeOK
  <2>2. CASE RowExists(w) /\ request' = [request EXCEPT ![r] = Restarted(@)]
    <3>1. Restarted(request[r]) \in Request
      BY <1>3, <2>2, RowTypes DEF RowExists, Queued
    <3> QED
      BY <2>2, <3>1 DEF TypeInv, TypeOK
  <2>3. ASSUME NEW status \in {"PENDING", "FAILED"}, RowExists(w),
               request' = [request EXCEPT ![r].status = status,
                                          ![r].lease = NoToken]
        PROVE  request' \in [Repositories -> Request \cup {NoRequest}]
    <3> DEFINE row == [request[r] EXCEPT !.status = status, !.lease = NoToken]
    <3>1. row \in Request
      BY <1>3, <2>3 DEF Request, Statuses
    <3>2. request' = [request EXCEPT ![r] = row]
      BY <1>2, <1>3, <2>3 DEF TypeInv, TypeOK
    <3> HIDE DEF row
    <3> QED
      BY <3>1, <3>2 DEF TypeInv, TypeOK
  <2>4. CASE found[w] = "superseded"
    BY <2>2, <2>4 DEF WriteFailure
  <2>5. CASE found[w] = "current" /\ Retries(w)
    BY <2>3, <2>5 DEF WriteFailure
  <2>6. CASE found[w] = "current" /\ ~Retries(w)
    BY <2>3, <2>6 DEF WriteFailure
  <2>7. CASE found[w] = "lost"
    BY <2>1, <2>7 DEF WriteFailure
  <2> QED
    BY <2>4, <2>5, <2>6, <2>7 DEF TypeInv, TypeOK
<1>5. elapsed' \subseteq Deadlines /\ seen' \in [Workers -> SUBSET Deadlines]
  BY <1>2 DEF TypeInv, TypeOK, WriteFailure, Deadlines
<1>6. /\ claim' \in [Workers -> Claim \cup {NoClaim}]
      /\ pc' \in [Workers -> {"idle", "polling", "choosing", "claimed", "syncing",
                              "settling", "writing"}]
      /\ verdict' \in [Workers -> Verdicts]
      /\ found' \in [Workers -> {"lost", "superseded", "current"}]
      /\ ClaimPhase'
  BY DEF TypeInv, TypeOK, ClaimPhase, Claiming, ClaimedPhases, WriteFailure,
         Forget, Verdicts
<1>7. /\ owed' \in [Repositories -> SUBSET Scopes]
      /\ covers' \in [Workers -> SUBSET Scopes]
      /\ exposed' \in [Repositories -> SUBSET Scopes]
  BY SMTT(60) DEF TypeInv, TypeOK, WriteFailure, Discharge, Undischarged
<1>8. accountLease' \in [Accounts -> Tokens \cup {NoToken}]
  BY DEF TypeInv, TypeOK, WriteFailure, ReleaseAccount
<1> QED
  BY <1>4, <1>5, <1>6, <1>7, <1>8
  DEF TypeInv, TypeOK, WriteFailure, switches, producers

LEMMA FaultType ==
  ASSUME TypeInv, NEW w \in Workers,
         RejectMissing(w) \/ RejectCompletion(w) \/ AbortRun(w) \/ OverrunLease(w)
  PROVE  TypeInv'
<1>1. CASE RejectMissing(w)
  BY <1>1 DEF TypeInv, TypeOK, ClaimPhase, Claiming, ClaimedPhases, RejectMissing,
              Forget, Verdicts, switches, rows, producers
<1>2. CASE RejectCompletion(w)
  BY <1>2 DEF TypeInv, TypeOK, ClaimPhase, Claiming, ClaimedPhases,
              RejectCompletion, Verdicts, switches, rows, producers, history
<1>3. CASE AbortRun(w)
  BY <1>3 DEF TypeInv, TypeOK, ClaimPhase, Claiming, ClaimedPhases, AbortRun,
              Forget, Verdicts, switches, rows, producers
<1>4. CASE OverrunLease(w)
  <2>1. claim[w].token \in Deadlines
    BY <1>4 DEF TypeInv, TypeOK, OverrunLease, Holding, Claiming, Claim, Deadlines
  <2> QED
    BY <1>4, <2>1 DEF TypeInv, TypeOK, ClaimPhase, Claiming, OverrunLease,
                      switches, rows, local, producers, history
<1> QED
  BY <1>1, <1>2, <1>3, <1>4

LEMMA EnvironmentType ==
  ASSUME TypeInv, Switch \/ \E d \in Deadlines : Elapse(d)
  PROVE  TypeInv'
<1>1. ASSUME NEW d \in Deadlines, Elapse(d)
      PROVE  TypeInv'
  BY <1>1 DEF TypeInv, TypeOK, ClaimPhase, Claiming, Elapse, switches, rows, local,
              producers, history
<1>2. ASSUME NEW r \in Repositories, SwitchRepository(r)
      PROVE  TypeInv'
  BY <1>2 DEF TypeInv, TypeOK, ClaimPhase, Claiming, SwitchRepository, Forgive, rows,
              local, producers
<1>3. ASSUME NEW a \in Accounts, SwitchAccount(a)
      PROVE  TypeInv'
  BY <1>3 DEF TypeInv, TypeOK, ClaimPhase, Claiming, SwitchAccount, Forgive, rows,
              local, producers
<1> QED
  BY <1>1, <1>2, <1>3 DEF Switch

LEMMA TypeInit == Init => TypeInv
BY DEF Init, TypeInv, TypeOK, ClaimPhase, Claiming, ClaimedPhases, NoClaim,
       Deadlines, Verdicts

LEMMA TypeStep == TypeInv /\ [Next]_vars => TypeInv'
<1> SUFFICES ASSUME TypeInv, [Next]_vars
             PROVE  TypeInv'
  OBVIOUS
<1>1. CASE Produce
  BY <1>1, ProduceType
<1>2. ASSUME NEW w \in Workers, Work(w)
      PROVE  TypeInv'
  BY <1>2, StartProcessingType, ReadCandidatesType, ClaimsType, ExecuteType,
     WriteCompletionType, WriteFailureType, FaultType DEF Work
<1>3. CASE Fault
  BY <1>3, FaultType DEF Fault
<1>4. CASE Switch \/ \E d \in Deadlines : Elapse(d)
  BY <1>4, EnvironmentType
<1>5. CASE UNCHANGED vars
  BY <1>5 DEF TypeInv, TypeOK, ClaimPhase, Claiming, vars, switches, rows, local,
              producers, history
<1> QED
  BY <1>1, <1>2, <1>3, <1>4, <1>5 DEF Next

\* Every column, claim, candidate list and deadline keeps its type, and a worker
\* has a claim exactly while it executes one: after every enqueue, claim,
\* settlement, abort and switch, for every number of repositories and workers.
THEOREM TypeCorrect == Spec => [](TypeOK /\ ClaimPhase)
<1>1. Spec => []TypeInv
  BY TypeInit, TypeStep, PTL DEF Spec
<1>2. TypeInv => TypeOK /\ ClaimPhase
  BY DEF TypeInv
<1> QED
  BY <1>1, <1>2, PTL

-----------------------------------------------------------------------------
(* Mutual exclusion of workers on one provider account. *)

\* A worker that holds an unexpired lease owns its account's lease, and no other
\* claim has that token.
LEMMA LeaseExcludes == TypeInv /\ LeaseInvariant => AccountExclusion
BY DEF TypeInv, TypeOK, LeaseInvariant, AccountExclusion, Holding

\* A step that makes no claim keeps the invariant, if leases that had expired stay
\* so and nobody who still holds a lease loses the account.
LEMMA LeaseFrame ==
  ASSUME TypeInv, LeaseInvariant,
         \A v \in Workers : claim'[v] # NoClaim =>
           /\ claim[v] # NoClaim
           /\ claim'[v].token = claim[v].token
           /\ claim'[v].repository = claim[v].repository,
         elapsed \cap Tokens \subseteq elapsed',
         \A v \in Workers : seen'[v] \cap Tokens \subseteq elapsed',
         \A v \in Workers : Holding(v) /\ claim'[v] # NoClaim =>
           accountLease'[AccountOf[claim[v].repository]] =
             accountLease[AccountOf[claim[v].repository]]
  PROVE  LeaseInvariant'
<1>1. ASSUME NEW v \in Workers, claim'[v] # NoClaim, claim'[v].token \notin elapsed'
      PROVE  accountLease'[AccountOf[claim'[v].repository]] = claim'[v].token
  <2>1. claim[v] \in Claim /\ claim'[v].token = claim[v].token
    BY <1>1 DEF TypeInv, TypeOK
  <2>2. claim[v].token \in Tokens
    BY <2>1 DEF Claim
  <2>3. Holding(v)
    BY <1>1, <2>1, <2>2 DEF Holding, Claiming
  <2> QED
    BY <1>1, <2>1, <2>3 DEF LeaseInvariant
<1>2. ASSUME NEW v \in Workers, NEW w \in Workers,
             v # w, claim'[v] # NoClaim, claim'[w] # NoClaim
      PROVE  claim'[v].token # claim'[w].token
  BY <1>2 DEF LeaseInvariant, Claiming
<1> QED
  BY <1>1, <1>2 DEF LeaseInvariant, Holding, Claiming

\* Whose lease is in the worker's `seen' has lost it: no holder is robbed by a
\* claim, nor by the release that follows a claim of the request that failed.
LEMMA SeenLeaseIsLost ==
  ASSUME TypeInv, LeaseInvariant, NEW v \in Workers, NEW w \in Workers,
         NEW a \in Accounts, Available(a, seen[w]),
         Holding(v)
  PROVE  AccountOf[claim[v].repository] # a
<1> SUFFICES ASSUME AccountOf[claim[v].repository] = a
             PROVE  FALSE
  OBVIOUS
<1>1. claim[v] \in Claim
  BY DEF TypeInv, TypeOK, Holding, Claiming
<1>2. claim[v].token \in Tokens /\ claim[v].token \notin elapsed
  BY <1>1 DEF Claim, Holding
<1>3. accountLease[a] = claim[v].token
  BY DEF LeaseInvariant
<1>4. accountLease[a] \in seen[w]
  BY <1>2, <1>3 DEF Available
<1> QED
  BY <1>2, <1>3, <1>4 DEF LeaseInvariant

\* Settling releases the account only where the token still is the worker's own.
LEMMA ReleaseKeepsOthers ==
  ASSUME TypeInv, LeaseInvariant, NEW v \in Workers, NEW w \in Workers,
         v # w, Claiming(w), Holding(v), ReleaseAccount(w)
  PROVE  accountLease'[AccountOf[claim[v].repository]] =
           accountLease[AccountOf[claim[v].repository]]
<1>1. claim[v] \in Claim
  BY DEF TypeInv, TypeOK, Holding, Claiming
<1>2. AccountOf[claim[v].repository] \in Accounts
  BY <1>1 DEF Claim
<1>3. accountLease[AccountOf[claim[v].repository]] # claim[w].token
  BY DEF LeaseInvariant, Holding
<1> QED
  BY <1>2, <1>3 DEF TypeInv, TypeOK, ReleaseAccount

LEMMA ArmKeepsTokens ==
  ASSUME TypeInv, LeaseInvariant, NEW r \in Repositories, NEW late, Arm({r}, late)
  PROVE  /\ elapsed \cap Tokens \subseteq elapsed'
         /\ \A v \in Workers : seen'[v] \cap Tokens \subseteq elapsed'
BY DEF TypeInv, TypeOK, LeaseInvariant, Arm

LEMMA ProduceLease ==
  ASSUME TypeInv, LeaseInvariant, Produce
  PROVE  LeaseInvariant'
<1>1. ASSUME UNCHANGED <<claim, accountLease, elapsed, seen>>
      PROVE  LeaseInvariant'
  BY <1>1 DEF LeaseInvariant, Holding, Claiming
<1>2. ASSUME NEW r \in Repositories, NEW late, Arm({r}, late),
             UNCHANGED <<claim, accountLease>>
      PROVE  LeaseInvariant'
  BY <1>2, ArmKeepsTokens, LeaseFrame
<1>3. CASE StartReconciliation
  BY <1>1, <1>3 DEF StartReconciliation, rows, local
<1>4. ASSUME NEW r \in Repositories, NEW S, Enqueue(r, S)
      PROVE  LeaseInvariant'
  BY <1>2, <1>4 DEF Enqueue
<1>5. ASSUME NEW r \in Repositories,
             ReadAvailability(r) \/ RefuseStart(r)
      PROVE  LeaseInvariant'
  BY <1>1, <1>5 DEF ReadAvailability, RefuseStart, rows, local
<1>6. ASSUME NEW r \in Repositories, StartAvailable(r)
      PROVE  LeaseInvariant'
  BY <1>2, <1>6 DEF StartAvailable
<1> QED
  BY <1>3, <1>4, <1>5, <1>6 DEF Produce, ReconcileRepository, EnqueueWebhook

LEMMA ClaimsLease ==
  ASSUME TypeInv, LeaseInvariant, NEW w \in Workers, Claims(w)
  PROVE  LeaseInvariant'
<1> PICK c \in candidates[w] :
      (\E t \in Tokens : ClaimCandidate(w, c, t)) \/ SkipCandidate(w, c)
  BY DEF Claims
<1> DEFINE r == c.repository
           a == AccountOf[r]
<1>1. r \in Repositories /\ a \in Accounts
  BY DEF TypeInv, TypeOK, Candidate
<1>2. ASSUME NEW t \in Tokens, ClaimCandidate(w, c, t)
      PROVE  LeaseInvariant'
  <2>1. /\ claim'[w].token = t
        /\ claim'[w].repository = r
        /\ \A v \in Workers \ {w} : claim'[v] = claim[v]
        /\ accountLease' = [accountLease EXCEPT ![a] = t]
        /\ elapsed' = elapsed \ {t}
        /\ \A v \in Workers : seen'[v] \subseteq seen[v] \ {t}
    BY <1>2 DEF TypeInv, TypeOK, ClaimCandidate
  <2>2. \A v \in Workers : claim[v].token # t
    BY <1>2 DEF ClaimCandidate, TokensInUse
  <2>3. ASSUME NEW v \in Workers, Holding(v)'
        PROVE  accountLease'[AccountOf[claim'[v].repository]] = claim'[v].token
    <3>1. CASE v = w
      BY <1>1, <2>1, <3>1 DEF TypeInv, TypeOK
    <3>2. CASE v # w
      <4>1. claim'[v] = claim[v] /\ Holding(v)
        BY <2>1, <2>2, <2>3, <3>2 DEF Holding, Claiming
      <4>2. claim[v] \in Claim
        BY <4>1 DEF TypeInv, TypeOK, Holding, Claiming
      <4>3. AccountOf[claim[v].repository] \in Accounts
        BY <4>2 DEF Claim
      <4>4. AccountOf[claim[v].repository] # a
        BY <1>1, <1>2, <4>1, SeenLeaseIsLost DEF ClaimCandidate, Acquirable
      <4> QED
        BY <2>1, <4>1, <4>3, <4>4 DEF TypeInv, TypeOK, LeaseInvariant
    <3> QED
      BY <3>1, <3>2
  <2>4. ASSUME NEW u \in Workers, NEW v \in Workers,
               u # v, Claiming(u)', Claiming(v)'
        PROVE  claim'[u].token # claim'[v].token
    BY <2>1, <2>2, <2>4 DEF LeaseInvariant, Claiming
  <2>5. \A v \in Workers : seen'[v] \cap Tokens \subseteq elapsed'
    BY <2>1 DEF LeaseInvariant
  <2> QED
    BY <2>3, <2>4, <2>5 DEF LeaseInvariant
<1>3. CASE SkipCandidate(w, c)
  <2>1. /\ UNCHANGED <<claim, elapsed>>
        /\ \A v \in Workers : seen'[v] \subseteq seen[v]
        /\ accountLease' = [accountLease EXCEPT ![a] =
             IF Available(a, seen[w]) THEN NoToken ELSE @]
    BY <1>3 DEF TypeInv, TypeOK, SkipCandidate
  <2>2. ASSUME NEW v \in Workers, Holding(v)
        PROVE  accountLease'[AccountOf[claim[v].repository]] =
                 accountLease[AccountOf[claim[v].repository]]
    <3>1. claim[v] \in Claim
      BY <2>2 DEF TypeInv, TypeOK, Holding, Claiming
    <3>2. AccountOf[claim[v].repository] \in Accounts
      BY <3>1 DEF Claim
    <3>3. Available(a, seen[w]) => AccountOf[claim[v].repository] # a
      BY <1>1, <2>2, SeenLeaseIsLost
    <3> QED
      BY <2>1, <3>2, <3>3 DEF TypeInv, TypeOK
  <2>3. \A v \in Workers : seen'[v] \cap Tokens \subseteq elapsed'
    BY <2>1 DEF LeaseInvariant
  <2> QED
    BY <2>1, <2>2, <2>3, LeaseFrame
<1> QED
  BY <1>2, <1>3

LEMMA SettleLease ==
  ASSUME TypeInv, LeaseInvariant, NEW w \in Workers,
         WriteCompletion(w) \/ WriteFailure(w)
  PROVE  LeaseInvariant'
<1> DEFINE r == claim[w].repository
           a == AccountOf[r]
<1>1. Claiming(w) /\ claim[w] \in Claim
  BY DEF TypeInv, TypeOK, ClaimPhase, Claiming, ClaimedPhases, WriteCompletion,
         WriteFailure
<1>2. a \in Accounts
  BY <1>1 DEF Claim
<1>3. /\ claim'[w] = NoClaim
      /\ \A v \in Workers : claim'[v] # NoClaim =>
           /\ claim[v] # NoClaim
           /\ claim'[v].token = claim[v].token
           /\ claim'[v].repository = claim[v].repository
  <2>1. CASE claim' = [claim EXCEPT ![w] = NoClaim]
    BY <2>1 DEF TypeInv, TypeOK
  <2>2. CASE claim' = [v \in Workers |-> IF v = w THEN NoClaim
                                         ELSE Orphaned(claim[v], {r})]
    <3>1. ASSUME NEW v \in Workers
          PROVE  /\ Orphaned(claim[v], {r}) = NoClaim <=> claim[v] = NoClaim
                 /\ Orphaned(claim[v], {r}).token = claim[v].token
                 /\ claim[v] # NoClaim =>
                      Orphaned(claim[v], {r}).repository = claim[v].repository
      <4>1. claim[v] \in Claim \cup {NoClaim}
        BY DEF TypeInv, TypeOK
      <4> QED
        BY <4>1, OrphanedClaim
    <3> QED
      BY <2>2, <3>1
  <2> QED
    BY <2>1, <2>2 DEF WriteCompletion, WriteFailure
<1>4. /\ elapsed \cap Tokens \subseteq elapsed'
      /\ \A v \in Workers : seen'[v] \cap Tokens \subseteq elapsed'
  <2>1. CASE WriteCompletion(w)
    BY <1>2, <2>1 DEF WriteCompletion, Clear, TypeInv, TypeOK, LeaseInvariant
  <2>2. CASE WriteFailure(w)
    <3>1. r \in Repositories
      BY <1>1 DEF Claim
    <3> QED
      BY <1>2, <2>2, <3>1 DEF WriteFailure, TypeInv, TypeOK, LeaseInvariant
  <2> QED
    BY <2>1, <2>2
<1>5. ReleaseAccount(w)
  BY DEF WriteCompletion, WriteFailure
<1>6. \A v \in Workers : Holding(v) /\ claim'[v] # NoClaim =>
        accountLease'[AccountOf[claim[v].repository]] =
          accountLease[AccountOf[claim[v].repository]]
  BY <1>1, <1>3, <1>5, ReleaseKeepsOthers
<1> QED
  BY <1>3, <1>4, <1>6, LeaseFrame

LEMMA OtherLease ==
  ASSUME TypeInv, LeaseInvariant, NEW w \in Workers,
         \/ StartProcessing(w) \/ ReadCandidates(w) \/ BeginSync(w)
         \/ \E v \in Verdicts : EndSync(w, v)
         \/ ReadCurrent(w) \/ RejectMissing(w) \/ RejectCompletion(w)
         \/ AbortRun(w) \/ OverrunLease(w)
  PROVE  LeaseInvariant'
<1>1. \A v \in Workers : claim'[v] # NoClaim =>
        /\ claim[v] # NoClaim
        /\ claim'[v].token = claim[v].token
        /\ claim'[v].repository = claim[v].repository
  <2>1. CASE claim' = claim
    BY <2>1
  <2>2. CASE claim' = [claim EXCEPT ![w] = NoClaim]
    BY <2>2 DEF TypeInv, TypeOK
  <2>3. CASE StartProcessing(w)
    <3> DEFINE R == {r \in Repositories : ~Enabled(r)}
    <3>1. claim' = [v \in Workers |-> Orphaned(claim[v], R)]
      BY <2>3 DEF StartProcessing
    <3> HIDE DEF R
    <3>2. \A v \in Workers : claim[v] \in Claim \cup {NoClaim}
      BY DEF TypeInv, TypeOK
    <3>3. ASSUME NEW v \in Workers
          PROVE  /\ Orphaned(claim[v], R) = NoClaim <=> claim[v] = NoClaim
                 /\ Orphaned(claim[v], R).token = claim[v].token
                 /\ claim[v] # NoClaim =>
                      Orphaned(claim[v], R).repository = claim[v].repository
      BY <3>2, OrphanedClaim
    <3> QED
      BY <3>1, <3>3
  <2> QED
    BY <2>1, <2>2, <2>3 DEF ReadCandidates, BeginSync, EndSync, ReadCurrent,
      RejectMissing, RejectCompletion, AbortRun, OverrunLease, local
<1>2. accountLease' = accountLease
  BY DEF StartProcessing, ReadCandidates, BeginSync, EndSync, ReadCurrent,
     RejectMissing, RejectCompletion, AbortRun, OverrunLease, rows
<1>3. /\ elapsed \subseteq elapsed'
      /\ \A v \in Workers : seen'[v] \subseteq seen[v] \cup elapsed
  BY DEF StartProcessing, ReadCandidates, BeginSync, EndSync, ReadCurrent,
     RejectMissing, RejectCompletion, AbortRun, OverrunLease, local, TypeInv, TypeOK
<1>4. \A v \in Workers : seen'[v] \cap Tokens \subseteq elapsed'
  BY <1>3 DEF LeaseInvariant
<1> QED
  BY <1>1, <1>2, <1>3, <1>4, LeaseFrame

LEMMA EnvironmentLease ==
  ASSUME TypeInv, LeaseInvariant, Switch \/ \E d \in Deadlines : Elapse(d)
  PROVE  LeaseInvariant'
BY DEF Switch, SwitchRepository, SwitchAccount, Elapse, rows, local, LeaseInvariant,
       Holding, Claiming

LEMMA LeaseStep == TypeInv /\ LeaseInvariant /\ [Next]_vars => LeaseInvariant'
<1> SUFFICES ASSUME TypeInv, LeaseInvariant, [Next]_vars
             PROVE  LeaseInvariant'
  OBVIOUS
<1>1. CASE Produce
  BY <1>1, ProduceLease
<1>2. ASSUME NEW w \in Workers, Work(w)
      PROVE  LeaseInvariant'
  BY <1>2, ClaimsLease, SettleLease, OtherLease DEF Work
<1>3. CASE Fault
  BY <1>3, OtherLease DEF Fault
<1>4. CASE Switch \/ \E d \in Deadlines : Elapse(d)
  BY <1>4, EnvironmentLease
<1>5. CASE UNCHANGED vars
  BY <1>5 DEF LeaseInvariant, Holding, Claiming, vars, rows, local
<1> QED
  BY <1>1, <1>2, <1>3, <1>4, <1>5 DEF Next

\* Whatever producers, retries, aborted runs, takeovers and switches do, two
\* workers whose leases have not run out never work for one provider account.
THEOREM AccountExclusionHolds == Spec => []AccountExclusion
<1>1. Init => TypeInv /\ LeaseInvariant
  BY TypeInit DEF Init, LeaseInvariant, Holding, Claiming
<1>2. TypeInv /\ LeaseInvariant /\ [Next]_vars => (TypeInv /\ LeaseInvariant)'
  BY TypeStep, LeaseStep
<1>3. TypeInv /\ LeaseInvariant => AccountExclusion
  BY LeaseExcludes
<1> QED
  BY <1>1, <1>2, <1>3, PTL DEF Spec

-----------------------------------------------------------------------------
(* A row is RUNNING exactly while it has a lease token. *)

Leased(row) == row # NoRequest => (row.status = "RUNNING" <=> row.lease # NoToken)

\* The upsert and the resets keep status and lease in step.
LEMMA RowsStayLeased ==
  ASSUME NEW row \in Request \cup {NoRequest}, Leased(row),
         NEW S \in SUBSET Scopes
  PROVE  /\ Leased(Merge(row, S))
         /\ Leased(NewRequest(S))
         /\ row # NoRequest => Leased(Restarted(row))
         /\ row # NoRequest => Leased(RestartedAnew(row))
<1>1. Leased(NewRequest(S))
  BY DEF Leased, NewRequest
<1>2. CASE row = NoRequest
  BY <1>1, <1>2 DEF Merge
<1>3. CASE row # NoRequest
  <2>1. row \in Request
    BY <1>3
  <2>2. Restarted(row) \in Request /\ Leased(Restarted(row))
    BY <1>3, <2>1, RowTypes DEF Restarted, Request, Leased
  <2>3. Leased(RestartedAnew(row))
    <3> DEFINE base == Restarted(row)
    <3>1. base \in Request /\ base.status = "PENDING" /\ base.lease = NoToken
      BY <2>1, <2>2 DEF Restarted, Request
    <3>2. RestartedAnew(row) = [base EXCEPT !.generation = row.generation + 1,
                                            !.scopes = Scopes]
      BY DEF RestartedAnew
    <3> HIDE DEF base
    <3> QED
      BY <3>1, <3>2 DEF Request, Leased
  <2>4. Leased(Merge(row, S))
    <3>1. CASE row.status = "RUNNING"
      BY <1>3, <2>1, <3>1 DEF Merge, Request, Leased
    <3>2. CASE row.status # "RUNNING"
      BY <1>3, <2>1, <3>2 DEF Merge, Request, Leased
    <3> QED
      BY <3>1, <3>2
  <2> QED
    BY <1>1, <2>2, <2>3, <2>4
<1> QED
  BY <1>2, <1>3

\* A step that writes one row, and keeps that row leased, keeps the invariant.
LEMMA WriteRow ==
  ASSUME TypeInv, RunningRowsAreLeased, NEW r \in Repositories, NEW row,
         Leased(row), request' = [request EXCEPT ![r] = row]
  PROVE  RunningRowsAreLeased'
BY DEF TypeInv, TypeOK, RunningRowsAreLeased, Leased, Queued

LEMMA EnqueueRows ==
  ASSUME TypeInv, RunningRowsAreLeased, NEW r \in Repositories,
         NEW S \in SUBSET Scopes, Enqueue(r, S)
  PROVE  RunningRowsAreLeased'
<1>1. request[r] \in Request \cup {NoRequest} /\ Leased(request[r])
  BY DEF TypeInv, TypeOK, RunningRowsAreLeased, Leased, Queued
<1>2. Leased(Merge(request[r], S))
  BY <1>1, RowsStayLeased
<1>3. request' = [request EXCEPT ![r] = Merge(request[r], S)]
  BY DEF Enqueue
<1> QED
  BY <1>2, <1>3, WriteRow

LEMMA ProduceRows ==
  ASSUME TypeInv, RunningRowsAreLeased, Produce
  PROVE  RunningRowsAreLeased'
<1>1. ASSUME NEW r \in Repositories, NEW S \in SUBSET Scopes, Enqueue(r, S)
      PROVE  RunningRowsAreLeased'
  BY <1>1, EnqueueRows
<1>2. ASSUME NEW r \in Repositories, StartAvailable(r)
      PROVE  RunningRowsAreLeased'
  <2>1. request[r] \in Request \cup {NoRequest} /\ Leased(request[r])
    BY DEF TypeInv, TypeOK, RunningRowsAreLeased, Leased, Queued
  <2>2. CASE request' = [request EXCEPT ![r] = NewRequest(Scopes)]
    BY <2>1, <2>2, RowsStayLeased, WriteRow
  <2>3. CASE Queued(r) /\ request' = [request EXCEPT ![r] = RestartedAnew(@)]
    <3>1. Leased(RestartedAnew(request[r]))
      BY <2>1, <2>3, RowsStayLeased DEF Queued
    <3> QED
      BY <2>3, <3>1, WriteRow
  <2> QED
    BY <1>2, <2>2, <2>3 DEF StartAvailable
<1>3. CASE request' = request
  BY <1>3 DEF RunningRowsAreLeased, Queued
<1>4. \/ \E r \in Repositories : \E S \in SUBSET Scopes : Enqueue(r, S)
      \/ \E r \in Repositories : StartAvailable(r)
      \/ request' = request
  BY DEF Produce, StartReconciliation, ReconcileRepository, EnqueueWebhook,
         ReadAvailability, RefuseStart, rows
<1> QED
  BY <1>1, <1>2, <1>3, <1>4

LEMMA DeleteRows ==
  ASSUME RunningRowsAreLeased, NEW R, Delete(R)
  PROVE  RunningRowsAreLeased'
BY DEF RunningRowsAreLeased, Queued, Delete

LEMMA ClaimRows ==
  ASSUME TypeInv, RunningRowsAreLeased, NEW w \in Workers, NEW c \in candidates[w],
         NEW t \in Tokens, ClaimCandidate(w, c, t)
  PROVE  RunningRowsAreLeased'
<1> DEFINE r   == c.repository
           row == [request[r] EXCEPT !.status = "RUNNING",
                                     !.attempt = request[r].attempt + 1,
                                     !.lease = t]
<1>1. r \in Repositories
  BY DEF TypeInv, TypeOK, Candidate
<1>2. request[r] \in Request
  BY <1>1 DEF TypeInv, TypeOK, ClaimCandidate, Acquirable, Claimable
<1>3. Leased(row)
  BY <1>2 DEF Request, Leased
<1>4. request' = [request EXCEPT ![r] = row]
  BY <1>1, <1>2 DEF ClaimCandidate, TypeInv, TypeOK
<1> HIDE DEF row
<1> QED
  BY <1>1, <1>3, <1>4, WriteRow

LEMMA SettleRows ==
  ASSUME TypeInv, RunningRowsAreLeased, NEW w \in Workers,
         WriteCompletion(w) \/ WriteFailure(w)
  PROVE  RunningRowsAreLeased'
<1> DEFINE r == claim[w].repository
<1>1. claim[w] \in Claim
  BY DEF TypeInv, TypeOK, ClaimPhase, Claiming, ClaimedPhases, WriteCompletion,
         WriteFailure
<1>2. r \in Repositories
  BY <1>1 DEF Claim
<1>3. RowExists(w) => request[r] \in Request /\ Leased(request[r])
  BY <1>2 DEF TypeInv, TypeOK, RowExists, Queued, RunningRowsAreLeased, Leased
<1>4. CASE request' = request
  BY <1>4 DEF RunningRowsAreLeased, Queued
<1>5. CASE RowExists(w) /\ request' = [request EXCEPT ![r] = Restarted(@)]
  <2>1. Leased(Restarted(request[r]))
    BY <1>3, <1>5, RowsStayLeased DEF RowExists, Queued
  <2> QED
    BY <1>2, <1>5, <2>1, WriteRow
<1>6. ASSUME NEW status \in {"PENDING", "FAILED", "WARNING"}, RowExists(w),
             request' = [request EXCEPT ![r].status = status, ![r].lease = NoToken]
      PROVE  RunningRowsAreLeased'
  <2> DEFINE row == [request[r] EXCEPT !.status = status, !.lease = NoToken]
  <2>1. Leased(row)
    BY <1>3, <1>6 DEF Request, Leased
  <2>2. request' = [request EXCEPT ![r] = row]
    BY <1>2, <1>3, <1>6 DEF TypeInv, TypeOK
  <2> HIDE DEF row
  <2> QED
    BY <1>2, <2>1, <2>2, WriteRow
<1>7. CASE Delete({r})
  BY <1>7, DeleteRows
<1>8. CASE WriteCompletion(w)
  BY <1>4, <1>5, <1>6, <1>7, <1>8 DEF WriteCompletion
<1>9. CASE WriteFailure(w)
  <2>1. CASE found[w] = "superseded"
    BY <1>5, <1>9, <2>1 DEF WriteFailure
  <2>2. CASE found[w] = "current" /\ Retries(w)
    BY <1>6, <1>9, <2>2 DEF WriteFailure
  <2>3. CASE found[w] = "current" /\ ~Retries(w)
    BY <1>6, <1>9, <2>3 DEF WriteFailure
  <2>4. CASE found[w] = "lost"
    BY <1>4, <1>9, <2>4 DEF WriteFailure
  <2> QED
    BY <2>1, <2>2, <2>3, <2>4 DEF TypeInv, TypeOK
<1> QED
  BY <1>8, <1>9

LEMMA RowsStep ==
  TypeInv /\ RunningRowsAreLeased /\ [Next]_vars => RunningRowsAreLeased'
<1> SUFFICES ASSUME TypeInv, RunningRowsAreLeased, [Next]_vars
             PROVE  RunningRowsAreLeased'
  OBVIOUS
<1>1. CASE request' = request
  BY <1>1 DEF RunningRowsAreLeased, Queued
<1>2. CASE Produce
  BY <1>2, ProduceRows
<1>3. ASSUME NEW w \in Workers, Work(w)
      PROVE  RunningRowsAreLeased'
  <2>1. CASE StartProcessing(w)
    BY <2>1, DeleteRows DEF StartProcessing
  <2>2. CASE Claims(w)
    BY <1>1, <2>2, ClaimRows DEF Claims, SkipCandidate
  <2>3. CASE WriteCompletion(w) \/ WriteFailure(w)
    BY <2>3, SettleRows
  <2>4. CASE \/ ReadCandidates(w) \/ BeginSync(w) \/ ReadCurrent(w)
             \/ RejectMissing(w) \/ \E v \in Verdicts : EndSync(w, v)
    BY <1>1, <2>4
    DEF ReadCandidates, BeginSync, ReadCurrent, RejectMissing, EndSync, rows
  <2> QED
    BY <1>3, <2>1, <2>2, <2>3, <2>4 DEF Work
<1>4. CASE Fault \/ Switch \/ \E d \in Deadlines : Elapse(d)
  BY <1>1, <1>4 DEF Fault, RejectCompletion, AbortRun, OverrunLease, Switch,
                    SwitchRepository, SwitchAccount, Elapse, rows
<1>5. CASE UNCHANGED vars
  BY <1>1, <1>5 DEF vars, rows
<1> QED
  BY <1>2, <1>3, <1>4, <1>5 DEF Next

\* Whatever upserts, claims, settlements, purges and faults do to a row, it is
\* RUNNING exactly while it carries a lease token: no row gets stuck, for every
\* number of repositories, workers and faults.
THEOREM RunningRowsAreLeasedHolds == Spec => []RunningRowsAreLeased
<1>1. Init => TypeInv /\ RunningRowsAreLeased
  BY TypeInit DEF Init, RunningRowsAreLeased, Queued
<1>2. TypeInv /\ RunningRowsAreLeased /\ [Next]_vars
        => (TypeInv /\ RunningRowsAreLeased)'
  BY TypeStep, RowsStep
<1> QED
  BY <1>1, <1>2, PTL DEF Spec

-----------------------------------------------------------------------------
(* A claim, even from an outdated candidate, starts only what is due. *)

\* The instant a choosing worker compares with does not lie in the future: what it
\* takes for past has passed, although deadlines are written while it chooses.
SeenIsPast == \A w \in Workers : pc[w] = "choosing" => seen[w] \subseteq elapsed

LEMMA ArmSeen ==
  ASSUME TypeInv, SeenIsPast, NEW ds, NEW late, Arm(ds, late), pc' = pc
  PROVE  SeenIsPast'
<1>1. CASE late = {}
  BY <1>1 DEF Arm, SeenIsPast
<1>2. CASE late # {}
  BY <1>2 DEF Arm, SeenIsPast
<1> QED
  BY <1>1, <1>2

LEMMA ProduceSeen ==
  ASSUME TypeInv, SeenIsPast, Produce
  PROVE  SeenIsPast'
<1>1. ASSUME NEW r \in Repositories, \E late \in SUBSET Choosing : Arm({r}, late),
             pc' = pc
      PROVE  SeenIsPast'
  BY <1>1, ArmSeen
<1>2. CASE UNCHANGED <<elapsed, pc, seen>>
  BY <1>2 DEF SeenIsPast
<1>3. \/ UNCHANGED <<elapsed, pc, seen>>
      \/ /\ pc' = pc
         /\ \E r \in Repositories : \E late \in SUBSET Choosing : Arm({r}, late)
  BY DEF Produce, StartReconciliation, ReconcileRepository, EnqueueWebhook, Enqueue,
         ReadAvailability, StartAvailable, RefuseStart, local
<1> QED
  BY <1>1, <1>2, <1>3

LEMMA WorkSeen ==
  ASSUME TypeInv, SeenIsPast, NEW w \in Workers, Work(w)
  PROVE  SeenIsPast'
<1> pc \in [Workers -> {"idle", "polling", "choosing", "claimed", "syncing",
                        "settling", "writing"}]
  BY DEF TypeInv, TypeOK
<1>1. CASE ReadCandidates(w)
  BY <1>1 DEF ReadCandidates, SeenIsPast, TypeInv, TypeOK
<1>2. ASSUME NEW c \in candidates[w], NEW t \in Tokens, ClaimCandidate(w, c, t)
      PROVE  SeenIsPast'
  BY <1>2 DEF ClaimCandidate, SeenIsPast
<1>3. ASSUME NEW c \in candidates[w], SkipCandidate(w, c)
      PROVE  SeenIsPast'
  BY <1>3 DEF SkipCandidate, SeenIsPast, TypeInv, TypeOK
<1>4. CASE WriteCompletion(w)
  <2>1. \A v \in Workers : pc'[v] = "choosing" => pc[v] = "choosing"
    BY <1>4 DEF WriteCompletion, Forget
  <2>2. \/ UNCHANGED <<elapsed, seen>>
        \/ Clear({AccountOf[claim[w].repository]})
    BY <1>4 DEF WriteCompletion
  <2> QED
    BY <2>1, <2>2 DEF SeenIsPast, Clear
<1>5. CASE WriteFailure(w)
  <2> DEFINE r      == claim[w].repository
             a      == AccountOf[r]
             kept   == found[w] = "current"
             limit  == verdict[w] = "rateLimited" /\ OwnsAccount(w)
             armed  == (IF kept /\ Retries(w) THEN {r} ELSE {})
                         \cup (IF limit THEN {a} ELSE {})
             nulled == IF OwnsAccount(w) /\ ~limit THEN {a} ELSE {}
  <2>1. \A v \in Workers : pc'[v] = "choosing" => pc[v] = "choosing"
    BY <1>5 DEF WriteFailure, Forget
  <2>2. /\ elapsed' = (elapsed \ armed) \cup nulled
        /\ seen' = [v \in Workers |->
             IF v \in Choosing THEN (seen[v] \ armed) \cup nulled ELSE seen[v]]
    BY <1>5 DEF WriteFailure
  <2> HIDE DEF armed, nulled
  <2> QED
    BY <2>1, <2>2 DEF SeenIsPast, Choosing
<1>6. CASE \/ StartProcessing(w) \/ BeginSync(w) \/ ReadCurrent(w)
           \/ RejectMissing(w) \/ \E v \in Verdicts : EndSync(w, v)
  BY <1>6 DEF StartProcessing, BeginSync, ReadCurrent, RejectMissing, EndSync,
              Forget, SeenIsPast
<1> QED
  BY <1>1, <1>2, <1>3, <1>4, <1>5, <1>6 DEF Work, Claims

LEMMA SeenStep == TypeInv /\ SeenIsPast /\ [Next]_vars => SeenIsPast'
<1> SUFFICES ASSUME TypeInv, SeenIsPast, [Next]_vars
             PROVE  SeenIsPast'
  OBVIOUS
<1>1. CASE Produce
  BY <1>1, ProduceSeen
<1>2. ASSUME NEW w \in Workers, Work(w)
      PROVE  SeenIsPast'
  BY <1>2, WorkSeen
<1>3. CASE Fault \/ Switch \/ \E d \in Deadlines : Elapse(d)
  BY <1>3, ZenonT(60) DEF Fault, RejectCompletion, AbortRun, OverrunLease, Forget, Switch,
              SwitchRepository, SwitchAccount, Elapse, local, SeenIsPast, TypeInv,
              TypeOK
<1>4. CASE UNCHANGED vars
  BY <1>4 DEF vars, local, SeenIsPast
<1> QED
  BY <1>1, <1>2, <1>3, <1>4 DEF Next

\* Only claimCandidate takes a worker from choosing to claimed.
LEMMA OnlyClaimsClaim ==
  ASSUME TypeInv, Next, NEW w \in Workers, pc[w] = "choosing", pc'[w] = "claimed"
  PROVE  \E c \in candidates[w] : \E t \in Tokens : ClaimCandidate(w, c, t)
<1> pc \in [Workers -> {"idle", "polling", "choosing", "claimed", "syncing",
                        "settling", "writing"}]
  BY DEF TypeInv, TypeOK
<1>1. ~Produce
  BY DEF Produce, StartReconciliation, ReconcileRepository, EnqueueWebhook, Enqueue,
         ReadAvailability, StartAvailable, RefuseStart, local
<1>2. ~Fault /\ ~Switch /\ \A d \in Deadlines : ~Elapse(d)
  BY ZenonT(60) DEF Fault, RejectCompletion, AbortRun, OverrunLease, Forget, Switch,
         SwitchRepository, SwitchAccount, Elapse, local
<1>3. PICK v \in Workers : Work(v)
  BY <1>1, <1>2 DEF Next
<1>4. \A c : ~SkipCandidate(v, c)
  BY DEF SkipCandidate
<1>5. ~ReadCandidates(v) /\ ~StartProcessing(v)
  BY DEF ReadCandidates, StartProcessing
<1>6. /\ ~BeginSync(v) /\ ~ReadCurrent(v) /\ ~RejectMissing(v)
      /\ ~WriteCompletion(v) /\ ~WriteFailure(v)
      /\ \A x \in Verdicts : ~EndSync(v, x)
  BY DEF BeginSync, ReadCurrent, RejectMissing, WriteCompletion, WriteFailure,
         EndSync, Forget
<1>7. PICK c \in candidates[v] : \E t \in Tokens : ClaimCandidate(v, c, t)
  BY <1>3, <1>4, <1>5, <1>6 DEF Work, Claims
<1>8. v = w
  BY <1>7 DEF ClaimCandidate
<1> QED
  BY <1>7, <1>8

LEMMA ClaimIsDue ==
  ASSUME TypeInv, SeenIsPast, NEW w \in Workers, NEW c \in candidates[w],
         NEW t \in Tokens, ClaimCandidate(w, c, t)
  PROVE  LET r == claim'[w].repository
         IN  AccountOf[r] \in elapsed /\ Claimable(request[r], r, elapsed)
<1>1. claim'[w].repository = c.repository
  BY DEF ClaimCandidate, TypeInv, TypeOK
<1>2. seen[w] \subseteq elapsed
  BY DEF SeenIsPast, ClaimCandidate
<1>3. AccountOf[c.repository] \in elapsed
  BY <1>2 DEF ClaimCandidate, Acquirable, Available
<1>4. Claimable(request[c.repository], c.repository, elapsed)
  BY <1>2 DEF ClaimCandidate, Acquirable, Claimable
<1> QED
  BY <1>1, <1>3, <1>4

\* A worker that claims from a candidate list of any age still starts only what is
\* due now, for an account whose rate limit has passed, for every instance: `now'
\* is older than the claim, and the claim compares the row's present deadlines.
THEOREM ClaimsOnlyDueWorkHolds == Spec => ClaimsOnlyDueWork
<1>1. Init => TypeInv /\ SeenIsPast
  BY TypeInit DEF Init, SeenIsPast
<1>2. TypeInv /\ SeenIsPast /\ [Next]_vars => (TypeInv /\ SeenIsPast)'
  BY TypeStep, SeenStep
<1> DEFINE Due(w) == pc[w] = "choosing" /\ pc'[w] = "claimed" =>
                       LET r == claim'[w].repository IN
                       /\ AccountOf[r] \in elapsed
                       /\ Claimable(request[r], r, elapsed)
<1>3. TypeInv /\ SeenIsPast /\ [Next]_vars => [\A w \in Workers : Due(w)]_vars
  BY OnlyClaimsClaim, ClaimIsDue
<1> QED
  BY <1>1, <1>2, <1>3, PTL DEF Spec, ClaimsOnlyDueWork

-----------------------------------------------------------------------------
(* What is asked is kept until a synchronization covers it. *)

Needed(r) == owed[r] \ exposed[r]

Retained(r) ==
  Needed(r) # {} => /\ request[r] # NoRequest
                    /\ request[r].status \in {"PENDING", "RUNNING"}
                    /\ Needed(r) \subseteq request[r].scopes

\* Candidate or claim c was read from the row that is there: what was merged since
\* has made it a later generation.
ReadFrom(c, row) ==
  /\ row # NoRequest
  /\ c.generation <= row.generation
  /\ c.generation = row.generation => c.scopes = row.scopes

\* A settlement of w that reads the row now, or has read it, takes its claim for the
\* current one.
Current(w) == LET row == request[claim[w].repository]
              IN  row.lease = claim[w].token /\ row.generation <= claim[w].generation

Settles(w) == /\ claim[w].live
              /\ \/ Running(w) /\ Current(w)
                 \/ pc[w] = "writing" /\ found[w] = "current"

Covered(w) == LET r == claim[w].repository IN owed[r] \subseteq covers[w] \cup exposed[r]

\* What is disabled is owed nothing.
Forgiven == \A r \in Repositories : Enabled(r) \/ owed[r] = {}

\* Whoever holds the id of a row that is there has read that row.
Readers ==
  \A w \in Workers :
    /\ \A c \in candidates[w] : c.live => ReadFrom(c, request[c.repository])
    /\ Claiming(w) /\ claim[w].live => ReadFrom(claim[w], request[claim[w].repository])

\* The inductive invariant: what the property says, and that a settlement which ends a
\* request has covered all that is owed.
WorkIsRetained ==
  /\ \A r \in Repositories : Retained(r)
  /\ Forgiven
  /\ Readers
  /\ \A w \in Workers : Settles(w) => Covered(w)

LEMMA RunningClaims ==
  ASSUME TypeInv, NEW w \in Workers, Running(w) \/ pc[w] \in ClaimedPhases
  PROVE  Claiming(w) /\ claim[w] \in Claim /\ claim[w].repository \in Repositories
BY DEF TypeInv, TypeOK, ClaimPhase, ClaimedPhases, Running, Claiming, Claim

LEMMA Retaining == WorkIsRetained => RetainsRequestedWork
BY DEF WorkIsRetained, Retained, Needed, RetainsRequestedWork, Queued

-----------------------------------------------------------------------------
(* Producers. *)

\* Row y is what row x becomes when S is asked.
Takes(x, S, y) ==
  /\ y \in Request
  /\ y.status \in {"PENDING", "RUNNING"}
  /\ S \subseteq y.scopes
  /\ x # NoRequest => /\ x.scopes \subseteq y.scopes
                      /\ y.generation = x.generation + 1

LEMMA RowsAreAsked ==
  ASSUME NEW x \in Request \cup {NoRequest}, NEW S \in SUBSET Scopes
  PROVE  /\ Takes(x, S, Merge(x, S))
         /\ x = NoRequest => Takes(x, S, NewRequest(S))
         /\ x # NoRequest => Takes(x, Scopes, RestartedAnew(x))
<1>1. Takes(NoRequest, S, NewRequest(S))
  BY RowTypes DEF Takes, NewRequest
<1>2. CASE x = NoRequest
  BY <1>1, <1>2 DEF Merge
<1>3. CASE x # NoRequest
  <2>1. x \in Request
    BY <1>3
  <2>2. Merge(x, S) \in Request /\ RestartedAnew(x) \in Request
    BY <1>3, RowTypes
  <2>3. Takes(x, S, Merge(x, S))
    <3>1. Merge(x, S).status \in {"PENDING", "RUNNING"}
      BY <1>3, <2>1 DEF Merge, Request
    <3>2. /\ Merge(x, S).scopes = x.scopes \cup S
          /\ Merge(x, S).generation = x.generation + 1
      BY <1>3, <2>1 DEF Merge, Request
    <3>. QED BY <2>2, <3>1, <3>2 DEF Takes
  <2>4. Takes(x, Scopes, RestartedAnew(x))
    <3>. DEFINE base == Restarted(x)
    <3>1. base \in Request /\ base.status = "PENDING"
      BY <1>3, <2>1, RowTypes DEF Restarted, Request
    <3>2. RestartedAnew(x) = [base EXCEPT !.generation = x.generation + 1,
                                          !.scopes = Scopes]
      BY DEF RestartedAnew
    <3>. HIDE DEF base
    <3>3. /\ RestartedAnew(x).status = "PENDING" /\ RestartedAnew(x).scopes = Scopes
          /\ RestartedAnew(x).generation = x.generation + 1
      BY <3>1, <3>2 DEF Request
    <3>. QED BY <2>1, <2>2, <3>3 DEF Takes, Request
  <2>. QED BY <1>3, <2>3, <2>4
<1>. QED BY <1>2, <1>3

\* Somebody asks for scopes S of r.
Asking(r, S) ==
  /\ Ask(r, S)
  /\ Takes(request[r], S, request'[r])
  /\ \A q \in Repositories \ {r} : request'[q] = request[q]
  /\ UNCHANGED <<switches, pc, candidates, claim, found>>

LEMMA ProducersAsk ==
  ASSUME TypeInv, Produce
  PROVE  \/ \E r \in Repositories : \E S \in SUBSET Scopes : Asking(r, S)
         \/ UNCHANGED <<switches, request, pc, candidates, claim, found, history>>
<1>1. request \in [Repositories -> Request \cup {NoRequest}]
  BY DEF TypeInv, TypeOK
<1>2. ASSUME NEW r \in Repositories, NEW S \in SUBSET Scopes, Enqueue(r, S)
      PROVE  Asking(r, S)
  BY <1>1, <1>2, RowsAreAsked DEF Enqueue, Asking
<1>3. ASSUME NEW r \in Repositories, StartAvailable(r)
      PROVE  Asking(r, Scopes)
  BY <1>1, <1>3, RowsAreAsked DEF StartAvailable, Asking, Queued
<1>. QED BY <1>2, <1>3 DEF Produce, StartReconciliation, ReconcileRepository, EnqueueWebhook,
       ReadAvailability, RefuseStart, rows, local

LEMMA AskingRetains ==
  ASSUME TypeInv, WorkIsRetained, NEW r \in Repositories, NEW S \in SUBSET Scopes,
         Asking(r, S)
  PROVE  WorkIsRetained'
<1>1. /\ \A q \in Repositories \ {r} : owed'[q] = owed[q] /\ exposed'[q] = exposed[q]
      /\ owed'[r] = IF Enabled(r) THEN owed[r] \cup S ELSE owed[r]
      /\ exposed'[r] = IF Enabled(r) /\ InSettlement(r) THEN exposed[r] \cup S
                                                        ELSE exposed[r] \ S
      /\ \A w \in Workers : covers'[w] = IF Running(w) /\ claim[w].repository = r
                                         THEN covers[w] \ S ELSE covers[w]
  BY DEF Asking, Ask, TypeInv, TypeOK
<1>2. /\ \A q \in Repositories : Enabled(q)' <=> Enabled(q)
      /\ ~Enabled(r) => owed[r] = {}
  BY DEF Asking, switches, Enabled, WorkIsRetained, Forgiven, Readers
<1>3. ASSUME NEW q \in Repositories PROVE Retained(q)'
  <2>1. CASE q # r
    BY <1>1, <2>1 DEF Asking, WorkIsRetained, Forgiven, Readers, Retained, Needed
  <2>2. CASE q = r
    <3>1. Needed(r)' \subseteq Needed(r) \cup S
      BY <1>1, <1>2 DEF Needed
    <3>2. request'[r] # NoRequest
      BY DEF Asking, Takes, Request, NoRequest
    <3>3. Needed(r) \subseteq request'[r].scopes /\ S \subseteq request'[r].scopes
      BY DEF Asking, Takes, WorkIsRetained, Forgiven, Readers, Retained
    <3>. QED BY <2>2, <3>1, <3>2, <3>3 DEF Asking, Takes, Retained
  <2>. QED BY <2>1, <2>2
<1>4. ASSUME NEW q \in Repositories PROVE (Enabled(q) \/ owed[q] = {})'
  BY <1>1, <1>2 DEF WorkIsRetained, Forgiven, Readers
<1>5. ASSUME NEW c, c \in Claim \cup Candidate, c.live, ReadFrom(c, request[c.repository])
      PROVE  /\ ReadFrom(c, request'[c.repository])
             /\ c.repository = r => c.generation < request'[r].generation
  <2>1. c.repository \in Repositories /\ c.generation \in Nat
    BY <1>5 DEF Claim, Candidate
  <2>2. CASE c.repository # r
    BY <1>5, <2>1, <2>2 DEF Asking
  <2>3. CASE c.repository = r
    <3>1. request[r] \in Request /\ request'[r] \in Request
      BY <1>5, <2>3 DEF ReadFrom, TypeInv, TypeOK, Asking, Takes
    <3>2. request'[r].generation = request[r].generation + 1
      BY <1>5, <2>3 DEF ReadFrom, Asking, Takes
    <3>3. request[r].generation \in Nat /\ request'[r] # NoRequest
      BY <3>1 DEF Request, NoRequest
    <3>. QED BY <1>5, <2>1, <2>3, <3>2, <3>3 DEF ReadFrom
  <2>. QED BY <2>2, <2>3
<1>6. ASSUME NEW w \in Workers, NEW c \in candidates'[w], c.live
      PROVE  ReadFrom(c, request'[c.repository])
  BY <1>5, <1>6 DEF Asking, WorkIsRetained, Forgiven, Readers, TypeInv, TypeOK
<1>7. ASSUME NEW w \in Workers, Claiming(w)', claim'[w].live
      PROVE  /\ claim'[w] = claim[w] /\ Claiming(w) /\ claim[w].live
             /\ ReadFrom(claim[w], request'[claim[w].repository])
             /\ claim[w].repository = r => claim[w].generation < request'[r].generation
  BY <1>5, <1>7 DEF Asking, WorkIsRetained, Forgiven, Readers, TypeInv, TypeOK, Claiming
<1>8. ASSUME NEW w \in Workers, Settles(w)'
      PROVE  Covered(w)'
  <2>1. /\ Running(w) /\ claim'[w] = claim[w] /\ claim[w] \in Claim /\ claim[w].live
        /\ pc'[w] = pc[w] /\ found'[w] = found[w]
        /\ claim[w].repository \in Repositories
    BY <1>8, RunningClaims DEF Settles, Running, Asking
  <2>2. Claiming(w)' /\ claim'[w].live
    BY <1>8, <2>1, RunningClaims DEF Claiming, Settles
  <2>3. CASE claim[w].repository # r
    <3>2. request'[claim[w].repository] = request[claim[w].repository]
      BY <2>1, <2>3 DEF Asking
    <3>3. Current(w)' => Current(w)
      BY <2>1, <3>2 DEF Current
    <3>1. Settles(w)
      BY <1>8, <2>1, <3>3 DEF Settles
    <3>4. Covered(w)
      BY <3>1 DEF WorkIsRetained, Forgiven, Readers
    <3>5. /\ owed'[claim[w].repository] = owed[claim[w].repository]
          /\ exposed'[claim[w].repository] = exposed[claim[w].repository]
          /\ covers'[w] = covers[w]
      BY <1>1, <2>1, <2>3
    <3>. QED BY <2>1, <3>4, <3>5 DEF Covered
  <2>4. CASE claim[w].repository = r
    <3>1. ~Current(w)'
      <4>1. claim[w].generation < request'[r].generation
        BY <1>7, <2>2, <2>4
      <4>2. claim[w].generation \in Nat /\ request'[r].generation \in Nat
        BY <2>1 DEF Claim, Asking, Takes, Request
      <4>. QED BY <2>1, <2>4, <4>1, <4>2 DEF Current
    <3>2. pc[w] = "writing" /\ found[w] = "current"
      BY <1>8, <2>1, <3>1 DEF Settles
    <3>3. Covered(w)
      BY <2>1, <3>2 DEF WorkIsRetained, Forgiven, Readers, Settles
    <3>4. InSettlement(r)
      BY <2>1, <2>4, <3>2 DEF InSettlement
    <3>. QED BY <1>1, <1>2, <2>1, <2>4, <3>3, <3>4, ZenonT(60) DEF Covered
  <2>. QED BY <2>3, <2>4
<1>. QED BY <1>3, <1>4, <1>6, <1>7, <1>8 DEF WorkIsRetained, Forgiven, Readers

-----------------------------------------------------------------------------
(* Workers. *)

\* A row that is written without being asked anything keeps what it was asked.
Goes(x, y) == x # NoRequest => /\ y # NoRequest
                               /\ y.generation = x.generation /\ y.scopes = x.scopes

\* Steps that ask for nothing: rows go on or are deleted, and who has read a deleted
\* row is told so.
LEMMA ReadersFrame ==
  ASSUME TypeInv, WorkIsRetained, NEW R,
         \A q \in Repositories \ R : Goes(request[q], request'[q]),
         \A w \in Workers : \A c \in candidates'[w] :
           \E d \in candidates[w] : (c = d /\ d.repository \notin R) \/ c = Orphaned(d, R),
         \A w \in Workers : Claiming(w)' =>
           /\ Claiming(w)
           /\ \/ claim'[w] = claim[w] /\ claim[w].repository \notin R
              \/ claim'[w] = Orphaned(claim[w], R)
  PROVE  /\ Readers'
         /\ \A w \in Workers : Claiming(w)' /\ claim'[w].live =>
              claim'[w] = claim[w] /\ claim[w].repository \in Repositories \ R
<1>1. ASSUME NEW d \in Claim \cup Candidate, NEW c, c.live,
             (c = d /\ d.repository \notin R) \/ c = Orphaned(d, R),
             d.live => ReadFrom(d, request[d.repository])
      PROVE  /\ ReadFrom(c, request'[c.repository])
             /\ c = d /\ d.repository \in Repositories \ R
  <2>1. d # NoClaim /\ d.repository \in Repositories
    BY DEF Claim, Candidate, NoClaim
  <2>2. c = d /\ d.repository \notin R
    <3>1. ASSUME c = Orphaned(d, R), d.repository \in R
          PROVE  FALSE
      <4>1. c = [d EXCEPT !.live = FALSE]
        BY <2>1, <3>1 DEF Orphaned
      <4>. QED BY <1>1, <4>1 DEF Claim, Candidate
    <3>. QED BY <1>1, <3>1 DEF Orphaned
  <2>. QED BY <1>1, <2>1, <2>2 DEF ReadFrom, Goes
<1>2. ASSUME NEW w \in Workers, NEW c \in candidates'[w], c.live
      PROVE  ReadFrom(c, request'[c.repository])
  <2>1. PICK d \in candidates[w] : (c = d /\ d.repository \notin R) \/ c = Orphaned(d, R)
    OBVIOUS
  <2>. QED BY <1>1, <1>2, <2>1 DEF TypeInv, TypeOK, WorkIsRetained, Forgiven, Readers
<1>3. ASSUME NEW w \in Workers, Claiming(w)', claim'[w].live
      PROVE  /\ ReadFrom(claim'[w], request'[claim'[w].repository])
             /\ claim'[w] = claim[w] /\ claim[w].repository \in Repositories \ R
  <2>1. /\ claim[w] \in Claim /\ Claiming(w)
        /\ claim[w].live => ReadFrom(claim[w], request[claim[w].repository])
    BY <1>3 DEF TypeInv, TypeOK, WorkIsRetained, Forgiven, Readers, Claiming
  <2>2. \/ claim'[w] = claim[w] /\ claim[w].repository \notin R
        \/ claim'[w] = Orphaned(claim[w], R)
    BY <1>3
  <2>. QED BY <1>1, <1>3, <2>1, <2>2
<1>. QED BY <1>2, <1>3 DEF Readers

\* Scopes V are covered or forgiven, and no longer exposed.
Fades(r) == \E V : owed'[r] = owed[r] \ V /\ exposed'[r] = exposed[r] \ V

\* Row r is what it was, or waits with what it was asked, or nothing is needed of it.
Rests(r) ==
  \/ request'[r] = request[r]
  \/ Goes(request[r], request'[r]) /\ request'[r].status \in {"PENDING", "RUNNING"}
  \/ Needed(r)' = {}

\* Worker w takes no more for its own to settle than it did.
Sticks(w) ==
  Settles(w)' => Settles(w) /\ claim'[w] = claim[w] /\ covers'[w] = covers[w]

\* Steps that ask for nothing.
LEMMA FadingFrame ==
  ASSUME WorkIsRetained, Readers', Forgiven',
         \A r \in Repositories : Fades(r) /\ Rests(r),
         \A w \in Workers : Sticks(w),
         \A w \in Workers : Settles(w) => claim[w].repository \in Repositories
  PROVE  WorkIsRetained'
<1>1. ASSUME NEW r \in Repositories
      PROVE  Retained(r)'
  <2>1. Needed(r)' \subseteq Needed(r)
    BY DEF Fades, Needed
  <2>2. Retained(r)
    BY DEF WorkIsRetained
  <2>. QED BY <2>1, <2>2 DEF Rests, Retained, Goes
<1>2. ASSUME NEW w \in Workers, Settles(w)'
      PROVE  Covered(w)'
  <2>1. /\ Covered(w) /\ claim'[w] = claim[w] /\ covers'[w] = covers[w]
        /\ claim[w].repository \in Repositories
    BY <1>2 DEF WorkIsRetained, Sticks
  <2>2. Fades(claim[w].repository)
    BY <2>1
  <2>. QED BY <2>1, <2>2 DEF Covered, Fades
<1>. QED BY <1>1, <1>2 DEF WorkIsRetained

LEMMA SettlesClaim ==
  ASSUME TypeInv, NEW w \in Workers, Settles(w)
  PROVE  /\ Claiming(w) /\ claim[w] \in Claim /\ claim[w].repository \in Repositories
         /\ Running(w) /\ claim[w].live
BY RunningClaims DEF Settles, Running

\* Steps that change no row and nothing of the history.
LEMMA QuietFrame ==
  ASSUME TypeInv, WorkIsRetained, UNCHANGED <<switches, request, history>>, Readers',
         \A w \in Workers : Settles(w)' => Settles(w) /\ claim'[w] = claim[w]
  PROVE  WorkIsRetained'
<1>1. UNCHANGED <<owed, covers, exposed>>
  BY DEF history
<1>2. \A r \in Repositories : Fades(r) /\ Rests(r)
  <2>1. \A r \in Repositories : owed'[r] = owed[r] \ {} /\ exposed'[r] = exposed[r] \ {}
    BY <1>1
  <2>. QED BY <2>1 DEF Fades, Rests
<1>3. Forgiven'
  BY <1>1 DEF WorkIsRetained, Forgiven, Enabled, switches
<1>. QED BY <1>1, <1>2, <1>3, FadingFrame, SettlesClaim DEF Sticks

LEMMA QuietRetains ==
  ASSUME TypeInv, WorkIsRetained, NEW w \in Workers,
         \/ ReadCandidates(w) \/ ReadCurrent(w)
         \/ \E c \in candidates[w] : SkipCandidate(w, c)
         \/ \E v \in Verdicts : EndSync(w, v)
         \/ RejectCompletion(w) \/ OverrunLease(w)
  PROVE  WorkIsRetained'
<1>1. UNCHANGED <<switches, request, history, claim>>
  BY DEF ReadCandidates, ReadCurrent, SkipCandidate, EndSync, RejectCompletion,
         OverrunLease, rows, local
<1>2. Readers'
  <2>1. CASE ReadCandidates(w)
    <3>1. ASSUME NEW v \in Workers, NEW c \in candidates'[v], c.live
          PROVE  ReadFrom(c, request[c.repository])
      <4>1. CASE v # w
        BY <2>1, <3>1, <4>1 DEF ReadCandidates, WorkIsRetained, Readers, TypeInv, TypeOK
      <4>2. CASE v = w
        <5>1. PICK r \in Repositories :
                /\ Claimable(request[r], r, elapsed)
                /\ c = [repository |-> r, live |-> TRUE, attempt |-> request[r].attempt,
                        generation |-> request[r].generation, scopes |-> request[r].scopes]
          BY <2>1, <3>1, <4>2 DEF ReadCandidates, TypeInv, TypeOK
        <5>2. request[r] \in Request
          BY <5>1 DEF Claimable, TypeInv, TypeOK
        <5>. QED BY <5>1, <5>2 DEF ReadFrom, Claimable, Request
      <4>. QED BY <4>1, <4>2
    <3>. QED BY <1>1, <3>1 DEF WorkIsRetained, Readers, Claiming
  <2>2. CASE ~ReadCandidates(w)
    <3>1. \A v \in Workers : candidates'[v] \subseteq candidates[v]
      BY <2>2 DEF ReadCurrent, SkipCandidate, EndSync, RejectCompletion, OverrunLease,
                  local, TypeInv, TypeOK
    <3>. QED BY <1>1, <3>1 DEF WorkIsRetained, Readers, Claiming
  <2>. QED BY <2>1, <2>2
<1>3. ASSUME NEW v \in Workers, Settles(v)'
      PROVE  Settles(v) /\ claim'[v] = claim[v]
  <2>1. Current(v)' <=> Current(v)
    BY <1>1 DEF Current
  <2>2. Running(v)' => Running(v)
    BY DEF ReadCandidates, ReadCurrent, SkipCandidate, EndSync, RejectCompletion,
           OverrunLease, Running, local, TypeInv, TypeOK
  <2>3. pc'[v] = "writing" /\ found'[v] = "current" /\ claim[v].live =>
          \/ pc[v] = "writing" /\ found[v] = "current"
          \/ Running(v) /\ Current(v)
    <3>1. CASE ReadCurrent(w)
      <4>1. CASE v # w
        BY <3>1, <4>1 DEF ReadCurrent, TypeInv, TypeOK
      <4>2. CASE v = w
        <5>1. claim[w] \in Claim /\ claim[w].repository \in Repositories /\ Running(w)
          BY <3>1, RunningClaims DEF ReadCurrent, Running
        <5>2. found'[w] = "current" => Current(w)
          <6>1. found'[w] = "current" => /\ RowExists(w)
                  /\ request[claim[w].repository].lease = claim[w].token
                  /\ ~(request[claim[w].repository].generation > claim[w].generation)
            BY <3>1 DEF ReadCurrent, TypeInv, TypeOK
          <6>2. RowExists(w) => request[claim[w].repository] \in Request
            BY <5>1 DEF RowExists, Queued, TypeInv, TypeOK
          <6>3. /\ RowExists(w) => request[claim[w].repository].generation \in Nat
                /\ claim[w].generation \in Nat
            BY <5>1, <6>2 DEF Request, Claim
          <6>. QED BY <6>1, <6>3 DEF Current
        <5>. QED BY <4>2, <5>1, <5>2
      <4>. QED BY <4>1, <4>2
    <3>2. CASE ~ReadCurrent(w)
      BY <3>2 DEF ReadCandidates, SkipCandidate, EndSync, RejectCompletion,
                  OverrunLease, local, TypeInv, TypeOK
    <3>. QED BY <3>1, <3>2
  <2>. QED BY <1>1, <1>3, <2>1, <2>2, <2>3 DEF Settles
<1>. QED BY <1>1, <1>2, <1>3, QuietFrame

LEMMA PurgeRetains ==
  ASSUME TypeInv, WorkIsRetained, NEW w \in Workers, StartProcessing(w)
  PROVE  WorkIsRetained'
<1>. DEFINE R == {r \in Repositories : ~Enabled(r)}
<1>1. /\ request' = [r \in Repositories |-> IF r \in R THEN NoRequest ELSE request[r]]
      /\ candidates' = [v \in Workers |-> {Orphaned(c, R) : c \in candidates[v]}]
      /\ claim' = [v \in Workers |-> Orphaned(claim[v], R)]
      /\ pc' = [pc EXCEPT ![w] = "polling"]
      /\ UNCHANGED <<switches, found, owed, covers, exposed>>
  BY DEF StartProcessing, Delete, history
<1>2. \A r \in R : owed[r] = {}
  BY DEF WorkIsRetained, Forgiven
<1>. HIDE DEF R
<1>3. ASSUME NEW v \in Workers, Claiming(v)'
      PROVE  Claiming(v) /\ claim'[v] = Orphaned(claim[v], R)
  BY <1>1, <1>3, OrphanedClaim, ZenonT(60) DEF Claiming, TypeInv, TypeOK
<1>4. /\ Readers'
      /\ \A v \in Workers : Claiming(v)' /\ claim'[v].live =>
           claim'[v] = claim[v] /\ claim[v].repository \in Repositories \ R
  <2>1. \A r \in Repositories \ R : Goes(request[r], request'[r])
    BY <1>1 DEF Goes
  <2>2. \A v \in Workers : \A c \in candidates'[v] :
          \E d \in candidates[v] : (c = d /\ d.repository \notin R) \/ c = Orphaned(d, R)
    BY <1>1
  <2>3. \A v \in Workers : Claiming(v)' =>
          /\ Claiming(v)
          /\ \/ claim'[v] = claim[v] /\ claim[v].repository \notin R
             \/ claim'[v] = Orphaned(claim[v], R)
    BY <1>3
  <2>. QED BY <2>1, <2>2, <2>3, ReadersFrame
<1>5. ASSUME NEW v \in Workers, Settles(v)'
      PROVE  Settles(v) /\ claim'[v] = claim[v] /\ covers'[v] = covers[v]
  <2>1. /\ pc'[v] = pc[v] /\ Running(v) /\ found'[v] = found[v] /\ claim'[v].live
    BY <1>1, <1>5 DEF Settles, Running, TypeInv, TypeOK
  <2>2. Claiming(v)
    BY <2>1, RunningClaims
  <2>3. Claiming(v)'
    BY <1>1, <2>2, OrphanedClaim DEF Claiming, TypeInv, TypeOK
  <2>4. claim'[v] = claim[v] /\ claim[v].repository \in Repositories \ R
    BY <1>4, <2>1, <2>3
  <2>5. request'[claim[v].repository] = request[claim[v].repository]
    BY <1>1, <2>4
  <2>6. Current(v)' => Current(v)
    BY <2>4, <2>5 DEF Current
  <2>. QED BY <1>1, <1>5, <2>1, <2>4, <2>6 DEF Settles
<1>6. ASSUME NEW r \in Repositories
      PROVE  Fades(r) /\ Rests(r)
  <2>1. owed'[r] = owed[r] \ {} /\ exposed'[r] = exposed[r] \ {}
    BY <1>1
  <2>2. Rests(r)
    BY <1>1, <1>2 DEF Rests, Needed
  <2>. QED BY <2>1, <2>2 DEF Fades
<1>7. Forgiven'
  BY <1>1 DEF WorkIsRetained, Forgiven, Enabled, switches
<1>. QED BY <1>4, <1>5, <1>6, <1>7, FadingFrame, SettlesClaim DEF Sticks

LEMMA ClaimRetains ==
  ASSUME TypeInv, WorkIsRetained, NEW w \in Workers, NEW c \in candidates[w],
         NEW t \in Tokens, ClaimCandidate(w, c, t)
  PROVE  WorkIsRetained'
<1>. DEFINE r   == c.repository
            row == [request[r] EXCEPT !.status = "RUNNING",
                                      !.attempt = request[r].attempt + 1,
                                      !.lease = t]
            mine == [repository |-> r, live |-> TRUE, attempt |-> c.attempt + 1,
                     generation |-> c.generation, scopes |-> c.scopes, token |-> t]
<1>1. /\ r \in Repositories /\ request[r] \in Request /\ c.live /\ request[r] # NoRequest
      /\ ReadFrom(c, request[r])
  BY DEF TypeInv, TypeOK, Candidate, ClaimCandidate, Acquirable, Claimable, WorkIsRetained,
         Readers
<1>2. request' = [request EXCEPT ![r] = row]
  BY <1>1 DEF ClaimCandidate, TypeInv, TypeOK
<1>3. /\ row.status = "RUNNING" /\ row.lease = t /\ row.scopes = request[r].scopes
      /\ row.generation = request[r].generation /\ row # NoRequest
  <2>1. row \in [status: {"RUNNING"}, attempt: {request[r].attempt + 1}, generation: Nat,
                 scopes: SUBSET Scopes, lease: {t}]
    BY <1>1 DEF Request
  <2>2. row # NoRequest
    BY <2>1 DEF NoRequest
  <2>. QED BY <1>1, <2>2 DEF Request
<1>4. /\ claim' = [claim EXCEPT ![w] = mine] /\ candidates' = [candidates EXCEPT ![w] = {}]
      /\ pc' = [pc EXCEPT ![w] = "claimed"] /\ found' = found
      /\ UNCHANGED <<switches, owed, covers, exposed>>
  BY DEF ClaimCandidate, history
<1>5. \A v \in Workers : claim[v].token # t
  BY DEF ClaimCandidate, TokensInUse
<1>6. ReadFrom(c, row) => ReadFrom(mine, row)
  BY DEF ReadFrom
<1>. HIDE DEF row, mine, r
<1>7. \A q \in Repositories : Goes(request[q], request'[q])
  BY <1>1, <1>2, <1>3 DEF Goes, TypeInv, TypeOK
<1>8. ASSUME NEW d, d.repository \in Repositories, ReadFrom(d, request[d.repository])
      PROVE  ReadFrom(d, request'[d.repository])
  BY <1>7, <1>8 DEF ReadFrom, Goes
<1>9. Readers'
  <2>1. ASSUME NEW v \in Workers, NEW d \in candidates'[v], d.live
        PROVE  ReadFrom(d, request'[d.repository])
    <3>1. d \in candidates[v]
      BY <1>4, <2>1 DEF TypeInv, TypeOK
    <3>. QED BY <1>8, <2>1, <3>1 DEF WorkIsRetained, Readers, TypeInv, TypeOK, Candidate
  <2>2. ASSUME NEW v \in Workers, v # w, Claiming(v)', claim'[v].live
        PROVE  ReadFrom(claim'[v], request'[claim'[v].repository])
    <3>1. claim'[v] = claim[v]
      BY <1>4, <2>2 DEF TypeInv, TypeOK
    <3>. QED BY <1>8, <2>2, <3>1 DEF WorkIsRetained, Readers, TypeInv, TypeOK, Claiming, Claim
  <2>3. ReadFrom(mine, request'[r]) /\ mine.repository = r
    <3>1. ReadFrom(c, row)
      BY <1>1, <1>3 DEF ReadFrom
    <3>. QED BY <1>1, <1>2, <1>6, <3>1 DEF TypeInv, TypeOK, mine
  <2>4. claim'[w] = mine
    BY <1>4 DEF TypeInv, TypeOK
  <2>. QED BY <2>1, <2>2, <2>3, <2>4 DEF Readers
<1>10. ASSUME NEW v \in Workers, Settles(v)'
       PROVE  Settles(v) /\ claim'[v] = claim[v] /\ covers'[v] = covers[v]
  <2>1. v # w /\ pc'[v] = pc[v] /\ claim'[v] = claim[v] /\ Running(v) /\ found'[v] = found[v]
    BY <1>4, <1>10 DEF Settles, Running, TypeInv, TypeOK
  <2>2. claim[v].repository \in Repositories
    BY <2>1, RunningClaims
  <2>3. Current(v)' => Current(v)
    BY <1>1, <1>2, <1>3, <1>5, <2>1, <2>2 DEF Current, TypeInv, TypeOK
  <2>. QED BY <1>4, <1>10, <2>1, <2>3 DEF Settles
<1>11. ASSUME NEW q \in Repositories
       PROVE  Fades(q) /\ Rests(q)
  <2>1. owed'[q] = owed[q] \ {} /\ exposed'[q] = exposed[q] \ {}
    BY <1>4
  <2>2. Rests(q)
    BY <1>1, <1>2, <1>3, <1>7 DEF Rests, TypeInv, TypeOK
  <2>. QED BY <2>1, <2>2 DEF Fades
<1>12. Forgiven'
  BY <1>4 DEF WorkIsRetained, Forgiven, Enabled, switches
<1>. QED BY <1>9, <1>10, <1>11, <1>12, FadingFrame, SettlesClaim DEF Sticks

\* What a synchronization starts on is what its row asked for, or the row has moved on.
LEMMA BeginRetains ==
  ASSUME TypeInv, WorkIsRetained, NEW w \in Workers, BeginSync(w)
  PROVE  WorkIsRetained'
<1>. DEFINE r == claim[w].repository
<1>1. Claiming(w) /\ claim[w] \in Claim /\ r \in Repositories
  BY RunningClaims DEF BeginSync, ClaimedPhases
<1>2. /\ pc' = [pc EXCEPT ![w] = IF Enabled(r) THEN "syncing" ELSE "settling"]
      /\ covers' = [covers EXCEPT ![w] = IF Enabled(r) THEN claim[w].scopes ELSE {}]
      /\ UNCHANGED <<switches, request, candidates, claim, found, owed, exposed>>
  BY DEF BeginSync, rows
<1>3. Readers' /\ Forgiven' /\ \A q \in Repositories : Retained(q)'
  BY <1>2 DEF WorkIsRetained, Readers, Forgiven, Retained, Needed, ReadFrom, Claiming,
              Enabled, switches
<1>4. ASSUME NEW v \in Workers, Settles(v)', v # w
      PROVE  Covered(v)'
  <2>1. pc'[v] = pc[v] /\ covers'[v] = covers[v]
    BY <1>2, <1>4 DEF TypeInv, TypeOK
  <2>2. Settles(v)
    BY <1>2, <1>4, <2>1 DEF Settles, Running, Current
  <2>. QED BY <1>2, <2>1, <2>2 DEF WorkIsRetained, Covered
<1>5. ASSUME Settles(w)'
      PROVE  Covered(w)'
  <2>1. Current(w) /\ claim[w].live
    BY <1>2, <1>5 DEF Settles, Current, TypeInv, TypeOK
  <2>2. CASE Enabled(r)
    <3>1. ReadFrom(claim[w], request[r]) /\ Retained(r)
      BY <1>1, <2>1 DEF WorkIsRetained, Readers
    <3>2. request[r] \in Request
      BY <1>1, <3>1 DEF ReadFrom, TypeInv, TypeOK
    <3>3. request[r].generation = claim[w].generation
      BY <1>1, <2>1, <3>1, <3>2 DEF ReadFrom, Current, Request, Claim
    <3>4. Needed(r) \subseteq claim[w].scopes
      BY <3>1, <3>3 DEF ReadFrom, Retained
    <3>5. covers'[w] = claim[w].scopes
      BY <1>2, <2>2 DEF TypeInv, TypeOK
    <3>. QED BY <1>2, <3>4, <3>5 DEF Covered, Needed
  <2>3. CASE ~Enabled(r)
    BY <1>1, <1>2, <2>3 DEF Covered, WorkIsRetained, Forgiven
  <2>. QED BY <2>2, <2>3
<1>. QED BY <1>3, <1>4, <1>5 DEF WorkIsRetained

\* Worker w ends its run: the others go on, and V of what is owed has been covered.
Leaves(w, V) ==
  LET r == claim[w].repository IN
  /\ pc'[w] \in {"polling", "idle"}
  /\ \A v \in Workers \ {w} : pc'[v] = pc[v] /\ found'[v] = found[v] /\ covers'[v] = covers[v]
  /\ owed' = [owed EXCEPT ![r] = @ \ V]
  /\ exposed' = [exposed EXCEPT ![r] = @ \ V]
  /\ UNCHANGED switches

LEMMA LeavingFades ==
  ASSUME TypeInv, WorkIsRetained, NEW w \in Workers, NEW V, Leaves(w, V),
         claim[w] \in Claim
  PROVE  /\ \A q \in Repositories : Fades(q)
         /\ Forgiven'
<1>1. claim[w].repository \in Repositories
  BY DEF Claim
<1>2. ASSUME NEW q \in Repositories
      PROVE  Fades(q) /\ owed'[q] \subseteq owed[q]
  <2>1. CASE q = claim[w].repository
    <3>1. owed'[q] = owed[q] \ V /\ exposed'[q] = exposed[q] \ V
      BY <1>1, <2>1 DEF Leaves, TypeInv, TypeOK
    <3>. QED BY <3>1 DEF Fades
  <2>2. CASE q # claim[w].repository
    <3>1. owed'[q] = owed[q] \ {} /\ exposed'[q] = exposed[q] \ {}
      BY <2>2 DEF Leaves, TypeInv, TypeOK
    <3>. QED BY <3>1 DEF Fades
  <2>. QED BY <2>1, <2>2
<1>3. Forgiven'
  BY <1>2 DEF WorkIsRetained, Forgiven, Leaves, Enabled, switches
<1>. QED BY <1>2, <1>3

\* The row of the run is kept: as it was, or without a lease.
LEMMA KeptRowRetains ==
  ASSUME TypeInv, WorkIsRetained, NEW w \in Workers, NEW V, Leaves(w, V),
         claim[w] \in Claim, NEW r \in Repositories, r = claim[w].repository, NEW row,
         request' = [request EXCEPT ![r] = row],
         row = request[r] \/ (Goes(request[r], row) /\ row.lease = NoToken),
         Rests(r),
         candidates' = candidates, claim' = [claim EXCEPT ![w] = NoClaim]
  PROVE  WorkIsRetained'
<1>1. r \in Repositories
  OBVIOUS
<1>2. request'[r] = row /\ \A q \in Repositories \ {r} : request'[q] = request[q]
  BY <1>1 DEF TypeInv, TypeOK
<1>3. /\ ~Claiming(w)' /\ ~Settles(w)'
      /\ \A v \in Workers \ {w} : claim'[v] = claim[v]
  <2>1. claim'[w] = NoClaim /\ \A v \in Workers \ {w} : claim'[v] = claim[v]
    BY DEF TypeInv, TypeOK
  <2>. QED BY <2>1 DEF Claiming, Settles, Running, Leaves
<1>4. Readers'
  <2>1. \A q \in Repositories \ {} : Goes(request[q], request'[q])
    <3>1. ASSUME NEW q \in Repositories PROVE Goes(request[q], request'[q])
      BY <1>1, <1>2 DEF Goes
    <3>. QED BY <3>1
  <2>2. \A v \in Workers : \A c \in candidates'[v] :
          \E d \in candidates[v] : (c = d /\ d.repository \notin {}) \/ c = Orphaned(d, {})
    OBVIOUS
  <2>3. \A v \in Workers : Claiming(v)' =>
          /\ Claiming(v)
          /\ \/ claim'[v] = claim[v] /\ claim[v].repository \notin {}
             \/ claim'[v] = Orphaned(claim[v], {})
    BY <1>3 DEF Claiming
  <2>. QED BY <2>1, <2>2, <2>3, ReadersFrame
<1>5. ASSUME NEW v \in Workers
      PROVE  Sticks(v)
  <2>1. CASE v = w
    BY <1>3, <2>1 DEF Sticks
  <2>2. CASE v # w
    <3>1. /\ claim'[v] = claim[v] /\ pc'[v] = pc[v] /\ found'[v] = found[v]
          /\ covers'[v] = covers[v]
      BY <1>3, <2>2 DEF Leaves
    <3>2. ASSUME Running(v) PROVE Current(v)' => Current(v)
      <4>1. claim[v] \in Claim
        BY <3>2, RunningClaims
      <4>2. claim[v].token # NoToken /\ claim[v].repository \in Repositories
        BY <4>1 DEF Claim
      <4>. QED BY <1>1, <1>2, <3>1, <4>2 DEF Current
    <3>. QED BY <3>1, <3>2 DEF Sticks, Settles, Running
  <2>. QED BY <2>1, <2>2
<1>6. ASSUME NEW q \in Repositories PROVE Rests(q)
  <2>1. CASE q = r
    BY <2>1
  <2>2. CASE q # r
    BY <1>2, <2>2 DEF Rests
  <2>. QED BY <2>1, <2>2
<1>. QED BY <1>4, <1>5, <1>6, LeavingFades, FadingFrame, SettlesClaim

\* The row of the run is deleted, and nothing is needed of it.
LEMMA DeletedRowRetains ==
  ASSUME TypeInv, WorkIsRetained, NEW w \in Workers, NEW V, Leaves(w, V),
         claim[w] \in Claim, NEW r \in Repositories, r = claim[w].repository, Delete({r}),
         claim' = [v \in Workers |-> IF v = w THEN NoClaim ELSE Orphaned(claim[v], {r})],
         Needed(r)' = {}
  PROVE  WorkIsRetained'
<1>1. r \in Repositories
  OBVIOUS
<1>2. request'[r] = NoRequest /\ \A q \in Repositories \ {r} : request'[q] = request[q]
  BY <1>1 DEF Delete
<1>3. ~Claiming(w)' /\ ~Settles(w)'
  BY DEF Claiming, Settles, Running, Leaves
<1>4. ASSUME NEW v \in Workers, Claiming(v)'
      PROVE  v # w /\ Claiming(v) /\ claim'[v] = Orphaned(claim[v], {r})
  <2>1. v # w
    BY <1>3, <1>4
  <2>2. claim'[v] = Orphaned(claim[v], {r})
    BY <2>1
  <2>3. claim[v] \in Claim \cup {NoClaim}
    BY DEF TypeInv, TypeOK
  <2>4. Orphaned(claim[v], {r}) = NoClaim <=> claim[v] = NoClaim
    BY <2>3, OrphanedClaim
  <2>. QED BY <1>4, <2>1, <2>2, <2>4 DEF Claiming
<1>5. /\ Readers'
      /\ \A v \in Workers : Claiming(v)' /\ claim'[v].live =>
           claim'[v] = claim[v] /\ claim[v].repository \in Repositories \ {r}
  <2>1. \A q \in Repositories \ {r} : Goes(request[q], request'[q])
    BY <1>2 DEF Goes
  <2>2. \A v \in Workers : \A c \in candidates'[v] :
          \E d \in candidates[v] : (c = d /\ d.repository \notin {r}) \/ c = Orphaned(d, {r})
    BY DEF Delete
  <2>3. \A v \in Workers : Claiming(v)' =>
          /\ Claiming(v)
          /\ \/ claim'[v] = claim[v] /\ claim[v].repository \notin {r}
             \/ claim'[v] = Orphaned(claim[v], {r})
    BY <1>4
  <2>. QED BY <2>1, <2>2, <2>3, ReadersFrame
<1>6. ASSUME NEW v \in Workers, Settles(v)'
      PROVE  Settles(v) /\ claim'[v] = claim[v] /\ covers'[v] = covers[v]
  <2>1. v # w
    BY <1>3, <1>6
  <2>2. pc'[v] = pc[v] /\ found'[v] = found[v] /\ covers'[v] = covers[v]
    BY <2>1 DEF Leaves
  <2>3. Running(v) /\ claim'[v].live
    BY <1>6, <2>2 DEF Settles, Running
  <2>4. Claiming(v)
    BY <2>3, RunningClaims
  <2>5. Claiming(v)'
    BY <2>1, <2>4, OrphanedClaim DEF Claiming, TypeInv, TypeOK
  <2>6. claim'[v] = claim[v] /\ claim[v].repository \in Repositories \ {r}
    BY <1>5, <2>3, <2>5
  <2>7. Current(v)' => Current(v)
    BY <1>2, <2>6 DEF Current
  <2>. QED BY <1>6, <2>2, <2>3, <2>6, <2>7 DEF Settles
<1>7. ASSUME NEW q \in Repositories PROVE Rests(q)
  BY <1>2 DEF Rests
<1>. QED BY <1>5, <1>6, <1>7, LeavingFades, FadingFrame, SettlesClaim DEF Sticks

\* A settlement that read the row as current has covered all that is needed.
LEMMA DischargedIsDone ==
  ASSUME TypeInv, WorkIsRetained, NEW w \in Workers, claim[w] \in Claim,
         NEW r \in Repositories, r = claim[w].repository,
         pc[w] = "writing", found[w] = "current", RowExists(w), Discharge(w)
  PROVE  Needed(r)' = {}
<1>1. r \in Repositories
  OBVIOUS
<1>2. Covered(w)
  BY DEF RowExists, Settles, WorkIsRetained
<1>3. owed'[r] = owed[r] \ covers[w] /\ exposed'[r] = exposed[r] \ covers[w]
  BY <1>1 DEF Discharge, TypeInv, TypeOK
<1>. QED BY <1>2, <1>3 DEF Covered, Needed

LEMMA WritingClaim ==
  ASSUME TypeInv, NEW w \in Workers, pc[w] = "writing"
  PROVE  /\ Claiming(w) /\ claim[w] \in Claim /\ claim[w].repository \in Repositories
         /\ RowExists(w) => request[claim[w].repository] \in Request
BY RunningClaims DEF Running, RowExists, Queued, TypeInv, TypeOK

LEMMA LeavesBy ==
  ASSUME TypeInv, NEW w \in Workers, NEW p \in {"polling", "idle"}, Forget(w, p),
         UNCHANGED switches
  PROVE  /\ Discharge(w) => Leaves(w, covers[w])
         /\ Undischarged(w) => Leaves(w, {})
<1>1. /\ pc'[w] = p
      /\ \A v \in Workers \ {w} : pc'[v] = pc[v] /\ found'[v] = found[v]
  BY DEF Forget, TypeInv, TypeOK
<1>2. ASSUME covers' = [covers EXCEPT ![w] = {}]
      PROVE  \A v \in Workers \ {w} : covers'[v] = covers[v]
  BY <1>2 DEF TypeInv, TypeOK
<1>3. Discharge(w) => Leaves(w, covers[w])
  BY <1>1, <1>2 DEF Discharge, Leaves
<1>4. Undischarged(w) => Leaves(w, {})
  <2>1. ASSUME NEW r
        PROVE  owed = [owed EXCEPT ![r] = @ \ {}] /\ exposed = [exposed EXCEPT ![r] = @ \ {}]
    BY DEF TypeInv, TypeOK
  <2>. QED BY <1>1, <1>2, <2>1 DEF Undischarged, Leaves
<1>. QED BY <1>3, <1>4

\* A row that waits again, with what it was asked and without a lease.
LEMMA ResetRows ==
  ASSUME NEW row \in Request
  PROVE  /\ Goes(row, Restarted(row))
         /\ Restarted(row).lease = NoToken /\ Restarted(row).status = "PENDING"
         /\ \A s \in Statuses :
              LET left == [[row EXCEPT !.status = s] EXCEPT !.lease = NoToken] IN
              Goes(row, left) /\ left.lease = NoToken /\ left.status = s
<1>1. row # NoRequest
  BY DEF Request, NoRequest
<1>2. Restarted(row) \in Request
  BY <1>1, RowTypes
<1>3. Restarted(row) # NoRequest
  BY <1>2 DEF Request, NoRequest
<1>4. ASSUME NEW s \in Statuses
      PROVE  LET left == [[row EXCEPT !.status = s] EXCEPT !.lease = NoToken] IN
             Goes(row, left) /\ left.lease = NoToken /\ left.status = s
  <2>. DEFINE left == [[row EXCEPT !.status = s] EXCEPT !.lease = NoToken]
  <2>1. left \in Request
    BY DEF Request
  <2>2. \A x \in Request : x # NoRequest
    BY DEF Request, NoRequest
  <2>3. left # NoRequest
    BY <2>1, <2>2
  <2>. QED BY <2>3 DEF Goes, Request
<1>. QED BY <1>3, <1>4 DEF Goes, Restarted, Request

LEMMA SettlementRetains ==
  ASSUME TypeInv, WorkIsRetained, NEW w \in Workers,
         WriteCompletion(w) \/ WriteFailure(w)
  PROVE  WorkIsRetained'
<1>1. pc[w] = "writing"
  BY DEF WriteCompletion, WriteFailure
<1>2. PICK r \in Repositories : r = claim[w].repository
  BY <1>1, WritingClaim
<1>3. /\ claim[w] \in Claim
      /\ RowExists(w) => request[r] \in Request
  BY <1>1, <1>2, WritingClaim
<1>4. /\ Discharge(w) => Leaves(w, covers[w])
      /\ Undischarged(w) => Leaves(w, {})
  BY LeavesBy DEF WriteCompletion, WriteFailure
<1>5. PICK V : Leaves(w, V)
  BY <1>4 DEF WriteCompletion, WriteFailure
<1>6. ASSUME request' = request, candidates' = candidates,
             claim' = [claim EXCEPT ![w] = NoClaim]
      PROVE  WorkIsRetained'
  <2>1. request' = [request EXCEPT ![r] = request[r]]
    BY <1>6 DEF TypeInv, TypeOK
  <2>2. Rests(r)
    BY <1>6 DEF Rests
  <2>. QED BY <1>2, <1>3, <1>5, <1>6, <2>1, <2>2, KeptRowRetains
<1>7. ASSUME RowExists(w), request' = [request EXCEPT ![r] = Restarted(@)],
             candidates' = candidates, claim' = [claim EXCEPT ![w] = NoClaim]
      PROVE  WorkIsRetained'
  <2>1. /\ Goes(request[r], Restarted(request[r]))
        /\ Restarted(request[r]).lease = NoToken
        /\ Restarted(request[r]).status = "PENDING"
    BY <1>3, <1>7, ResetRows
  <2>2. request'[r] = Restarted(request[r])
    BY <1>7 DEF TypeInv, TypeOK
  <2>3. Rests(r)
    BY <2>1, <2>2 DEF Rests
  <2>. QED BY <1>2, <1>3, <1>5, <1>7, <2>1, <2>3, KeptRowRetains
<1>8. ASSUME NEW s \in Statuses, RowExists(w),
             request' = [request EXCEPT ![r].status = s, ![r].lease = NoToken],
             candidates' = candidates, claim' = [claim EXCEPT ![w] = NoClaim],
             s = "PENDING" \/ Needed(r)' = {}
      PROVE  WorkIsRetained'
  <2>. DEFINE left == [[request[r] EXCEPT !.status = s] EXCEPT !.lease = NoToken]
  <2>1. Goes(request[r], left) /\ left.lease = NoToken /\ left.status = s
    BY <1>3, <1>8, ResetRows
  <2>2. request' = [request EXCEPT ![r] = left] /\ request'[r] = left
    BY <1>3, <1>8 DEF TypeInv, TypeOK
  <2>. HIDE DEF left
  <2>3. Rests(r)
    BY <1>8, <2>1, <2>2 DEF Rests
  <2>. QED BY <1>2, <1>3, <1>5, <1>8, <2>1, <2>2, <2>3, KeptRowRetains
<1>9. found[w] = "current" /\ RowExists(w) /\ Discharge(w) => Needed(r)' = {}
  BY <1>1, <1>2, <1>3, DischargedIsDone
<1>10. CASE WriteCompletion(w)
  <2>1. CASE /\ found[w] = "lost" /\ UNCHANGED <<request, candidates>>
             /\ claim' = [claim EXCEPT ![w] = NoClaim]
    BY <1>6, <2>1
  <2>2. CASE /\ RowExists(w) /\ request' = [request EXCEPT ![r] = Restarted(@)]
             /\ claim' = [claim EXCEPT ![w] = NoClaim] /\ UNCHANGED candidates
    BY <1>7, <2>2
  <2>3. CASE /\ found[w] = "current" /\ RowExists(w) /\ Discharge(w)
             /\ request' = [request EXCEPT ![r].status = "WARNING", ![r].lease = NoToken]
             /\ claim' = [claim EXCEPT ![w] = NoClaim] /\ UNCHANGED candidates
    BY <1>8, <1>9, <2>3 DEF Statuses
  <2>4. CASE /\ found[w] = "current" /\ RowExists(w) /\ Discharge(w) /\ Delete({r})
             /\ claim' = [v \in Workers |-> IF v = w THEN NoClaim
                                            ELSE Orphaned(claim[v], {r})]
    BY <1>2, <1>3, <1>5, <1>9, <2>4, DeletedRowRetains
  <2>. QED BY <1>2, <1>10, <2>1, <2>2, <2>3, <2>4 DEF WriteCompletion
<1>11. CASE WriteFailure(w)
  <2>1. candidates' = candidates /\ claim' = [claim EXCEPT ![w] = NoClaim]
    BY <1>11 DEF WriteFailure
  <2>2. CASE found[w] = "lost"
    <3>1. request' = request
      BY <1>11, <2>2 DEF WriteFailure
    <3>. QED BY <1>6, <2>1, <3>1
  <2>3. CASE found[w] = "superseded"
    <3>1. RowExists(w) /\ request' = [request EXCEPT ![r] = Restarted(@)]
      BY <1>2, <1>11, <2>3 DEF WriteFailure
    <3>. QED BY <1>7, <2>1, <3>1
  <2>4. CASE found[w] = "current" /\ Retries(w)
    <3>1. /\ RowExists(w)
          /\ request' = [request EXCEPT ![r].status = "PENDING", ![r].lease = NoToken]
      BY <1>2, <1>11, <2>4 DEF WriteFailure
    <3>. QED BY <1>8, <2>1, <3>1 DEF Statuses
  <2>5. CASE found[w] = "current" /\ ~Retries(w)
    <3>1. /\ RowExists(w) /\ Discharge(w)
          /\ request' = [request EXCEPT ![r].status = "FAILED", ![r].lease = NoToken]
      BY <1>2, <1>11, <2>5 DEF WriteFailure
    <3>. QED BY <1>8, <1>9, <2>1, <2>5, <3>1 DEF Statuses
  <2>. QED BY <2>2, <2>3, <2>4, <2>5 DEF TypeInv, TypeOK
<1>. QED BY <1>10, <1>11

\* A run that finds its row gone, or dies, leaves the row to others.
LEMMA LossRetains ==
  ASSUME TypeInv, WorkIsRetained, NEW w \in Workers, RejectMissing(w) \/ AbortRun(w)
  PROVE  WorkIsRetained'
<1>1. Claiming(w) /\ claim[w] \in Claim
  BY WritingClaim DEF RejectMissing, AbortRun, Claiming, TypeInv, TypeOK
<1>2. PICK r \in Repositories : r = claim[w].repository
  BY <1>1 DEF Claim
<1>3. ASSUME Forget(w, "idle"), claim' = [claim EXCEPT ![w] = NoClaim],
             covers' = [covers EXCEPT ![w] = {}],
             UNCHANGED <<switches, request, candidates, owed, exposed>>
      PROVE  WorkIsRetained'
  <2>1. Leaves(w, {})
    BY <1>3, LeavesBy DEF Undischarged
  <2>2. request' = [request EXCEPT ![r] = request[r]] /\ Rests(r)
    BY <1>3 DEF Rests, TypeInv, TypeOK
  <2>. QED BY <1>1, <1>2, <1>3, <2>1, <2>2, KeptRowRetains
<1>4. ASSUME pc[w] = "writing", ~RowExists(w), pc' = [pc EXCEPT ![w] = "settling"],
             found' = [found EXCEPT ![w] = "lost"],
             UNCHANGED <<switches, request, candidates, claim, history>>
      PROVE  WorkIsRetained'
  <2>1. ~claim[w].live
    BY <1>1, <1>4 DEF RowExists, Queued, WorkIsRetained, Readers, ReadFrom
  <2>2. Readers'
    BY <1>4 DEF WorkIsRetained, Readers, Claiming
  <2>3. ASSUME NEW v \in Workers, Settles(v)'
        PROVE  Settles(v) /\ claim'[v] = claim[v]
    <3>1. v # w
      BY <1>4, <2>1, <2>3 DEF Settles
    <3>2. pc'[v] = pc[v] /\ found'[v] = found[v]
      BY <1>4, <3>1 DEF TypeInv, TypeOK
    <3>. QED BY <1>4, <2>3, <3>2 DEF Settles, Running, Current
  <2>. QED BY <1>4, <2>2, <2>3, QuietFrame
<1>. QED BY <1>3, <1>4 DEF RejectMissing, AbortRun, rows, history

\* Deadlines pass.
LEMMA ElapseRetains ==
  ASSUME TypeInv, WorkIsRetained,
         UNCHANGED <<switches, request, pc, candidates, claim, found, history>>
  PROVE  WorkIsRetained'
<1>1. Readers'
  BY DEF WorkIsRetained, Readers, Claiming
<1>2. \A w \in Workers : Settles(w)' => Settles(w) /\ claim'[w] = claim[w]
  BY DEF Settles, Running, Current
<1>. QED BY <1>1, <1>2, QuietFrame

\* What is switched is owed nothing.
LEMMA SwitchRetains ==
  ASSUME TypeInv, WorkIsRetained, Switch
  PROVE  WorkIsRetained'
<1>1. UNCHANGED <<request, pc, candidates, claim, found, covers>>
  BY DEF Switch, SwitchRepository, SwitchAccount, Forgive, rows, local
<1>2. PICK R : /\ Forgive(R)
               /\ \A r \in Repositories \ R : Enabled(r)' <=> Enabled(r)
  <2>1. ASSUME NEW r \in Repositories, SwitchRepository(r)
        PROVE  Forgive({r}) /\ \A q \in Repositories \ {r} : Enabled(q)' <=> Enabled(q)
    BY <2>1 DEF SwitchRepository, Enabled, TypeInv, TypeOK
  <2>2. ASSUME NEW a \in Accounts, SwitchAccount(a)
        PROVE  LET R == {r \in Repositories : AccountOf[r] = a} IN
               Forgive(R) /\ \A q \in Repositories \ R : Enabled(q)' <=> Enabled(q)
    BY <2>2 DEF SwitchAccount, Enabled, TypeInv, TypeOK
  <2>. QED BY <2>1, <2>2 DEF Switch
<1>3. ASSUME NEW r \in Repositories
      PROVE  Fades(r) /\ Rests(r) /\ (Enabled(r)' \/ owed'[r] = {})
  <2>1. CASE r \in R
    <3>1. owed'[r] = {} /\ exposed'[r] = {}
      BY <1>2, <2>1 DEF Forgive
    <3>2. /\ owed'[r] = owed[r] \ (owed[r] \cup exposed[r])
          /\ exposed'[r] = exposed[r] \ (owed[r] \cup exposed[r])
      BY <3>1
    <3>. QED BY <1>1, <3>1, <3>2 DEF Fades, Rests
  <2>2. CASE r \notin R
    <3>1. owed'[r] = owed[r] /\ exposed'[r] = exposed[r]
      BY <1>2, <2>2 DEF Forgive
    <3>2. owed'[r] = owed[r] \ {} /\ exposed'[r] = exposed[r] \ {}
      BY <3>1
    <3>. QED BY <1>1, <1>2, <2>2, <3>1, <3>2 DEF Fades, Rests, WorkIsRetained, Forgiven
  <2>. QED BY <2>1, <2>2
<1>4. Readers' /\ Forgiven'
  BY <1>1, <1>3 DEF WorkIsRetained, Readers, Claiming, Forgiven
<1>5. \A w \in Workers : Sticks(w)
  BY <1>1 DEF Sticks, Settles, Running, Current
<1>. QED BY <1>3, <1>4, <1>5, FadingFrame, SettlesClaim

LEMMA RetainingStep == TypeInv /\ WorkIsRetained /\ [Next]_vars => WorkIsRetained'
<1>. SUFFICES ASSUME TypeInv, WorkIsRetained, [Next]_vars
              PROVE  WorkIsRetained'
  OBVIOUS
<1>1. CASE UNCHANGED <<switches, request, pc, candidates, claim, found, history>>
  BY <1>1, ElapseRetains
<1>2. CASE Produce
  BY <1>1, <1>2, ProducersAsk, AskingRetains
<1>3. ASSUME NEW w \in Workers, Work(w)
      PROVE  WorkIsRetained'
  BY <1>3, PurgeRetains, ClaimRetains, BeginRetains, QuietRetains, SettlementRetains,
     LossRetains DEF Work, Claims
<1>4. CASE Fault
  BY <1>4, QuietRetains, LossRetains DEF Fault
<1>5. CASE Switch
  BY <1>5, SwitchRetains
<1>6. CASE \E d \in Deadlines : Elapse(d)
  BY <1>1, <1>6 DEF Elapse, rows, local
<1>7. CASE UNCHANGED vars
  BY <1>1, <1>7 DEF vars, rows, local
<1>. QED BY <1>2, <1>3, <1>4, <1>5, <1>6, <1>7 DEF Next

\* Whatever is merged into a claimed row, retried, taken over, purged or lost, the
\* scopes asked of an enabled repository stay in a row that waits or runs until a
\* synchronization has covered them; excepted is what is asked inside a settlement.
THEOREM RetainsRequestedWorkHolds == Spec => []RetainsRequestedWork
<1>1. Init => TypeInv /\ WorkIsRetained
  <2>1. Init => WorkIsRetained
    BY DEF Init, WorkIsRetained, Retained, Needed, Forgiven, Readers, Claiming, Settles,
           Running
  <2>. QED BY <2>1, TypeInit
<1>2. TypeInv /\ WorkIsRetained /\ [Next]_vars => (TypeInv /\ WorkIsRetained)'
  BY TypeStep, RetainingStep
<1>3. WorkIsRetained => RetainsRequestedWork
  BY Retaining
<1>. QED BY <1>1, <1>2, <1>3, PTL DEF Spec

-----------------------------------------------------------------------------
(* The refinements. *)

Holders == [a \in Accounts |-> HoldersOf(a)]
Limited == Accounts \ elapsed

\* What is known of every state: the types, who owns which lease, and that what a
\* worker has seen pass has passed.
QueueInvariant == TypeInv /\ LeaseInvariant /\ SeenIsPast

LEMMA QueueInit == Init => QueueInvariant
BY TypeInit DEF Init, LeaseInvariant, Holding, Claiming, SeenIsPast, QueueInvariant

LEMMA QueueStep == QueueInvariant /\ [Next]_vars => QueueInvariant'
BY TypeStep, LeaseStep, SeenStep DEF QueueInvariant

LEMMA HolderClaims ==
  ASSUME TypeInv, NEW v \in Workers, Holding(v)
  PROVE  /\ claim[v] \in Claim /\ claim[v].token \in Tokens
         /\ claim[v].repository \in Repositories
         /\ AccountOf[claim[v].repository] \in Accounts
BY DEF TypeInv, TypeOK, Holding, Claiming, Claim

-----------------------------------------------------------------------------
(* Steps of the lock. *)

LockStep == [Lock!Next]_<<Holders, Limited>>

\* Worker v holds after the step what it held before.
Keeps(v) ==
  /\ Holding(v)' <=> Holding(v)
  /\ Holding(v) => claim'[v].repository = claim[v].repository

LEMMA KeepingAll ==
  ASSUME \A v \in Workers : Keeps(v)
  PROVE  Holders' = Holders
BY DEF Keeps, Holders, HoldersOf

\* Nobody's lease changes hands: a limit may be lifted, or come where nobody works.
LEMMA NobodyMoves ==
  ASSUME \A v \in Workers : Keeps(v), NEW a \in Accounts,
         \/ Limited' = Limited
         \/ Limited' = Limited \ {a}
         \/ Limited' = Limited \cup {a} /\ HoldersOf(a) = {}
  PROVE  LockStep
<1>1. Holders' = Holders
  BY KeepingAll
<1>2. CASE Limited' = Limited
  BY <1>1, <1>2 DEF LockStep
<1>3. CASE Limited' = Limited \ {a}
  <2>1. Lock!Lift(a)
    BY <1>1, <1>3 DEF Lock!Lift, Holders, Limited
  <2>. QED BY <2>1 DEF Lock!Next, LockStep
<1>4. CASE Limited' = Limited \cup {a} /\ HoldersOf(a) = {}
  <2>1. Lock!Limit(a)
    BY <1>1, <1>4 DEF Lock!Limit, Holders, Limited
  <2>. QED BY <2>1 DEF Lock!Next, LockStep
<1>. QED BY <1>2, <1>3, <1>4

\* Worker w gives its lease back or loses it.
LEMMA OneReleases ==
  ASSUME NEW w \in Workers, NEW a \in Accounts,
         Holding(w), a = AccountOf[claim[w].repository], ~Holding(w)',
         \A v \in Workers \ {w} : Keeps(v),
         \/ Limited' = Limited
         \/ Limited' = Limited \ {a}
         \/ Limited' = Limited \cup {a}
  PROVE  LockStep
<1>1. w \in Holders[a]
  BY DEF Holders, HoldersOf
<1>2. Holders' = [Holders EXCEPT ![a] = @ \ {w}]
  <2>1. ASSUME NEW b \in Accounts
        PROVE  HoldersOf(b)' = IF b = a THEN HoldersOf(b) \ {w} ELSE HoldersOf(b)
    BY DEF HoldersOf, Keeps
  <2>. QED BY <2>1 DEF Holders
<1>3. Lock!Release(a, w)
  BY <1>1, <1>2 DEF Lock!Release, Holders, Limited
<1>. QED BY <1>3 DEF Lock!Next, LockStep

\* Worker w gets the account that nobody holds and no limit bars.
LEMMA OneAcquires ==
  ASSUME NEW w \in Workers, NEW a \in Accounts,
         HoldersOf(a) = {}, a \notin Limited, Limited' = Limited,
         ~Holding(w), Holding(w)', a = AccountOf[claim'[w].repository],
         \A v \in Workers \ {w} : Keeps(v)
  PROVE  LockStep
<1>1. Holders' = [Holders EXCEPT ![a] = {w}]
  <2>1. ASSUME NEW b \in Accounts
        PROVE  HoldersOf(b)' = IF b = a THEN {w} ELSE HoldersOf(b)
    BY DEF HoldersOf, Keeps
  <2>. QED BY <2>1 DEF Holders
<1>2. Lock!Acquire(a, w)
  BY <1>1 DEF Lock!Acquire, Holders, Limited
<1>. QED BY <1>2 DEF Lock!Next, LockStep

-----------------------------------------------------------------------------
(* Steps of the queue. *)

\* A step that leaves v's claim, and whether its lease has run out.
LEMMA ClaimKept ==
  ASSUME NEW v \in Workers,
         claim'[v] = NoClaim <=> claim[v] = NoClaim,
         claim'[v].token = claim[v].token,
         claim[v] # NoClaim => claim'[v].repository = claim[v].repository,
         claim[v] # NoClaim =>
           (claim[v].token \in elapsed' <=> claim[v].token \in elapsed)
  PROVE  Keeps(v)
BY DEF Keeps, Holding, Claiming

LEMMA ClaimsKept ==
  ASSUME TypeInv, claim' = claim, elapsed' \cap Tokens = elapsed \cap Tokens
  PROVE  \A v \in Workers : Keeps(v)
<1>1. \A v \in Workers : claim[v] # NoClaim => claim[v].token \in Tokens
  BY DEF TypeInv, TypeOK, Claim
<1>. QED BY <1>1, ClaimKept

LEMMA ProduceLock ==
  ASSUME TypeInv, Produce
  PROVE  LockStep
<1>1. ASSUME NEW r \in Repositories, NEW late, Arm({r}, late)
      PROVE  elapsed' \cap Tokens = elapsed \cap Tokens /\ Limited' = Limited
  BY <1>1 DEF Arm, Limited
<1>2. claim' = claim
  BY DEF Produce, StartReconciliation, ReconcileRepository, EnqueueWebhook, Enqueue,
         ReadAvailability, StartAvailable, RefuseStart, local
<1>3. elapsed' \cap Tokens = elapsed \cap Tokens /\ Limited' = Limited
  <2>1. CASE elapsed' = elapsed
    BY <2>1 DEF Limited
  <2>2. CASE \E r \in Repositories : \E late : Arm({r}, late)
    BY <1>1, <2>2
  <2>. QED BY <2>1, <2>2 DEF Produce, StartReconciliation, ReconcileRepository,
         EnqueueWebhook, Enqueue, ReadAvailability, StartAvailable, RefuseStart
<1>4. Holders' = Holders
  BY <1>2, <1>3, ClaimsKept, KeepingAll
<1>. QED BY <1>3, <1>4 DEF LockStep

LEMMA OrphanedKept ==
  ASSUME TypeInv, NEW v \in Workers, NEW R, claim'[v] = Orphaned(claim[v], R),
         claim[v] # NoClaim =>
           (claim[v].token \in elapsed' <=> claim[v].token \in elapsed)
  PROVE  Keeps(v)
<1>1. claim[v] \in Claim \cup {NoClaim}
  BY DEF TypeInv, TypeOK
<1>. QED BY <1>1, OrphanedClaim, ClaimKept

\* Steps that change no claim but by deleting its row, and no deadline.
LEMMA QuietLock ==
  ASSUME TypeInv, NEW w \in Workers,
         \/ StartProcessing(w) \/ ReadCandidates(w) \/ BeginSync(w)
         \/ \E c : SkipCandidate(w, c)
         \/ \E v \in Verdicts : EndSync(w, v)
         \/ ReadCurrent(w) \/ RejectCompletion(w)
         \/ RejectMissing(w) /\ claim' = claim
  PROVE  LockStep
<1>1. elapsed' = elapsed
  BY DEF StartProcessing, ReadCandidates, BeginSync, SkipCandidate, EndSync, ReadCurrent,
         RejectCompletion, RejectMissing
<1>2. claim' = claim \/ \E R : claim' = [v \in Workers |-> Orphaned(claim[v], R)]
  BY DEF StartProcessing, ReadCandidates, BeginSync, SkipCandidate, EndSync, ReadCurrent,
         RejectCompletion, RejectMissing
<1>3. \A v \in Workers : Keeps(v)
  <2>1. CASE claim' = claim
    BY <1>1, <2>1, ClaimsKept
  <2>2. CASE \E R : claim' = [v \in Workers |-> Orphaned(claim[v], R)]
    BY <1>1, <2>2, OrphanedKept
  <2>. QED BY <1>2, <2>1, <2>2
<1>4. Holders' = Holders
  BY <1>3, KeepingAll
<1>. QED BY <1>1, <1>4 DEF LockStep, Limited

LEMMA ClaimLock ==
  ASSUME QueueInvariant, NEW w \in Workers, NEW c \in candidates[w], NEW t \in Tokens,
         ClaimCandidate(w, c, t)
  PROVE  LockStep
<1>. DEFINE a == AccountOf[c.repository]
<1>1. c.repository \in Repositories /\ a \in Accounts
  BY DEF QueueInvariant, TypeInv, TypeOK, Candidate
<1>2. Available(a, seen[w]) /\ seen[w] \subseteq elapsed
  BY DEF ClaimCandidate, Acquirable, QueueInvariant, SeenIsPast
<1>3. /\ claim'[w] # NoClaim /\ claim'[w].token = t
      /\ claim'[w].repository = c.repository
      /\ \A v \in Workers \ {w} : claim'[v] = claim[v]
      /\ elapsed' = elapsed \ {t}
  BY DEF QueueInvariant, TypeInv, TypeOK, ClaimCandidate, NoClaim
<1>4. \A v \in Workers : claim[v].token # t
  BY DEF ClaimCandidate, TokensInUse
<1>5. ~Holding(w)
  BY DEF QueueInvariant, TypeInv, ClaimPhase, ClaimedPhases, Holding, ClaimCandidate
<1>6. HoldersOf(a) = {}
  BY <1>1, <1>2, SeenLeaseIsLost DEF HoldersOf, QueueInvariant
<1>7. a \notin Limited /\ Limited' = Limited
  BY <1>1, <1>2, <1>3 DEF Available, Limited
<1>8. Holding(w)' /\ a = AccountOf[claim'[w].repository]
  BY <1>3 DEF Holding, Claiming
<1>9. \A v \in Workers \ {w} : Keeps(v)
  BY <1>3, <1>4, ClaimKept
<1>. HIDE DEF a
<1>. QED BY <1>1, <1>5, <1>6, <1>7, <1>8, <1>9, OneAcquires

\* A worker settles, dies, or outlives its lease; only the limit of its own account
\* changes, and only if it still owns the account's lease.
LEMMA LeavingLock ==
  ASSUME QueueInvariant, NEW w \in Workers, Claiming(w), ~Holding(w)',
         \A v \in Workers \ {w} : Keeps(v),
         NEW a \in Accounts, a = AccountOf[claim[w].repository],
         \/ Limited' = Limited
         \/ Limited' = Limited \ {a}
         \/ Limited' = Limited \cup {a} /\ OwnsAccount(w)
  PROVE  LockStep
<1>1. CASE Holding(w)
  BY <1>1, OneReleases
<1>2. CASE ~Holding(w)
  <2>1. \A v \in Workers : Keeps(v)
    BY <1>2 DEF Keeps
  <2>2. OwnsAccount(w) => HoldersOf(a) = {}
    <3>1. ASSUME OwnsAccount(w), NEW v \in Workers, Holding(v),
                 AccountOf[claim[v].repository] = a
          PROVE  FALSE
      <4>1. claim[v].token = claim[w].token
        BY <3>1 DEF OwnsAccount, QueueInvariant, LeaseInvariant
      <4>2. v = w
        BY <3>1, <4>1 DEF QueueInvariant, LeaseInvariant, Holding
      <4>. QED BY <1>2, <3>1, <4>2
    <3>. QED BY <3>1 DEF HoldersOf
  <2>. QED BY <2>1, <2>2, NobodyMoves
<1>. QED BY <1>1, <1>2

LEMMA SettleLock ==
  ASSUME QueueInvariant, NEW w \in Workers, WriteCompletion(w) \/ WriteFailure(w)
  PROVE  LockStep
<1>. DEFINE r == claim[w].repository
            a == AccountOf[r]
<1>1. Claiming(w) /\ claim[w] \in Claim
  BY DEF QueueInvariant, TypeInv, TypeOK, ClaimPhase, Claiming, ClaimedPhases,
         WriteCompletion, WriteFailure
<1>2. r \in Repositories /\ a \in Accounts
  BY <1>1 DEF Claim
<1>3. claim' = [claim EXCEPT ![w] = NoClaim]
      \/ claim' = [v \in Workers |-> IF v = w THEN NoClaim ELSE Orphaned(claim[v], {r})]
  BY DEF WriteCompletion, WriteFailure
<1>4. \/ elapsed' = elapsed
      \/ elapsed' = elapsed \cup {a}
      \/ elapsed' = (elapsed \ {r}) \cup {a} \/ elapsed' = elapsed \ {r}
      \/ (elapsed' = elapsed \ {a} \/ elapsed' = elapsed \ {r, a}) /\ OwnsAccount(w)
  <2>1. CASE WriteCompletion(w)
    BY <2>1 DEF WriteCompletion, Clear
  <2>2. CASE WriteFailure(w)
    <3>. DEFINE kept  == found[w] = "current" /\ Retries(w)
                limit == verdict[w] = "rateLimited" /\ OwnsAccount(w)
    <3>1. elapsed' = (elapsed \ ((IF kept THEN {r} ELSE {})
                                    \cup (IF limit THEN {a} ELSE {})))
                       \cup (IF OwnsAccount(w) /\ ~limit THEN {a} ELSE {})
      BY <2>2 DEF WriteFailure
    <3>2. limit => OwnsAccount(w)
      OBVIOUS
    <3>. HIDE DEF kept, limit, a, r
    <3>. QED BY <3>1, <3>2
  <2>. QED BY <2>1, <2>2
<1>5. /\ elapsed' \cap Tokens = elapsed \cap Tokens
      /\ \/ Limited' = Limited
         \/ Limited' = Limited \ {a}
         \/ Limited' = Limited \cup {a} /\ OwnsAccount(w)
  BY <1>2, <1>4 DEF Limited
<1>6. ~Holding(w)'
  BY <1>3 DEF QueueInvariant, TypeInv, TypeOK, Holding, Claiming
<1>7. \A v \in Workers \ {w} : Keeps(v)
  <2>1. \A v \in Workers : claim[v] # NoClaim =>
          (claim[v].token \in elapsed' <=> claim[v].token \in elapsed)
    BY <1>5 DEF QueueInvariant, TypeInv, TypeOK, Claim
  <2>2. CASE claim' = [claim EXCEPT ![w] = NoClaim]
    BY <2>1, <2>2, ClaimKept DEF QueueInvariant, TypeInv, TypeOK
  <2>3. CASE claim' = [v \in Workers |-> IF v = w THEN NoClaim
                                         ELSE Orphaned(claim[v], {r})]
    BY <2>1, <2>3, OrphanedKept DEF QueueInvariant
  <2>. QED BY <1>3, <2>2, <2>3
<1>. QED BY <1>1, <1>2, <1>5, <1>6, <1>7, LeavingLock

LEMMA FaultLock ==
  ASSUME QueueInvariant, NEW w \in Workers,
         AbortRun(w) \/ OverrunLease(w) \/ (RejectMissing(w) /\ claim' # claim)
  PROVE  LockStep
<1>1. Claiming(w) /\ claim[w] \in Claim
  BY DEF QueueInvariant, TypeInv, TypeOK, ClaimPhase, Claiming, ClaimedPhases,
         AbortRun, OverrunLease, Holding, RejectMissing
<1>2. PICK a \in Accounts : a = AccountOf[claim[w].repository]
  BY <1>1 DEF Claim
<1>3. CASE OverrunLease(w)
  <2>1. claim' = claim /\ elapsed' = elapsed \cup {claim[w].token}
    BY <1>3 DEF OverrunLease, local
  <2>2. claim[w].token \in Tokens /\ ~Holding(w)'
    BY <1>1, <2>1 DEF Claim, Holding
  <2>3. ASSUME NEW v \in Workers \ {w}
        PROVE  Keeps(v)
    <3>1. claim[v] # NoClaim => claim[v].token # claim[w].token
      BY <1>1 DEF QueueInvariant, LeaseInvariant, Claiming
    <3>. QED BY <2>1, <3>1, ClaimKept
  <2>4. Limited' = Limited
    BY <2>1, <2>2 DEF Limited
  <2>. QED BY <1>1, <1>2, <2>2, <2>3, <2>4, LeavingLock
<1>4. CASE AbortRun(w) \/ (RejectMissing(w) /\ claim' # claim)
  <2>1. claim' = [claim EXCEPT ![w] = NoClaim] /\ elapsed' = elapsed
    BY <1>4 DEF AbortRun, RejectMissing
  <2>2. ~Holding(w)' /\ \A v \in Workers \ {w} : claim'[v] = claim[v]
    BY <2>1 DEF QueueInvariant, TypeInv, TypeOK, Holding, Claiming
  <2>3. \A v \in Workers \ {w} : Keeps(v)
    BY <2>1, <2>2, ClaimKept
  <2>4. Limited' = Limited
    BY <2>1 DEF Limited
  <2>. QED BY <1>1, <1>2, <2>2, <2>3, <2>4, LeavingLock
<1>. QED BY <1>3, <1>4

LEMMA EnvironmentLock ==
  ASSUME TypeInv, Switch \/ (\E d \in Deadlines : Elapse(d)) \/ UNCHANGED vars
  PROVE  LockStep
<1>1. CASE UNCHANGED <<claim, elapsed>>
  <2>1. Holders' = Holders
    BY <1>1, ClaimsKept, KeepingAll
  <2>. QED BY <1>1, <2>1 DEF LockStep, Limited
<1>2. ASSUME NEW d \in Deadlines, Elapse(d)
      PROVE  LockStep
  <2>1. /\ claim' = claim /\ elapsed' = elapsed \cup {d}
        /\ \A v \in Workers : claim[v].token # d
    BY <1>2 DEF Elapse, local
  <2>2. \A v \in Workers : Keeps(v)
    BY <2>1, ClaimKept
  <2>3. CASE d \in Accounts
    BY <2>1, <2>2, <2>3, NobodyMoves DEF Limited
  <2>4. CASE d \notin Accounts
    <3>1. Limited' = Limited /\ Holders' = Holders
      BY <2>1, <2>2, <2>4, KeepingAll DEF Limited
    <3>. QED BY <3>1 DEF LockStep
  <2>. QED BY <2>3, <2>4
<1>. QED BY <1>1, <1>2 DEF Switch, SwitchRepository, SwitchAccount, vars, local

LEMMA NextLock == QueueInvariant /\ [Next]_vars => LockStep
<1> SUFFICES ASSUME QueueInvariant, [Next]_vars PROVE LockStep
  OBVIOUS
<1>. TypeInv
  BY DEF QueueInvariant
<1>1. CASE Produce
  BY <1>1, ProduceLock
<1>2. ASSUME NEW w \in Workers, Work(w)
      PROVE  LockStep
  BY <1>2, QuietLock, ClaimLock, SettleLock, FaultLock DEF Work, Claims
<1>3. CASE Fault
  BY <1>3, QuietLock, FaultLock DEF Fault
<1>4. CASE Switch \/ (\E d \in Deadlines : Elapse(d)) \/ UNCHANGED vars
  BY <1>4, EnvironmentLock
<1>. QED BY <1>1, <1>2, <1>3, <1>4 DEF Next

\* For every instance the leases that claimNextRequest, the settlements, crashes and
\* takeovers write are a lock of each account: every step of the queue is one of the
\* lock, or changes nothing of it.
THEOREM ImplementsAccountLockHolds == Spec => ImplementsAccountLock
<1>1. Init => Lock!Init
  BY DEF Init, Lock!Init, HoldersOf, Holding, Claiming
<1>2. QueueInvariant /\ [Next]_vars =>
        [Lock!Next]_<<[a \in Accounts |-> HoldersOf(a)], Accounts \ elapsed>>
  BY NextLock DEF LockStep, Holders, Limited
<1>. QED BY <1>1, <1>2, QueueInit, QueueStep, PTL DEF Spec, ImplementsAccountLock, Lock!Spec

-----------------------------------------------------------------------------
(* Without faults, what a worker has claimed runs. *)

Runs(x, t) == x # NoRequest /\ x.status = "RUNNING" /\ x.lease = t

\* The inductive invariant: as long as no lease was outlived or abandoned, a claim
\* whose row was not deleted is the running row's.
ClaimsAreRunning ==
  faults = 0 =>
    \A v \in Workers : claim[v] # NoClaim =>
      /\ claim[v].token \notin elapsed
      /\ claim[v].live => Runs(request[claim[v].repository], claim[v].token)

\* A step that lets a worker keep at most the claim it has, and its row running.
LEMMA RunningFrame ==
  ASSUME TypeInv, ClaimsAreRunning, faults' = 0 => faults = 0,
         \A v \in Workers : claim'[v] # NoClaim =>
           /\ claim[v] # NoClaim
           /\ claim'[v].token = claim[v].token
           /\ claim'[v].repository = claim[v].repository
           /\ claim'[v].live => claim[v].live
           /\ claim[v].token \notin elapsed => claim[v].token \notin elapsed'
           /\ Runs(request[claim[v].repository], claim[v].token) /\ claim'[v].live =>
                Runs(request'[claim[v].repository], claim[v].token)
  PROVE  ClaimsAreRunning'
BY DEF ClaimsAreRunning

LEMMA MergeRuns ==
  ASSUME NEW x \in Request \cup {NoRequest}, NEW S \in SUBSET Scopes, NEW t, Runs(x, t)
  PROVE  Runs(Merge(x, S), t)
<1>1. x \in Request /\ Merge(x, S) \in Request
  BY RowTypes DEF Runs
<1>2. Merge(x, S) # NoRequest
  BY <1>1 DEF Request, NoRequest
<1>3. Merge(x, S).status = "RUNNING" /\ Merge(x, S).lease = t
  BY <1>1 DEF Merge, Request, Runs
<1>. QED BY <1>2, <1>3 DEF Runs

LEMMA ProduceRunning ==
  ASSUME TypeInv, ClaimsAreRunning, Produce
  PROVE  ClaimsAreRunning'
<1>1. claim' = claim /\ faults' = faults
  BY DEF Produce, StartReconciliation, ReconcileRepository, EnqueueWebhook, Enqueue,
         ReadAvailability, StartAvailable, RefuseStart, local
<1>2. \A v \in Workers : claim[v] # NoClaim =>
        claim[v].token \in Tokens /\ claim[v].repository \in Repositories
  BY DEF TypeInv, TypeOK, Claim
<1>3. elapsed' \cap Tokens = elapsed \cap Tokens
  <2>1. ASSUME NEW r \in Repositories, NEW late, Arm({r}, late)
        PROVE  elapsed' \cap Tokens = elapsed \cap Tokens
    BY <2>1 DEF Arm
  <2>. QED BY <2>1 DEF Produce, StartReconciliation, ReconcileRepository,
         EnqueueWebhook, Enqueue, ReadAvailability, StartAvailable, RefuseStart
<1>4. ASSUME NEW q \in Repositories, NEW t, Runs(request[q], t)
      PROVE  Runs(request'[q], t)
  <2>1. request \in [Repositories -> Request \cup {NoRequest}]
    BY DEF TypeInv, TypeOK
  <2>2. CASE request' = request
    BY <1>4, <2>2
  <2>3. ASSUME NEW r \in Repositories, NEW S \in SUBSET Scopes,
               request' = [request EXCEPT ![r] = Merge(@, S)]
        PROVE  Runs(request'[q], t)
    BY <1>4, <2>1, <2>3, MergeRuns
  <2>4. ASSUME NEW r \in Repositories, StartAvailable(r)
        PROVE  Runs(request'[q], t)
    BY <1>4, <2>1, <2>4 DEF StartAvailable, Runs, Queued
  <2>. QED BY <2>2, <2>3, <2>4 DEF Produce, StartReconciliation, ReconcileRepository,
         EnqueueWebhook, Enqueue, ReadAvailability, RefuseStart, rows
<1>. QED BY <1>1, <1>2, <1>3, <1>4, RunningFrame

LEMMA ClaimRunning ==
  ASSUME QueueInvariant, ClaimsAreRunning, NEW w \in Workers, NEW c \in candidates[w],
         NEW t \in Tokens, ClaimCandidate(w, c, t)
  PROVE  ClaimsAreRunning'
<1>. DEFINE r == c.repository
<1>1. r \in Repositories /\ request[r] \in Request /\ r = c.repository
  BY DEF QueueInvariant, TypeInv, TypeOK, Candidate, ClaimCandidate, Acquirable, Claimable
<1>2. /\ claim'[w] # NoClaim /\ claim'[w].token = t /\ claim'[w].repository = r
      /\ \A v \in Workers \ {w} : claim'[v] = claim[v]
      /\ elapsed' = elapsed \ {t} /\ faults' = faults
      /\ \A v \in Workers : claim[v].token # t
  BY DEF QueueInvariant, TypeInv, TypeOK, ClaimCandidate, NoClaim, TokensInUse
<1>3. /\ request'[r].status = "RUNNING" /\ request'[r].lease = t /\ request'[r] # NoRequest
      /\ \A q \in Repositories \ {r} : request'[q] = request[q]
  <2>. DEFINE row == [request[r] EXCEPT !.status = "RUNNING",
                                        !.attempt = request[r].attempt + 1,
                                        !.lease = t]
  <2>1. request' = [request EXCEPT ![r] = row]
    BY <1>1 DEF ClaimCandidate, QueueInvariant, TypeInv, TypeOK
  <2>. HIDE DEF r
  <2>4. request[r].attempt + 1 \in Nat
    BY <1>1 DEF Request
  <2>2. row.status = "RUNNING" /\ row.lease = t /\ row \in Request
    BY <1>1, <2>4 DEF Request, Statuses
  <2>3. row # NoRequest
    BY <2>2 DEF Request, NoRequest
  <2>. HIDE DEF row, r
  <2>. QED BY <1>1, <2>1, <2>2, <2>3 DEF QueueInvariant, TypeInv, TypeOK
<1>4. Claimable(request[r], r, elapsed)
  <2>1. seen[w] \subseteq elapsed
    BY DEF QueueInvariant, SeenIsPast, ClaimCandidate
  <2>. QED BY <2>1 DEF ClaimCandidate, Acquirable, Claimable
<1>5. ASSUME faults' = 0, NEW v \in Workers, v # w, claim'[v] # NoClaim
      PROVE  /\ claim'[v].token \notin elapsed'
             /\ claim'[v].live => Runs(request'[claim'[v].repository], claim'[v].token)
  <2>1. /\ claim[v].token \notin elapsed
        /\ claim[v].live => Runs(request[claim[v].repository], claim[v].token)
        /\ claim'[v] = claim[v] /\ claim[v].repository \in Repositories
    BY <1>2, <1>5 DEF ClaimsAreRunning, QueueInvariant, TypeInv, TypeOK, Claim
  <2>2. claim[v].live => claim[v].repository # r
    BY <1>4, <2>1 DEF Runs, Claimable
  <2>. HIDE DEF r
  <2>. QED BY <1>2, <1>3, <2>1, <2>2
<1>6. faults' = 0 => /\ claim'[w].token \notin elapsed'
                     /\ Runs(request'[claim'[w].repository], claim'[w].token)
  BY <1>2, <1>3 DEF Runs
<1>. HIDE DEF r
<1>. QED BY <1>5, <1>6 DEF ClaimsAreRunning

\* A worker that is to write the row it claimed is the only one who may.
LEMMA OneWriter ==
  ASSUME QueueInvariant, ClaimsAreRunning, faults = 0, NEW w \in Workers,
         claim[w] # NoClaim, claim[w].live,
         NEW v \in Workers, v # w, claim[v] # NoClaim, claim[v].live
  PROVE  claim[v].repository # claim[w].repository
BY DEF ClaimsAreRunning, Runs, QueueInvariant, LeaseInvariant, Claiming

LEMMA SettleRunning ==
  ASSUME QueueInvariant, ClaimsAreRunning, NEW w \in Workers,
         WriteCompletion(w) \/ WriteFailure(w)
  PROVE  ClaimsAreRunning'
<1>1. Claiming(w) /\ claim[w] \in Claim /\ faults' = faults
  BY DEF QueueInvariant, TypeInv, TypeOK, ClaimPhase, Claiming, ClaimedPhases,
         WriteCompletion, WriteFailure
<1>2. PICK r \in Repositories : r = claim[w].repository
  BY <1>1 DEF Claim
<1>3. claim' = [claim EXCEPT ![w] = NoClaim]
      \/ claim' = [v \in Workers |-> IF v = w THEN NoClaim ELSE Orphaned(claim[v], {r})]
  BY <1>2 DEF WriteCompletion, WriteFailure
<1>4. elapsed' \cap Tokens \subseteq elapsed \cap Tokens
  <2>1. AccountOf[r] \in Accounts
    BY <1>2
  <2>2. CASE WriteCompletion(w)
    BY <1>2, <2>1, <2>2 DEF WriteCompletion, Clear
  <2>3. CASE WriteFailure(w)
    BY <1>2, <2>1, <2>3 DEF WriteFailure
  <2>. QED BY <2>2, <2>3
<1>5. /\ \A q \in Repositories \ {r} : request'[q] = request[q]
      /\ request' = request \/ claim[w].live
  <2>1. CASE WriteCompletion(w)
    BY <1>2, <2>1 DEF WriteCompletion, Delete, RowExists, QueueInvariant, TypeInv, TypeOK
  <2>2. CASE WriteFailure(w)
    BY <1>2, <2>2 DEF WriteFailure, RowExists, QueueInvariant, TypeInv, TypeOK
  <2>. QED BY <2>1, <2>2
<1>6. ASSUME NEW v \in Workers, claim'[v] # NoClaim
      PROVE  /\ v # w /\ claim[v] # NoClaim
             /\ claim'[v].token = claim[v].token
             /\ claim'[v].repository = claim[v].repository
             /\ claim'[v].live => claim[v].live
             /\ claim[v].token \in Tokens /\ claim[v].repository \in Repositories
  <2>1. claim[v] \in Claim \cup {NoClaim} /\ claim \in [Workers -> Claim \cup {NoClaim}]
    BY DEF QueueInvariant, TypeInv, TypeOK
  <2>2. v # w
    BY <1>3, <1>6, <2>1
  <2>3. claim'[v] = claim[v] \/ claim'[v] = Orphaned(claim[v], {r})
    BY <1>3, <2>1, <2>2
  <2>4. claim[v] # NoClaim /\ claim[v] \in Claim
    BY <1>6, <2>1, <2>3, OrphanedClaim
  <2>5. claim'[v].live => claim[v].live
    BY <2>3, <2>4 DEF Orphaned, Claim
  <2>. QED BY <2>1, <2>2, <2>3, <2>4, <2>5, OrphanedClaim DEF Claim
<1>7. ASSUME faults = 0, NEW v \in Workers, claim'[v] # NoClaim, claim'[v].live
      PROVE  request'[claim[v].repository] = request[claim[v].repository]
  <2>1. v # w /\ claim[v] # NoClaim /\ claim[v].live
        /\ claim[v].repository \in Repositories
    BY <1>6, <1>7
  <2>2. claim[w].live => claim[v].repository # r
    BY <1>1, <1>2, <1>7, <2>1, OneWriter DEF Claiming
  <2>. QED BY <1>5, <2>1, <2>2
<1>. QED BY <1>1, <1>4, <1>6, <1>7 DEF ClaimsAreRunning

\* Steps that write no row but to delete it.
LEMMA QuietRunning ==
  ASSUME QueueInvariant, ClaimsAreRunning, NEW w \in Workers,
         \/ StartProcessing(w) \/ ReadCandidates(w) \/ BeginSync(w)
         \/ \E c : SkipCandidate(w, c)
         \/ \E v \in Verdicts : EndSync(w, v)
         \/ ReadCurrent(w) \/ RejectMissing(w)
  PROVE  ClaimsAreRunning'
<1>1. elapsed' = elapsed /\ faults' = faults
  BY DEF StartProcessing, ReadCandidates, BeginSync, SkipCandidate, EndSync, ReadCurrent,
         RejectMissing, rows
<1>2. CASE StartProcessing(w)
  <2>1. PICK R : /\ claim' = [v \in Workers |-> Orphaned(claim[v], R)]
                 /\ request' = [r \in Repositories |-> IF r \in R THEN NoRequest
                                                                  ELSE request[r]]
    BY <1>2 DEF StartProcessing, Delete
  <2>2. ASSUME NEW v \in Workers, claim'[v] # NoClaim
        PROVE  /\ claim[v] # NoClaim /\ claim'[v].token = claim[v].token
               /\ claim'[v].repository = claim[v].repository
               /\ claim'[v].live =>
                    claim[v].live /\ claim[v].repository \in Repositories \ R
    <3>1. claim[v] \in Claim \cup {NoClaim} /\ claim'[v] = Orphaned(claim[v], R)
      BY <2>1 DEF QueueInvariant, TypeInv, TypeOK
    <3>2. claim[v] # NoClaim /\ claim[v] \in Claim
      BY <2>2, <3>1, OrphanedClaim
    <3>3. claim'[v].live => claim[v].live /\ claim[v].repository \in Repositories \ R
      BY <3>1, <3>2 DEF Orphaned, Claim
    <3>. QED BY <3>1, <3>2, <3>3, OrphanedClaim
  <2>. QED BY <1>1, <2>1, <2>2 DEF ClaimsAreRunning
<1>3. CASE ~StartProcessing(w)
  <2>1. request' = request
    BY <1>3 DEF ReadCandidates, BeginSync, SkipCandidate, EndSync, ReadCurrent,
         RejectMissing, rows
  <2>2. claim' = claim \/ claim' = [claim EXCEPT ![w] = NoClaim]
    BY <1>3 DEF ReadCandidates, BeginSync, SkipCandidate, EndSync, ReadCurrent, RejectMissing
  <2>3. \A v \in Workers : claim'[v] # NoClaim => claim'[v] = claim[v]
    BY <2>2 DEF QueueInvariant, TypeInv, TypeOK
  <2>. QED BY <1>1, <2>1, <2>3 DEF ClaimsAreRunning
<1>. QED BY <1>2, <1>3

LEMMA EnvironmentRunning ==
  ASSUME QueueInvariant, ClaimsAreRunning,
         \/ Fault \/ Switch \/ (\E d \in Deadlines : Elapse(d)) \/ UNCHANGED vars
  PROVE  ClaimsAreRunning'
<1>1. CASE Fault
  <2>1. faults \in Nat /\ faults' = faults + 1
    BY <1>1 DEF Fault, RejectCompletion, AbortRun, OverrunLease, QueueInvariant, TypeInv,
                TypeOK
  <2>. QED BY <2>1 DEF ClaimsAreRunning
<1>2. ASSUME NEW d \in Deadlines, Elapse(d)
      PROVE  ClaimsAreRunning'
  <2>1. /\ request' = request /\ claim' = claim /\ faults' = faults
        /\ elapsed' = elapsed \cup {d}
        /\ \A v \in Workers : claim[v].token # d
    BY <1>2 DEF Elapse, local, rows
  <2>. QED BY <2>1 DEF ClaimsAreRunning
<1>3. CASE Switch \/ UNCHANGED vars
  <2>1. UNCHANGED <<request, claim, faults, elapsed>>
    BY <1>3 DEF Switch, SwitchRepository, SwitchAccount, vars, local, rows
  <2>. QED BY <2>1 DEF ClaimsAreRunning
<1>. QED BY <1>1, <1>2, <1>3

LEMMA RunningInit == Init => ClaimsAreRunning
BY DEF Init, ClaimsAreRunning

LEMMA RunningStep ==
  QueueInvariant /\ ClaimsAreRunning /\ [Next]_vars => ClaimsAreRunning'
<1> SUFFICES ASSUME QueueInvariant, ClaimsAreRunning, [Next]_vars
             PROVE  ClaimsAreRunning'
  OBVIOUS
<1>1. CASE Produce
  BY <1>1, ProduceRunning DEF QueueInvariant
<1>2. ASSUME NEW w \in Workers, Work(w)
      PROVE  ClaimsAreRunning'
  BY <1>2, QuietRunning, ClaimRunning, SettleRunning DEF Work, Claims
<1>3. CASE Fault \/ Switch \/ (\E d \in Deadlines : Elapse(d)) \/ UNCHANGED vars
  BY <1>3, EnvironmentRunning
<1>. QED BY <1>1, <1>2, <1>3 DEF Next

-----------------------------------------------------------------------------
(* Steps of the abstract rows. *)

Rows   == [r \in Repositories |-> View(request[r])]
Wanted == {r \in Repositories : Enabled(r)}
Faulty == faults > 0

RequestStep == [Requests!Next /\ (Faulty => Faulty')]_<<Rows, Wanted, Faulty>>

\* How each status looks from outside.
LEMMA ViewRow ==
  ASSUME NEW x \in Request
  PROVE  /\ x # NoRequest
         /\ x.status = "PENDING" => View(x) = [state |-> "waiting", scopes |-> x.scopes]
         /\ x.status = "RUNNING" => View(x) = [state |-> "running", scopes |-> x.scopes]
         /\ x.status \in {"FAILED", "WARNING"} =>
              View(x) = [state |-> "finished", scopes |-> x.scopes]
<1>1. x # NoRequest
  BY DEF Request, NoRequest
<1>. QED BY <1>1 DEF View

LEMMA ViewNone == View(NoRequest) = [state |-> "none", scopes |-> {}]
BY DEF View, NoRequest

LEMMA ViewType ==
  ASSUME NEW x \in Request \cup {NoRequest}
  PROVE  View(x) \in [state: {"none", "waiting", "running", "finished"},
                      scopes: SUBSET Scopes]
<1>1. CASE x \in Request
  <2>1. x.status \in {"PENDING", "RUNNING", "FAILED", "WARNING"} /\ x.scopes \in SUBSET Scopes
    BY <1>1 DEF Request, Statuses
  <2>. QED BY <1>1, <2>1, ViewRow
<1>. QED BY <1>1, ViewNone

\* Row x, asked for the scopes S.
Asked(x, S) ==
  [state  |-> IF View(x).state = "running" THEN "running" ELSE "waiting",
   scopes |-> View(x).scopes \cup S]

\* Whatever writes a request asks for its scopes on top of what the row holds.
LEMMA ViewAsked ==
  ASSUME NEW x \in Request \cup {NoRequest}, NEW S \in SUBSET Scopes
  PROVE  /\ View(Merge(x, S)) = Asked(x, S)
         /\ x = NoRequest => View(NewRequest(S)) = Asked(x, S)
         /\ x # NoRequest /\ x.status \in {"FAILED", "WARNING"} =>
              View(RestartedAnew(x)) = Asked(x, Scopes)
<1>1. View(NewRequest(S)) = [state |-> "waiting", scopes |-> S]
  <2>1. NewRequest(S).status = "PENDING" /\ NewRequest(S).scopes = S
    BY DEF NewRequest
  <2>. QED BY <2>1, RowTypes, ViewRow
<1>2. CASE x = NoRequest
  <2>1. Merge(x, S) = NewRequest(S)
    BY <1>2 DEF Merge
  <2>2. Asked(x, S) = [state |-> "waiting", scopes |-> S]
    BY <1>2, ViewNone DEF Asked
  <2>. QED BY <1>1, <1>2, <2>1, <2>2
<1>3. CASE x \in Request
  <2>1. x # NoRequest /\ x.scopes \in SUBSET Scopes
        /\ x.status \in {"PENDING", "RUNNING", "FAILED", "WARNING"}
    BY <1>3, ViewRow DEF Request, Statuses
  <2>2. /\ Merge(x, S).status = IF x.status = "RUNNING" THEN "RUNNING" ELSE "PENDING"
        /\ Merge(x, S).scopes = x.scopes \cup S
    BY <1>3, <2>1 DEF Merge, Request
  <2>3. View(Merge(x, S)) = Asked(x, S)
    <3>1. Merge(x, S) \in Request
      BY RowTypes
    <3>2. CASE x.status = "RUNNING"
      BY <1>3, <2>2, <3>1, <3>2, ViewRow DEF Asked
    <3>3. CASE x.status # "RUNNING"
      BY <1>3, <2>1, <2>2, <3>1, <3>3, ViewRow DEF Asked
    <3>. QED BY <3>2, <3>3
  <2>4. ASSUME x.status \in {"FAILED", "WARNING"}
        PROVE  View(RestartedAnew(x)) = Asked(x, Scopes)
    <3>1. RestartedAnew(x) \in Request
      BY <2>1, RowTypes
    <3>2. RestartedAnew(x).status = "PENDING" /\ RestartedAnew(x).scopes = Scopes
      BY <1>3 DEF RestartedAnew, Restarted, Request
    <3>3. View(RestartedAnew(x)) = [state |-> "waiting", scopes |-> Scopes]
      BY <3>1, <3>2, ViewRow
    <3>4. Asked(x, Scopes) = [state |-> "waiting", scopes |-> x.scopes \cup Scopes]
      BY <1>3, <2>4, ViewRow DEF Asked
    <3>. QED BY <2>1, <3>3, <3>4
  <2>. QED BY <2>1, <2>3, <2>4
<1>. QED BY <1>2, <1>3

\* A step that writes the row of r.
LEMMA RowMoves ==
  ASSUME TypeInv, NEW r \in Repositories, NEW x, request' = [request EXCEPT ![r] = x]
  PROVE  Rows' = [Rows EXCEPT ![r] = View(x)]
BY DEF TypeInv, TypeOK, Rows

LEMMA RowsStay ==
  ASSUME request' = request, Faulty => Faulty'
  PROVE  RequestStep
BY DEF RequestStep, Rows, Requests!Next

LEMMA AskStep ==
  ASSUME TypeInv, NEW r \in Repositories, NEW S \in SUBSET Scopes, S # {}, NEW x,
         request' = [request EXCEPT ![r] = x], View(x) = Asked(request[r], S),
         faults' = faults
  PROVE  RequestStep
<1>1. Rows' = [Rows EXCEPT ![r] = Asked(request[r], S)] /\ Rows[r] = View(request[r])
  BY RowMoves DEF Rows
<1>2. Requests!Ask(r, S)
  BY <1>1 DEF Requests!Ask, Rows, Asked
<1>. QED BY <1>2 DEF RequestStep, Requests!Next, Requests!Change, Faulty

LEMMA BeginStep ==
  ASSUME TypeInv, NEW r \in Repositories, request[r] \in Request,
         request[r].status \in {"PENDING", "RUNNING"}, NEW x \in Request,
         x.status = "RUNNING", x.scopes = request[r].scopes,
         request' = [request EXCEPT ![r] = x], faults' = faults
  PROVE  RequestStep
<1>1. Rows' = [Rows EXCEPT ![r] = View(x)] /\ Rows[r] = View(request[r])
  BY RowMoves DEF Rows
<1>2. /\ Rows[r].state \in {"waiting", "running"}
      /\ View(x) = [Rows[r] EXCEPT !.state = "running"]
  BY <1>1, ViewRow
<1>3. Requests!Begin(r)
  BY <1>1, <1>2 DEF Requests!Begin, Rows
<1>. QED BY <1>3 DEF RequestStep, Requests!Next, Requests!Change, Faulty

LEMMA FinishStep ==
  ASSUME TypeInv, NEW r \in Repositories, request[r] \in Request,
         faults = 0 => request[r].status = "RUNNING",
         NEW x \in Request \cup {NoRequest},
         x # NoRequest => /\ x.status \in {"PENDING", "FAILED", "WARNING"}
                          /\ x.scopes = request[r].scopes,
         request' = [request EXCEPT ![r] = x], faults' = faults
  PROVE  RequestStep
<1>1. Rows' = [Rows EXCEPT ![r] = View(x)] /\ Rows[r] = View(request[r])
  BY RowMoves DEF Rows
<1>2. request[r].status \in {"PENDING", "RUNNING", "FAILED", "WARNING"}
  BY DEF Request, Statuses
<1>3. Rows[r].state # "none" /\ (faults = 0 => Rows[r].state = "running")
  BY <1>1, <1>2, ViewRow
<1>4. Faulty \/ faults = 0
  BY DEF TypeInv, TypeOK, Faulty
<1>5. View(x) \in {[state |-> "none", scopes |-> {}],
                   [Rows[r] EXCEPT !.state = "finished"],
                   [Rows[r] EXCEPT !.state = "waiting"]}
  BY <1>1, <1>2, ViewRow, ViewNone
<1>6. Rows' \in {[Rows EXCEPT ![r] = [state |-> "none", scopes |-> {}]],
                 [Rows EXCEPT ![r].state = "finished"],
                 [Rows EXCEPT ![r].state = "waiting"]}
  BY <1>1, <1>5
<1>7. Requests!Finish(r)
  BY <1>3, <1>4, <1>6 DEF Requests!Finish, Requests!NoRow, Rows, Faulty
<1>. QED BY <1>7 DEF RequestStep, Requests!Next, Requests!Change, Faulty

LEMMA DropStep ==
  ASSUME NEW R \in SUBSET Repositories, R \cap Wanted = {}, faults' = faults,
         request' = [r \in Repositories |-> IF r \in R THEN NoRequest ELSE request[r]]
  PROVE  RequestStep
<1>1. Rows' = [r \in Repositories |->
                 IF r \in R THEN [state |-> "none", scopes |-> {}] ELSE Rows[r]]
  BY ViewNone DEF Rows
<1>2. Requests!Drop(R)
  BY <1>1 DEF Requests!Drop, Requests!NoRow, Rows, Wanted
<1>. QED BY <1>2 DEF RequestStep, Requests!Next, Faulty

-----------------------------------------------------------------------------
(* Steps of the queue. *)

LEMMA ProduceRequests ==
  ASSUME TypeInv, Produce
  PROVE  RequestStep
<1>1. faults' = faults
  BY DEF Produce, StartReconciliation, ReconcileRepository, EnqueueWebhook, Enqueue,
         ReadAvailability, StartAvailable, RefuseStart, local
<1>2. Scopes # {} /\ Scopes \in SUBSET Scopes
  OBVIOUS
<1>3. ASSUME NEW r \in Repositories, NEW S \in SUBSET Scopes, S # {}, Enqueue(r, S)
      PROVE  RequestStep
  <2>1. request[r] \in Request \cup {NoRequest}
    BY DEF TypeInv, TypeOK
  <2>2. request' = [request EXCEPT ![r] = Merge(request[r], S)]
    BY <1>3 DEF Enqueue
  <2>. QED BY <1>1, <1>3, <2>1, <2>2, ViewAsked, AskStep
<1>4. ASSUME NEW r \in Repositories, StartAvailable(r)
      PROVE  RequestStep
  <2>1. request[r] \in Request \cup {NoRequest}
    BY DEF TypeInv, TypeOK
  <2>2. CASE ~Queued(r) /\ request' = [request EXCEPT ![r] = NewRequest(Scopes)]
    BY <1>1, <1>2, <2>1, <2>2, ViewAsked, AskStep DEF Queued
  <2>3. CASE /\ Queued(r) /\ request[r].status \in {"FAILED", "WARNING"}
             /\ request' = [request EXCEPT ![r] = RestartedAnew(request[r])]
    BY <1>1, <1>2, <2>1, <2>3, ViewAsked, AskStep DEF Queued
  <2>. QED BY <1>4, <2>2, <2>3 DEF StartAvailable
<1>5. CASE request' = request
  BY <1>1, <1>5, RowsStay DEF Faulty
<1>6. ASSUME NEW r \in Repositories, ReconcileRepository(r)
      PROVE  RequestStep
  BY <1>2, <1>3, <1>6 DEF ReconcileRepository
<1>7. ASSUME NEW r \in Repositories, NEW S \in (SUBSET Scopes) \ {{}}, EnqueueWebhook(r, S)
      PROVE  RequestStep
  BY <1>3, <1>7 DEF EnqueueWebhook
<1>8. ASSUME StartReconciliation \/ \E r \in Repositories : ReadAvailability(r) \/ RefuseStart(r)
      PROVE  request' = request
  BY <1>8 DEF StartReconciliation, ReadAvailability, RefuseStart, rows
<1>. QED BY <1>4, <1>5, <1>6, <1>7, <1>8 DEF Produce

LEMMA ClaimRequests ==
  ASSUME QueueInvariant, NEW w \in Workers, NEW c \in candidates[w], NEW t \in Tokens,
         ClaimCandidate(w, c, t)
  PROVE  RequestStep
<1>1. PICK r \in Repositories : r = c.repository
  BY DEF QueueInvariant, TypeInv, TypeOK, Candidate
<1>2. /\ TypeInv /\ request[r] \in Request
      /\ request[r].status \in {"PENDING", "RUNNING"} /\ request[r].attempt + 1 \in Nat
  BY <1>1 DEF QueueInvariant, TypeInv, TypeOK, ClaimCandidate, Acquirable, Claimable, Request
<1>. DEFINE row == [request[r] EXCEPT !.status = "RUNNING",
                                      !.attempt = request[r].attempt + 1,
                                      !.lease = t]
<1>3. request' = [request EXCEPT ![r] = row] /\ faults' = faults
  BY <1>1, <1>2 DEF ClaimCandidate, TypeInv, TypeOK
<1>4. row \in Request /\ row.status = "RUNNING" /\ row.scopes = request[r].scopes
  BY <1>2 DEF Request, Statuses
<1>. HIDE DEF row
<1>. QED BY <1>2, <1>3, <1>4, BeginStep

LEMMA SettleRequests ==
  ASSUME QueueInvariant, ClaimsAreRunning, NEW w \in Workers,
         WriteCompletion(w) \/ WriteFailure(w)
  PROVE  RequestStep
<1>1. Claiming(w) /\ claim[w] \in Claim /\ TypeInv /\ faults' = faults
  BY DEF QueueInvariant, TypeInv, TypeOK, ClaimPhase, Claiming, ClaimedPhases,
         WriteCompletion, WriteFailure
<1>2. PICK r \in Repositories : r = claim[w].repository
  BY <1>1 DEF Claim
<1>3. ASSUME RowExists(w)
      PROVE  request[r] \in Request /\ (faults = 0 => request[r].status = "RUNNING")
  BY <1>1, <1>2, <1>3 DEF RowExists, Queued, Claiming, ClaimsAreRunning, Runs, TypeInv, TypeOK
<1>4. CASE request' = request
  BY <1>1, <1>4, RowsStay DEF Faulty
<1>5. CASE RowExists(w) /\ request' = [request EXCEPT ![r] = Restarted(request[r])]
  <2>1. /\ Restarted(request[r]) \in Request
        /\ Restarted(request[r]).status = "PENDING"
        /\ Restarted(request[r]).scopes = request[r].scopes
    BY <1>3, <1>5, RowTypes, ViewRow DEF Restarted, Request
  <2>. QED BY <1>1, <1>3, <1>5, <2>1, FinishStep
<1>6. ASSUME NEW status \in {"PENDING", "FAILED", "WARNING"}, RowExists(w),
             request' = [request EXCEPT ![r].status = status, ![r].lease = NoToken]
      PROVE  RequestStep
  <2>. DEFINE row == [request[r] EXCEPT !.status = status, !.lease = NoToken]
  <2>1. row \in Request /\ row.status = status /\ row.scopes = request[r].scopes
    BY <1>3, <1>6 DEF Request, Statuses
  <2>2. request' = [request EXCEPT ![r] = row]
    BY <1>3, <1>6 DEF TypeInv, TypeOK
  <2>. HIDE DEF row
  <2>. QED BY <1>1, <1>3, <1>6, <2>1, <2>2, FinishStep
<1>7. CASE RowExists(w) /\ Delete({r})
  <2>1. request' = [request EXCEPT ![r] = NoRequest]
    BY <1>1, <1>7 DEF Delete, TypeInv, TypeOK
  <2>. QED BY <1>1, <1>3, <1>7, <2>1, FinishStep
<1>8. CASE WriteCompletion(w)
  BY <1>2, <1>4, <1>5, <1>6, <1>7, <1>8 DEF WriteCompletion
<1>9. CASE WriteFailure(w)
  <2>1. CASE found[w] = "superseded"
    BY <1>2, <1>5, <1>9, <2>1 DEF WriteFailure
  <2>2. CASE found[w] = "current" /\ Retries(w)
    BY <1>2, <1>6, <1>9, <2>2 DEF WriteFailure
  <2>3. CASE found[w] = "current" /\ ~Retries(w)
    BY <1>2, <1>6, <1>9, <2>3 DEF WriteFailure
  <2>4. CASE found[w] = "lost"
    BY <1>4, <1>9, <2>4 DEF WriteFailure
  <2>. QED BY <1>1, <2>1, <2>2, <2>3, <2>4 DEF TypeInv, TypeOK
<1>. QED BY <1>8, <1>9

LEMMA QuietRequests ==
  ASSUME QueueInvariant, NEW w \in Workers,
         \/ StartProcessing(w) \/ ReadCandidates(w) \/ BeginSync(w)
         \/ \E c : SkipCandidate(w, c)
         \/ \E v \in Verdicts : EndSync(w, v)
         \/ ReadCurrent(w) \/ RejectMissing(w)
  PROVE  RequestStep
<1>1. CASE StartProcessing(w)
  <2>. DEFINE R == {r \in Repositories : ~Enabled(r)}
  <2>1. /\ faults' = faults
        /\ request' = [r \in Repositories |-> IF r \in R THEN NoRequest ELSE request[r]]
    BY <1>1 DEF StartProcessing, Delete
  <2>2. R \in SUBSET Repositories /\ R \cap Wanted = {}
    BY DEF Wanted
  <2>. HIDE DEF R
  <2>. QED BY <2>1, <2>2, DropStep
<1>2. CASE ~StartProcessing(w)
  <2>1. request' = request /\ faults' = faults
    BY <1>2 DEF ReadCandidates, BeginSync, SkipCandidate, EndSync, ReadCurrent,
         RejectMissing, rows
  <2>. QED BY <2>1, RowsStay DEF Faulty
<1>. QED BY <1>1, <1>2

LEMMA EnvironmentRequests ==
  ASSUME QueueInvariant,
         Fault \/ Switch \/ (\E d \in Deadlines : Elapse(d)) \/ UNCHANGED vars
  PROVE  RequestStep
<1>1. request' = request
  BY DEF Fault, RejectCompletion, AbortRun, OverrunLease, Switch, SwitchRepository,
         SwitchAccount, Elapse, vars, rows
<1>2. faults \in Nat
  BY DEF QueueInvariant, TypeInv, TypeOK
<1>3. faults' = faults \/ faults' = faults + 1
  BY DEF Fault, RejectCompletion, AbortRun, OverrunLease, Switch, SwitchRepository,
         SwitchAccount, Elapse, vars
<1>. QED BY <1>1, <1>2, <1>3, RowsStay DEF Faulty

LEMMA NextRequests ==
  QueueInvariant /\ ClaimsAreRunning /\ [Next]_vars => RequestStep
<1> SUFFICES ASSUME QueueInvariant, ClaimsAreRunning, [Next]_vars PROVE RequestStep
  OBVIOUS
<1>1. CASE Produce
  BY <1>1, ProduceRequests DEF QueueInvariant
<1>2. ASSUME NEW w \in Workers, Work(w)
      PROVE  RequestStep
  BY <1>2, ClaimRequests, SettleRequests, QuietRequests DEF Work, Claims
<1>3. CASE Fault \/ Switch \/ (\E d \in Deadlines : Elapse(d)) \/ UNCHANGED vars
  BY <1>3, EnvironmentRequests
<1>. QED BY <1>1, <1>2, <1>3 DEF Next

\* For every instance the rows that enqueueRepository, the claims, completeRequest and
\* failRequest write are the requests those who ask rely on: no step loses a scope or
\* finishes what nobody began, unless a run was aborted or outlived its lease.
THEOREM ImplementsRequestRowsHolds == Spec => ImplementsRequestRows
<1>1. Init => Requests!Init
  BY ViewNone DEF Init, Requests!Init, Requests!NoRow
<1>2. QueueInvariant /\ ClaimsAreRunning /\ [Next]_vars =>
        [Requests!Next /\ ((faults > 0) => (faults > 0)')]_
          <<[r \in Repositories |-> View(request[r])],
            {r \in Repositories : Enabled(r)}, faults > 0>>
  BY NextRequests DEF RequestStep, Rows, Wanted, Faulty
<1>. QED BY <1>1, <1>2, QueueInit, QueueStep, RunningInit, RunningStep, PTL
         DEF Spec, ImplementsRequestRows, Requests!Spec
=============================================================================
