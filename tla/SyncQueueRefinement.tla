------------------------- MODULE SyncQueueRefinement -------------------------
(***************************************************************************)
(* The synchronization queue implements its two abstractions: the lock of  *)
(* a provider account and the request row of a repository.                 *)
(***************************************************************************)
EXTENDS SyncQueue

\* Who holds an unexpired lease of account a.
HoldersOf(a) ==
  {w \in Workers : Holding(w) /\ AccountOf[claim[w].repository] = a}

Lock == INSTANCE AccountLock WITH
  holders <- [a \in Accounts |-> HoldersOf(a)],
  limited <- Accounts \ elapsed

\* A row as those see it who ask for work.
View(row) ==
  CASE row = NoRequest -> [state |-> "none", scopes |-> {}]
    [] row.status = "PENDING" -> [state |-> "waiting", scopes |-> row.scopes]
    [] row.status = "RUNNING" -> [state |-> "running", scopes |-> row.scopes]
    [] row.status \in {"FAILED", "WARNING"} ->
         [state |-> "finished", scopes |-> row.scopes]

Requests == INSTANCE RequestRows WITH
  rows   <- [r \in Repositories |-> View(request[r])],
  wanted <- {r \in Repositories : Enabled(r)},
  faulty <- faults > 0

\* Leases of an account are a lock: whoever enqueues, retries, crashes, overruns
\* or takes over, no worker gets an account that another one still holds or that
\* is rate limited, and no outdated worker limits an account under its holder.
ImplementsAccountLock == Lock!Spec

\* Rows are dependable: no scope leaves a row that goes on, a waiting row neither
\* goes nor is taken for a finished one, and only faults and switches excuse it.  A
\* running row may go with the scopes that joined it while it ran.
ImplementsRequestRows == Requests!Spec
=============================================================================
