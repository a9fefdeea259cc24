---------------------------- MODULE RequestRows ----------------------------
(***************************************************************************)
(* What the synchronization queue promises of each repository's request    *)
(* row to those who ask for work: a scope that was asked for stays in the  *)
(* row as long as there is one, work waits until it is begun, and only a   *)
(* synchronization that was begun ends a row, unless one outlived its      *)
(* lease or the repository is disabled.                                    *)
(*                                                                         *)
(* It promises nothing of scopes that join a row while it runs: they may   *)
(* go with it when it is finished.  What the code does about these is the  *)
(* subject of RetainsRequestedWork and RetainsSupersedingWork.             *)
(***************************************************************************)
CONSTANTS
  Repositories,
  Scopes

VARIABLES
  rows,      \* the request of each repository
  wanted,    \* the repositories that are enabled with their account
  faulty     \* whether a run was aborted or outlived its lease

Row   == [state: {"none", "waiting", "running", "finished"},
          scopes: SUBSET Scopes]
NoRow == [state |-> "none", scopes |-> {}]

Init ==
  /\ rows = [r \in Repositories |-> NoRow]
  /\ faulty = FALSE

\* Work S is asked for: it joins the row, which waits unless it runs already.
Ask(r, S) ==
  /\ S # {}
  /\ rows' = [rows EXCEPT ![r] =
       [state  |-> IF @.state = "running" THEN "running" ELSE "waiting",
        scopes |-> @.scopes \cup S]]

\* A worker begins what waits, or takes over what another one had begun.
Begin(r) ==
  /\ rows[r].state \in {"waiting", "running"}
  /\ rows' = [rows EXCEPT ![r].state = "running"]

\* What was begun is done and leaves, has finished visibly, or waits again.
Finish(r) ==
  /\ rows[r].state = "running" \/ (faulty /\ rows[r].state # "none")
  /\ rows' \in {[rows EXCEPT ![r] = NoRow],
                [rows EXCEPT ![r].state = "finished"],
                [rows EXCEPT ![r].state = "waiting"]}

\* Requests of repositories that are not wanted go.
Drop(R) ==
  /\ R \cap wanted = {}
  /\ rows' = [r \in Repositories |-> IF r \in R THEN NoRow ELSE rows[r]]

Change ==
  \E r \in Repositories :
    \/ \E S \in SUBSET Scopes : Ask(r, S)
    \/ Begin(r)
    \/ Finish(r)

Next ==
  \/ Change \/ (\E R \in SUBSET Repositories : Drop(R))
  \/ UNCHANGED rows

\* Faults are not undone; who is wanted is up to the environment.
Spec == Init /\ [][Next /\ (faulty => faulty')]_<<rows, wanted, faulty>>
=============================================================================
