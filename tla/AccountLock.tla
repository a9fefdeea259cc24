---------------------------- MODULE AccountLock ----------------------------
(***************************************************************************)
(* What the synchronization queue promises of each provider account: a     *)
(* lock that at most one worker holds, which may be lost while it is held, *)
(* and which is not given out while the provider limits the account.       *)
(***************************************************************************)
CONSTANTS
  Accounts,
  Workers

VARIABLES
  holders,   \* the workers that hold the lock of each account
  limited    \* the accounts that are limited by their provider

Init ==
  /\ holders = [a \in Accounts |-> {}]
  /\ limited = {}

Acquire(a, w) ==
  /\ holders[a] = {}
  /\ a \notin limited
  /\ holders' = [holders EXCEPT ![a] = {w}]
  /\ UNCHANGED limited

\* A holder gives the lock back or loses it.  Giving it back may report a limit.
Release(a, w) ==
  /\ w \in holders[a]
  /\ holders' = [holders EXCEPT ![a] = @ \ {w}]
  /\ limited' \in {limited, limited \cup {a}, limited \ {a}}

\* A limit comes, for an account nobody works on, from a worker that lost its lock
\* before it could report it; it goes with time or with such a worker.
Limit(a) ==
  /\ holders[a] = {}
  /\ limited' = limited \cup {a}
  /\ UNCHANGED holders

Lift(a) ==
  /\ limited' = limited \ {a}
  /\ UNCHANGED holders

Next ==
  \E a \in Accounts :
    \/ \E w \in Workers : Acquire(a, w) \/ Release(a, w)
    \/ Limit(a)
    \/ Lift(a)

Spec == Init /\ [][Next]_<<holders, limited>>
=============================================================================
