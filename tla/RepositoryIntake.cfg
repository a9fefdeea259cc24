CONSTANTS
  Repositories = {r1}
  Accounts = {a1}
  AccountOf <- MCAccountOf
  Deliveries <- MCDeliveries
  RepositoryOf <- MCRepositoryOf
  ScopesOf <- MCScopesOf
  Scopes <- MCScopes
  Secrets = {s1, s2}
  NoSecret = NoSecret
  Requests = {q1, q2}
  Adders = {x1, x2}
  MaxSends = 2
  MaxChanges = 3
  MaxFaults = 1
SPECIFICATION LiveSpec
INVARIANTS
  EnqueuedOnce
  AcceptedIsEnqueued
  QueuedAreTracked
PROPERTIES
  TrackedIsSynchronized
  DisabledIsDropped
CHECK_DEADLOCK FALSE
