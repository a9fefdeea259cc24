CONSTANTS
  Repositories = {r1}
  Accounts = {a1}
  AccountOf <- MCAccountOf
  Workers = {w1, w2}
  Tokens = {t1, t2}
  NoToken = NoToken
  Scopes = {ALERTS}
  Alerts = ALERTS
  MaximumAttempts = 2
  MaxGeneration = 2
  MaxFaults = 1
  Environment = {"webhook"}
SPECIFICATION LiveSpec
INVARIANTS
  TypeOK
  RetainsRequestedWork
  RunningRowsAreLeased
  AccountExclusion
PROPERTIES
  ClaimsOnlyDueWork
  ImplementsAccountLock
  RequestsSettle
