CONSTANTS
  Repositories = {r1}
  Accounts = {a1}
  AccountOf <- MCAccountOf
  Workers = {w1}
  Tokens = {t1}
  NoToken = NoToken
  Scopes = {ALERTS}
  Alerts = ALERTS
  MaximumAttempts = 1
  MaxGeneration = 2
  MaxFaults = 0
  Environment = {"webhook"}
SPECIFICATION Spec
SYMMETRY MCSymmetry
INVARIANTS
  RetainsSupersedingWork
