CONSTANTS
  Repositories = {r1}
  Accounts = {a1}
  AccountOf <- MCAccountOf
  Workers = {w1, w2}
  Tokens = {t1, t2}
  NoToken = NoToken
  Scopes = {ALERTS, ISSUES}
  Alerts = ALERTS
  MaximumAttempts = 1
  MaxGeneration = 2
  MaxFaults = 0
  Environment = {"webhook", "reconciliation", "manual", "switches"}
SPECIFICATION Spec
SYMMETRY MCSymmetry
PROPERTIES
  ImplementsRequestRows
