CONSTANTS
  Repositories = {r1}
  Runs = {x1}
  RepositoryOf <- MCRepositoryOf
  Issues = {i1}
  Pulls = {p1}
  PullOf <- MCPullOf
  NoPull = NoPull
  Jobs = {j1}
  Days = {1, 2}
  ItemDays <- MCItemDays
  NoOverride = NoOverride
  Durations = {1}
  NoTime = NoTime
  MaxTime = 2
  MaxChanges = 2
  MaxFaults = 1
SPECIFICATION LiveSpec
INVARIANTS
  TotalIsKept
PROPERTIES
  OnlyExpiredGo
  ExpiredRecordsGo
CHECK_DEADLOCK FALSE
