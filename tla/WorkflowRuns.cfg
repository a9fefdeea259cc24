CONSTANTS
  Runs = {1, 2}
  Workflows = {"build"}
  WorkflowOf <- OneWorkflow
  Named = {2}
  Queries = {"created", "updated"}
  Skew = 1
  Start = 1
  MaxTime = 2
  MaxChanges = 2
  MaxFaults = 1
  NoCursor = NoCursor
SPECIFICATION LiveSpec
INVARIANTS
  CursorCoversRuns
  OutcomesAreAnnounced
  AggregateIsCurrent
PROPERTIES
  RecoveriesFollowFailures
  ActiveRunsSettle
