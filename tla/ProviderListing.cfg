CONSTANTS
  Missing = Missing
  PageSize = 2
  MaxItems = 3
  MaxEdits = 1
  Rolls = {0, 10}
SPECIFICATION ListingSpec
CHECK_DEADLOCK FALSE
INVARIANTS
  AllIsRead
  LatestReadingCounts
  StatusesFollowRuns
PROPERTIES
  RetriesBackOff
