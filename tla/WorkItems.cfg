CONSTANTS
  Items = {1, 2}
  PullRequests = TRUE
  Syncers = {s1}
  PageSize = 1
  Overlap = 1
  History = 1
  Skew = 1
  Start = 1
  MaxTime = 2
  MaxChanges = 2
  MaxFaults = 1
  NoCursor = NoCursor
SPECIFICATION LiveSpec
INVARIANTS
  CursorCoversChanges
  SubscribersAreCurrent
PROPERTIES
  NewsIsNew
  ChangesAreStored
