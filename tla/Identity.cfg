CONSTANTS
  LocalUsers = {u1, u2}
  Subjects = {o1}
  Logins = {l1, l2, l3}
  Browsers = {b1, b2}
  Settings = {off, on}
  Ready = {on}
  Requests = {r1, r2}
  None = None
  MaximumPending = 1
  MaxOperations = 7
SPECIFICATION Spec
SYMMETRY Symmetric
CHECK_DEADLOCK FALSE
INVARIANTS
  SignsInOnce
  StaysInitialized
  AcceptedSessionsAreCurrent
  PendingIsBounded
