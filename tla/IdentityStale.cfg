CONSTANTS
  LocalUsers = {u1}
  Subjects = {o1}
  Logins = {l1}
  Browsers = {b1}
  Settings = {off, on}
  Ready = {on}
  Requests = {r1, r2}
  None = None
  MaximumPending = 1
  MaxOperations = 7
SPECIFICATION Spec
SYMMETRY Symmetric
CHECK_DEADLOCK FALSE
PROPERTIES
  ChangesInvalidateSessions
