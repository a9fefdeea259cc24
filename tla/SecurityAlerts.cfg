CONSTANTS
  AlertKinds <- MCAlertKinds
  Alerts = {a1, a2}
  KindOf <- MCKindOf
  ProviderTypes = {"GITHUB", "GITLAB", "GITEA"}
  Syncers = {s1}
  None = None
  Missing = Missing
  MaxUpdated = 2
  MaxChanges = 2
  MaxFaults = 1
SPECIFICATION LiveSpec
INVARIANTS
  SubscribersAreCurrent
PROPERTIES
  BaselineIsSilent
  AlertsAreStored
