SPECIFICATION FairSpec
CONSTANTS
  Power = power
  Syncs = {sync}
  Aods = {aod}
  Folds = {}
  Sched = sched
  None = none
  Reasons = {"NORMAL"}
  DisplayRequests = {"ON", "OFF"}
  PowerRequests = {"POWER_ON", "POWER_OFF"}
  SyncRequests = {"POWER_OFF"}
  AodRequests = {"POWER_DOZE"}
  MayFingerprint = TRUE
  MaxTasks = 1
PROPERTIES CallsReturn TimeoutsEnd
CHECK_DEADLOCK FALSE
