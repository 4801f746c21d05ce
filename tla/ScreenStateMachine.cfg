SPECIFICATION Spec
CONSTANTS
  Power = power
  Syncs = {}
  Aods = {aod}
  Folds = {fold}
  Sched = sched
  None = none
  Reasons = {"NORMAL", "PRE_BRIGHT", "PRE_BRIGHT_AUTH_SUCCESS", "PRE_BRIGHT_AUTH_FAIL_SCREEN_OFF"}
  DisplayRequests = {"ON", "OFF", "DOZE", "DOZE_SUSPEND"}
  PowerRequests = {"POWER_ON", "POWER_OFF", "POWER_SUSPEND", "POWER_DOZE"}
  SyncRequests = {}
  AodRequests = {"POWER_OFF", "POWER_DOZE_SUSPEND"}
  MayFingerprint = FALSE
  MaxTasks = 2
INVARIANTS TypeOK TimeoutExcluded ArmedHasTask CalledOffNeverTransfers ForceIsConsumed
