SPECIFICATION Spec
CONSTANTS
  Power = power
  Cancellers = {canceller}
  Skippers = {skipper}
  LockScreens = {}
  None = none
  IsPcDevice = FALSE
  Reasons = {"NORMAL", "COLLABORATION", "PRE_BRIGHT", "PRE_BRIGHT_AUTH_SUCCESS", "PRE_BRIGHT_AUTH_FAIL_SCREEN_OFF"}
  DisplayRequests = {"ON", "OFF", "DOZE", "DOZE_SUSPEND"}
  PowerRequests = {"POWER_ON", "POWER_OFF", "POWER_DOZE"}
INVARIANTS CancelRestores
PROPERTIES KeepsPromise
