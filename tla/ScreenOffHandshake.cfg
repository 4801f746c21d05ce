SPECIFICATION FairSpec
CONSTANTS
  Power = power
  Cancellers = {canceller}
  Skippers = {}
  LockScreens = {lock}
  None = none
  IsPcDevice = FALSE
  Reasons = {"NORMAL"}
  DisplayRequests = {"ON", "OFF"}
  PowerRequests = {"POWER_ON", "POWER_OFF"}
INVARIANTS TypeOK NeedCancelOnlyWhileCancellable NeedOffOnlyWhileBlocking
PROPERTIES SetDisplayStateReturns
