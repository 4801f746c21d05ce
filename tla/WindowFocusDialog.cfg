SPECIFICATION Spec
CONSTANTS
  m1 = m1
  d1 = d1
  desktop = desktop
  menu = menu
  panel = panel
  keyguard = keyguard
  None = None
  Mains = {m1}
  Dialogs = {d1}
  Systems = {desktop, keyguard}
  Desktops = {desktop}
  LowerSystems = {desktop}
  PopMenus = {}
  AboveApps = {}
  Blockers = {keyguard}
  Keyguards = {keyguard}
  Covering = {}
  Floating = {m1}
  FreeMultiModes = {FALSE, TRUE}
  ScbReasons = {"FORCE_FOCUSED"}
  MayPause = {}
  MayDisconnect = {d1}
  DialogOf <- MCDialogOf
  ZOrders <- MCZOrders
INVARIANTS TypeOK FocusedFlagAgrees ToldOnlyFocused ToldUnlessBlocked
PROPERTIES KeyguardKeepsFocus
