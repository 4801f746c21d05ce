SPECIFICATION Spec
CONSTANTS
  m1 = m1
  d1 = d1
  desktop = desktop
  menu = menu
  panel = panel
  keyguard = keyguard
  None = None
  Mains = {m1}
  Dialogs = {}
  Systems = {desktop, menu, panel}
  Desktops = {desktop}
  LowerSystems = {desktop}
  PopMenus = {menu}
  AboveApps = {panel}
  Blockers = {panel}
  Keyguards = {}
  Covering = {panel}
  Floating = {m1}
  FreeMultiModes = {FALSE}
  ScbReasons = {"RECENT"}
  MayPause = {m1}
  MayDisconnect = {}
  DialogOf <- MCDialogOf
  ZOrders <- MCZOrders
INVARIANTS ToldOnlyFocused
