SPECIFICATION Spec
CONSTANTS
  m1 = m1
  d1 = d1
  desktop = desktop
  menu = menu
  panel = panel
  keyguard = keyguard
  None = None
  Mains = {m1}
  Dialogs = {d1}
  Systems = {desktop}
  Desktops = {desktop}
  LowerSystems = {desktop}
  PopMenus = {}
  AboveApps = {}
  Blockers = {}
  Keyguards = {}
  Covering = {}
  Floating = {m1}
  FreeMultiModes = {FALSE}
  ScbReasons = {"FOREGROUND"}
  MayPause = {}
  MayDisconnect = {}
  DialogOf <- MCDialogOf
  ZOrders <- MCZOrders
PROPERTY FocusChangesOncePerFlush
