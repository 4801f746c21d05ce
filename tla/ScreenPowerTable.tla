-------------------------- MODULE ScreenPowerTable --------------------------
(***************************************************************************)
(* The vocabulary of the screen power state machine: its states, events,   *)
(* display and panel states, the conversions between them and the          *)
(* transition table that InitStateMachineTbl builds.  The table is a set   *)
(* of rows [state, event, target, action, timeout]; a pair that has no row *)
(* is what the code calls an invalid transition.                           *)
(***************************************************************************)

TransitionState ==
  { "SCREEN_ON", "SCREEN_OFF", "WAIT_SCREEN_ON_READY",
    "WAIT_SCREEN_ADVANCED_ON_READY", "SCREEN_AOD", "WAIT_LOCK_SCREEN_IND",
    "WAIT_SCREEN_CTRL_RSP", "SCREEN_ADVANCED_ON", "SCREEN_DOZE",
    "SCREEN_DOZE_SUSPEND", "SCREEN_INIT", "SCREEN_AP_DOZE",
    "SCREEN_AP_DOZE_SUSPEND" }

PowerEvent ==
  { "POWER_ON", "POWER_OFF", "POWER_ON_DIRECTLY", "POWER_OFF_DIRECTLY",
    "SUSPEND", "SET_SCREEN_POWER_FOR_ALL_POWER_ON",
    "SET_SCREEN_POWER_FOR_ALL_POWER_OFF", "AOD_ENTER_SUCCESS",
    "AOD_ENTER_FAIL", "SET_DISPLAY_STATE", "SET_DISPLAY_STATE_DOZE",
    "SET_DISPLAY_STATE_DOZE_SUSPEND", "E_ADVANCED_ON", "E_ADVANCED_OFF",
    "E_DOZE_SUSPEND", "E_DOZE", "DMS_POWER_CB_END", "WAKEUP_BEGIN",
    "SUSPEND_BEGIN", "WAKEUP_BEGIN_ADVANCED", "FOLD_SCREEN_SET_POWER",
    "SYNC_POWER_ON", "SET_SCREEN_POWER_FOR_ALL_DOZE",
    "SET_SCREEN_POWER_FOR_ALL_DOZE_SUSPEND",
    "SET_SCREEN_POWER_FOR_ALL_FORCE_POWER_OFF", "WAKEUP_BEGIN_PRE_BRIGHT",
    "SUSPEND_BEGIN_PRE_BRIGHT" }

(* The handlers a row may name.                                            *)
PowerAction ==
  { "DoWakeUpBegin", "DoSuspendBegin", "DoSetDisplayState", "DoScreenPowerOn",
    "DoSetScreenPower", "DoRecordTransNormal", "DoSetScreenPowerForAll",
    "DoAodExitAndSetPowerOn", "DoAodExitAndSetPowerOff",
    "DoSetScreenFoldPowerFunc", "ActionScreenPowerOff" }

(* The three kinds of rows: without a timeout, with the one that turns     *)
(* every screen off, with the one that powers the screen on.               *)
TimeoutCallback == { "None", "DoAodExitAndSetPowerAllOff", "DoScreenPowerOn" }

TransitionRow ==
  [ state : TransitionState, event : PowerEvent, target : TransitionState,
    action : PowerAction, timeout : TimeoutCallback ]

RowsT(s, events, t, act, tmo) ==
  { [ state |-> s, event |-> e, target |-> t, action |-> act,
      timeout |-> tmo ] : e \in events }

Rows(s, events, t, act) == RowsT(s, events, t, act, "None")

WakeUps == { "WAKEUP_BEGIN", "WAKEUP_BEGIN_PRE_BRIGHT" }
Suspends == { "SUSPEND_BEGIN", "SUSPEND_BEGIN_PRE_BRIGHT" }

(* A folding device may reconfigure its panels in every state but          *)
(* nothing follows from it: the state stays.                               *)
FoldRows ==
  UNION { Rows(s, {"FOLD_SCREEN_SET_POWER"}, s, "DoSetScreenFoldPowerFunc") :
          s \in TransitionState }

InitRows ==
  Rows("SCREEN_INIT", {"POWER_ON_DIRECTLY", "POWER_OFF_DIRECTLY"},
       "SCREEN_INIT", "DoSetScreenPower")

OffRows ==
  UNION
  { Rows("SCREEN_OFF", WakeUps, "WAIT_SCREEN_ON_READY", "DoWakeUpBegin"),
    Rows("SCREEN_OFF", {"SET_SCREEN_POWER_FOR_ALL_DOZE"}, "SCREEN_AP_DOZE",
         "DoSetScreenPowerForAll"),
    Rows("SCREEN_OFF", {"SET_SCREEN_POWER_FOR_ALL_DOZE_SUSPEND"},
         "SCREEN_AP_DOZE_SUSPEND", "DoSetScreenPowerForAll"),
    Rows("SCREEN_OFF", {"SET_SCREEN_POWER_FOR_ALL_FORCE_POWER_OFF"},
         "SCREEN_OFF", "DoSetScreenPowerForAll"),
    Rows("SCREEN_OFF", {"POWER_ON_DIRECTLY"}, "SCREEN_ON", "DoSetScreenPower"),
    Rows("SCREEN_OFF", {"POWER_OFF_DIRECTLY"}, "SCREEN_OFF",
         "DoSetScreenPower"),
    Rows("SCREEN_OFF", {"E_ADVANCED_ON"}, "SCREEN_ADVANCED_ON",
         "DoSetScreenPower"),
    Rows("SCREEN_OFF", {"SET_DISPLAY_STATE_DOZE"}, "SCREEN_DOZE",
         "DoSetDisplayState"),
    Rows("SCREEN_OFF", {"SET_DISPLAY_STATE_DOZE_SUSPEND"},
         "SCREEN_DOZE_SUSPEND", "DoSetDisplayState"),
    Rows("SCREEN_OFF", Suspends \cup {"SET_DISPLAY_STATE"}, "SCREEN_OFF",
         "DoRecordTransNormal") }

WaitOnRows ==
  UNION
  { Rows("WAIT_SCREEN_ON_READY", {"SET_DISPLAY_STATE"}, "WAIT_SCREEN_ON_READY",
         "DoSetDisplayState"),
    Rows("WAIT_SCREEN_ON_READY", {"POWER_ON"}, "SCREEN_ON",
         "DoSetScreenPower"),
    Rows("WAIT_SCREEN_ON_READY", {"SYNC_POWER_ON"}, "SCREEN_ON",
         "DoRecordTransNormal"),
    Rows("WAIT_SCREEN_ADVANCED_ON_READY",
         {"SET_SCREEN_POWER_FOR_ALL_POWER_ON"}, "SCREEN_ON",
         "DoSetScreenPowerForAll"),
    Rows("WAIT_SCREEN_ADVANCED_ON_READY",
         {"SET_SCREEN_POWER_FOR_ALL_POWER_OFF"}, "SCREEN_OFF",
         "DoSetScreenPowerForAll") }

OnRows ==
  UNION
  { Rows("SCREEN_ON", WakeUps, "WAIT_SCREEN_ON_READY", "DoWakeUpBegin"),
    Rows("SCREEN_ON", Suspends, "SCREEN_ON", "DoSuspendBegin"),
    Rows("SCREEN_ON",
         {"SET_DISPLAY_STATE", "SET_DISPLAY_STATE_DOZE",
          "SET_DISPLAY_STATE_DOZE_SUSPEND"},
         "WAIT_LOCK_SCREEN_IND", "DoSetDisplayState"),
    Rows("SCREEN_ON", {"POWER_OFF_DIRECTLY"}, "SCREEN_OFF",
         "ActionScreenPowerOff"),
    Rows("SCREEN_ON", {"POWER_ON_DIRECTLY"}, "SCREEN_ON",
         "DoSetScreenPower") }

WaitLockScreenRows ==
  UNION
  { Rows("WAIT_LOCK_SCREEN_IND", {"POWER_OFF"}, "SCREEN_OFF",
         "DoSetScreenPower"),
    Rows("WAIT_LOCK_SCREEN_IND", {"E_DOZE"}, "SCREEN_DOZE",
         "DoSetScreenPower"),
    Rows("WAIT_LOCK_SCREEN_IND", {"SUSPEND"}, "WAIT_LOCK_SCREEN_IND",
         "DoSetScreenPower"),
    RowsT("WAIT_LOCK_SCREEN_IND", {"DMS_POWER_CB_END"}, "WAIT_SCREEN_CTRL_RSP",
          "DoRecordTransNormal", "DoAodExitAndSetPowerAllOff") }

WaitCtrlRows ==
  UNION
  { Rows("WAIT_SCREEN_CTRL_RSP", {"POWER_ON_DIRECTLY"}, "SCREEN_ON",
         "DoAodExitAndSetPowerOn"),
    Rows("WAIT_SCREEN_CTRL_RSP", {"AOD_ENTER_FAIL", "POWER_OFF_DIRECTLY"},
         "SCREEN_OFF", "DoAodExitAndSetPowerOff"),
    Rows("WAIT_SCREEN_CTRL_RSP", {"E_ADVANCED_ON"}, "SCREEN_ADVANCED_ON",
         "DoSetScreenPower"),
    Rows("WAIT_SCREEN_CTRL_RSP", {"AOD_ENTER_SUCCESS"}, "SCREEN_AOD",
         "DoRecordTransNormal"),
    Rows("WAIT_SCREEN_CTRL_RSP", WakeUps, "WAIT_SCREEN_ON_READY",
         "DoWakeUpBegin") }

AodRows ==
  UNION
  { Rows("SCREEN_AOD", WakeUps, "WAIT_SCREEN_ON_READY", "DoWakeUpBegin"),
    Rows("SCREEN_AOD", {"E_ADVANCED_ON"}, "SCREEN_ADVANCED_ON",
         "DoSetScreenPower"),
    Rows("SCREEN_AOD", {"POWER_OFF", "POWER_OFF_DIRECTLY"}, "SCREEN_OFF",
         "DoSetScreenPower") }

AdvancedOnRows ==
  UNION
  { Rows("SCREEN_ADVANCED_ON", WakeUps \cup {"WAKEUP_BEGIN_ADVANCED"},
         "WAIT_SCREEN_ADVANCED_ON_READY", "DoWakeUpBegin"),
    Rows("SCREEN_ADVANCED_ON", {"E_ADVANCED_OFF", "POWER_OFF_DIRECTLY"},
         "SCREEN_OFF", "DoSetScreenPower"),
    Rows("SCREEN_ADVANCED_ON", {"POWER_ON_DIRECTLY"}, "SCREEN_ON",
         "DoScreenPowerOn"),
    Rows("SCREEN_ADVANCED_ON", Suspends, "SCREEN_ADVANCED_ON",
         "DoSuspendBegin"),
    Rows("SCREEN_ADVANCED_ON", {"SET_DISPLAY_STATE"}, "WAIT_LOCK_SCREEN_IND",
         "DoSetDisplayState") }

DozeRows ==
  UNION
  { RowsT("SCREEN_DOZE", WakeUps, "WAIT_SCREEN_ON_READY", "DoWakeUpBegin",
          "DoScreenPowerOn"),
    Rows("SCREEN_DOZE", {"POWER_OFF"}, "SCREEN_OFF", "DoSetScreenPower"),
    Rows("SCREEN_DOZE", {"E_DOZE_SUSPEND"}, "SCREEN_DOZE_SUSPEND",
         "DoSetScreenPower"),
    Rows("SCREEN_DOZE", {"SET_DISPLAY_STATE"}, "SCREEN_OFF",
         "DoSetDisplayState"),
    Rows("SCREEN_DOZE", {"SET_DISPLAY_STATE_DOZE_SUSPEND"},
         "SCREEN_DOZE_SUSPEND", "DoSetDisplayState"),
    RowsT("SCREEN_DOZE_SUSPEND", WakeUps, "WAIT_SCREEN_ON_READY",
          "DoWakeUpBegin", "DoScreenPowerOn"),
    Rows("SCREEN_DOZE_SUSPEND", {"E_DOZE"}, "SCREEN_DOZE", "DoSetScreenPower"),
    Rows("SCREEN_DOZE_SUSPEND", {"SET_DISPLAY_STATE"}, "SCREEN_OFF",
         "DoSetDisplayState"),
    Rows("SCREEN_DOZE_SUSPEND", {"SET_DISPLAY_STATE_DOZE"}, "SCREEN_DOZE",
         "DoSetDisplayState") }

ApDozeRows ==
  UNION
  { RowsT("SCREEN_AP_DOZE", {"WAKEUP_BEGIN"}, "WAIT_SCREEN_ON_READY",
          "DoWakeUpBegin", "DoScreenPowerOn"),
    Rows("SCREEN_AP_DOZE", {"SET_SCREEN_POWER_FOR_ALL_POWER_OFF"},
         "SCREEN_OFF", "DoSetScreenPowerForAll"),
    Rows("SCREEN_AP_DOZE", {"SET_SCREEN_POWER_FOR_ALL_DOZE_SUSPEND"},
         "SCREEN_AP_DOZE_SUSPEND", "DoSetScreenPowerForAll"),
    Rows("SCREEN_AP_DOZE", {"POWER_OFF"}, "SCREEN_OFF", "DoSetScreenPower"),
    Rows("SCREEN_AP_DOZE", {"E_DOZE_SUSPEND"}, "SCREEN_AP_DOZE_SUSPEND",
         "DoSetScreenPower"),
    RowsT("SCREEN_AP_DOZE_SUSPEND", {"WAKEUP_BEGIN"}, "WAIT_SCREEN_ON_READY",
          "DoWakeUpBegin", "DoScreenPowerOn"),
    Rows("SCREEN_AP_DOZE_SUSPEND", {"E_DOZE"}, "SCREEN_AP_DOZE",
         "DoSetScreenPower"),
    Rows("SCREEN_AP_DOZE_SUSPEND", {"SET_SCREEN_POWER_FOR_ALL_POWER_OFF"},
         "SCREEN_OFF", "DoSetScreenPowerForAll"),
    Rows("SCREEN_AP_DOZE_SUSPEND", {"SET_SCREEN_POWER_FOR_ALL_DOZE"},
         "SCREEN_AP_DOZE", "DoSetScreenPowerForAll") }

Transitions ==
  UNION { FoldRows, InitRows, OffRows, WaitOnRows, OnRows, WaitLockScreenRows,
          WaitCtrlRows, AodRows, AdvancedOnRows, DozeRows, ApDozeRows }

(* GetTransition: the rows of a state and an event (one, or none when the  *)
(* transition is invalid).                                                 *)
GetTransition(s, e) == { r \in Transitions : r.state = s /\ r.event = e }

(* stateMachine_ is a std::map, so a pair has at most one row.             *)
TableIsAFunction ==
  \A r1, r2 \in Transitions :
    r1.state = r2.state /\ r1.event = r2.event => r1 = r2

-----------------------------------------------------------------------------

(* The display states the power service asks for, and the two the code     *)
(* itself uses: before the first request, and after the lock screen asked  *)
(* for a suspend instead of an off.                                        *)
RequestedState == { "ON", "OFF", "DOZE", "DOZE_SUSPEND" }
DisplayState == RequestedState \cup { "UNKNOWN", "ON_SUSPEND" }

(* POWER_STATE_CHANGE_MAP: the event SetDisplayState posts for a state.    *)
DisplayStateEvent(d) ==
  CASE d = "DOZE" -> "SET_DISPLAY_STATE_DOZE"
    [] d = "DOZE_SUSPEND" -> "SET_DISPLAY_STATE_DOZE_SUSPEND"
    [] OTHER -> "SET_DISPLAY_STATE"

PowerStatus ==
  { "ON", "OFF", "SUSPEND", "ON_ADVANCED", "OFF_ADVANCED", "DOZE",
    "DOZE_SUSPEND" }

(* Mutant: a status without a case of its own has no state.                *)
ConvertPowerStatusFallsThrough(status, isApAod) ==
  CASE status \in {"OFF", "OFF_ADVANCED"} -> "SCREEN_OFF"
    [] status = "SUSPEND" -> "WAIT_SCREEN_CTRL_RSP"
    [] status = "ON_ADVANCED" -> "SCREEN_ADVANCED_ON"
    [] OTHER -> "TRANSITION_STATE_MAX"

(* ConvertPowerStatus2ScreenState.                                         *)
ConvertPowerStatus2ScreenState(status, isApAod) ==
  CASE status \in {"OFF", "OFF_ADVANCED"} -> "SCREEN_OFF"
    [] status = "SUSPEND" -> "WAIT_SCREEN_CTRL_RSP"
    [] status = "ON_ADVANCED" -> "SCREEN_ADVANCED_ON"
    [] status = "DOZE" -> IF isApAod THEN "SCREEN_AP_DOZE" ELSE "SCREEN_DOZE"
    [] status = "DOZE_SUSPEND" ->
         IF isApAod THEN "SCREEN_AP_DOZE_SUSPEND" ELSE "SCREEN_DOZE_SUSPEND"
    [] OTHER -> "SCREEN_ON"

(* The reasons the code tells apart; every other one behaves as NORMAL.    *)
PowerStateChangeReason ==
  { "NORMAL", "COLLABORATION", "PRE_BRIGHT", "PRE_BRIGHT_AUTH_SUCCESS",
    "PRE_BRIGHT_AUTH_FAIL_SCREEN_ON", "PRE_BRIGHT_AUTH_FAIL_SCREEN_OFF",
    "SHUT_DOWN" }

IsPreBright(reason) ==
  reason \in { "PRE_BRIGHT", "PRE_BRIGHT_AUTH_FAIL_SCREEN_OFF" }

(* GetPowerStatus: the panel status a requested power state stands for.    *)
PowerState == { "POWER_ON", "POWER_OFF", "POWER_SUSPEND", "POWER_DOZE",
                "POWER_DOZE_SUSPEND" }

GetPowerStatus(state, reason) ==
  CASE state = "POWER_ON" /\ reason = "PRE_BRIGHT" -> "ON_ADVANCED"
    [] state = "POWER_ON" /\ reason # "PRE_BRIGHT" -> "ON"
    [] state = "POWER_OFF" /\ reason = "PRE_BRIGHT_AUTH_FAIL_SCREEN_OFF" ->
         "OFF_ADVANCED"
    [] state = "POWER_OFF" /\ reason # "PRE_BRIGHT_AUTH_FAIL_SCREEN_OFF" ->
         "OFF"
    [] state = "POWER_SUSPEND" -> "SUSPEND"
    [] state = "POWER_DOZE" -> "DOZE"
    [] state = "POWER_DOZE_SUSPEND" -> "DOZE_SUSPEND"

(* isOffScreen in SetScreenPower.                                          *)
IsOffScreen(status) == status \in { "OFF", "SUSPEND", "DOZE", "DOZE_SUSPEND" }
=============================================================================
