-------------------------- MODULE ScreenOffHandshake --------------------------
(***************************************************************************)
(* How a screen is turned off and how that is called off: the power        *)
(* service's calls (SuspendBegin, SetDisplayState, SetScreenPowerForAll,   *)
(* WakeUpBegin, ...) run through the screen power state machine into       *)
(* SessionDisplayPowerController, which tells the lock screen, blocks on   *)
(* screenOffCV_ until the lock screen has drawn, and commits or cancels.   *)
(* Meanwhile other threads cancel (TryToCancelScreenOff), skip the         *)
(* animation (ForceSkipScreenOffAnimation) or deliver the lock screen's    *)
(* answers (NotifyDisplayEvent).                                           *)
(*                                                                         *)
(* One step is the code between two accesses of a variable that another    *)
(* thread can touch in between.  A critical section of screenOffMutex_ or  *)
(* screenOnMutex_ is one step: no code blocks inside it.  notifyMutex_ is  *)
(* a variable, because TryToCancelScreenOff takes screenOffMutex_ while it *)
(* holds it.                                                               *)
(***************************************************************************)
EXTENDS ScreenPowerTable

CONSTANTS
  Power,          \* the power service's thread: it alone makes power calls
  Cancellers,     \* threads that call TryToCancelScreenOff
  Skippers,       \* threads that call ForceSkipScreenOffAnimation
  LockScreens,    \* threads that deliver the lock screen's events
  None,           \* nobody holds a mutex, no call is in progress
  IsPcDevice,     \* g_isPcDevice
  Reasons,        \* the reasons the power service gives
  DisplayRequests,\* the display states it asks for
  PowerRequests   \* the power states it asks for

Clients == Cancellers \cup Skippers \cup LockScreens
Threads == {Power} \cup Clients

ASSUME ThreadsAssumption ==
  /\ Power \notin Clients
  /\ Cancellers \cap Skippers = {}
  /\ Cancellers \cap LockScreens = {}
  /\ Skippers \cap LockScreens = {}
  /\ None \notin Threads

ASSUME RequestsAssumption ==
  /\ IsPcDevice \in BOOLEAN
  /\ Reasons \subseteq PowerStateChangeReason
  /\ DisplayRequests \subseteq RequestedState
  /\ PowerRequests \subseteq PowerState

VARIABLES
  transState,          \* ScreenStateMachine::transState_
  isForceTrans,        \* ScreenStateMachine::isForceTrans_
  displayState,        \* SessionDisplayPowerController::displayState_
  lastDisplayState,    \* ScreenSessionManager::lastDisplayState_
  screenDisplayState,  \* the display state kept in every ScreenSession
  isSuspendBegin,      \* isSuspendBegin_
  canCancel,           \* canCancelSuspendNotify_
  needCancel,          \* needCancelNotify_
  canceledSuspend,     \* canceledSuspend_
  skipBlock,           \* skipScreenOffBlock_
  gotOff,              \* gotScreenOffNotify_
  needOff,             \* needScreenOffNotify_
  lockSuspend,         \* isScreenLockSuspend_
  fingerprint,         \* gotScreenlockFingerprint_
  keyguardDrawn,       \* keyguardDrawnDone_
  needOn,              \* needScreenOnWhenKeyguardNotify_
  collaboration,       \* isMultiScreenCollaboration_
  authFailOff,         \* lastWakeUpReason_ is PRE_BRIGHT_AUTH_FAIL_SCREEN_OFF
  notifyMutex,         \* owner of notifyMutex_
  pc,                  \* where each thread is
  job                  \* the locals of the power call in progress

fsmVars == <<transState, isForceTrans>>
displayVars == <<displayState, lastDisplayState, screenDisplayState>>
cancelVars == <<isSuspendBegin, canCancel, needCancel, canceledSuspend,
                skipBlock>>
offVars == <<gotOff, needOff, lockSuspend, fingerprint>>
onVars == <<keyguardDrawn, needOn>>
modeVars == <<collaboration, authFailOff>>
vars == <<fsmVars, displayVars, cancelVars, offVars, onVars, modeVars,
          notifyMutex, pc, job>>

(* The locals of a power call.  from and target are the state the machine  *)
(* read and the row's target; inFsm says that the call runs under the      *)
(* machine's mutex; arg, reason and status are the call's arguments; last  *)
(* is lastState of HandleSetDisplayStateOff; cancelled says it returned    *)
(* true.                                                                   *)
NoJob == [ from |-> "SCREEN_ON", target |-> "SCREEN_ON", inFsm |-> FALSE,
           arg |-> "UNKNOWN", reason |-> "NORMAL", status |-> "ON",
           last |-> "UNKNOWN", cancelled |-> FALSE ]

Job == [ from : TransitionState, target : TransitionState, inFsm : BOOLEAN,
         arg : DisplayState, reason : PowerStateChangeReason,
         status : PowerStatus, last : DisplayState, cancelled : BOOLEAN ]

(* Where the power thread can be.  The first group holds names of handlers *)
(* of the table; the others are points inside them.                        *)
HandlerPc == { "DoSuspendBegin", "DoSetDisplayState", "DoWakeUpBegin",
               "DoRecordTransNormal", "DoSetScreenPowerForAll" }
BlockOffPc == { "OffCheck", "OffArm", "OffEnter", "OffWait", "OffNotified" }
BlockOnPc == { "OnCheck", "OnArm", "OnEnter", "OnWait", "OnNotified" }
PowerPc == HandlerPc \cup BlockOffPc \cup BlockOnPc \cup
           { "Idle", "SuspendReset", "SuspendNotify", "NotifyOff",
             "WaitScreenOff", "OffUnblocked", "OffResolve",
             "DisplayStateSet", "SetScreenPower", "ClearFingerprint",
             "HandleExit" }
CancelPc == { "Idle", "CancelLocked", "CancelNeed", "CancelLate" }
SkipPc == { "Idle", "SkipLocked", "SkipNeed", "SkipLate" }
LockPc == { "Idle", "KeyguardCheck", "KeyguardNotify", "GotOff", "OffNeed",
            "OffNotify" }

Init ==
  /\ transState = "SCREEN_ON" /\ isForceTrans = FALSE
  /\ displayState = "UNKNOWN"
  /\ lastDisplayState = "UNKNOWN"
  /\ screenDisplayState = "UNKNOWN"
  /\ isSuspendBegin = FALSE /\ canCancel = FALSE /\ needCancel = FALSE
  /\ canceledSuspend = FALSE /\ skipBlock = FALSE
  /\ gotOff = FALSE /\ needOff = FALSE
  /\ lockSuspend = FALSE /\ fingerprint = FALSE
  /\ keyguardDrawn = TRUE /\ needOn = FALSE
  /\ collaboration = FALSE /\ authFailOff = FALSE
  /\ notifyMutex = None
  /\ pc = [t \in Threads |-> "Idle"]
  /\ job = NoJob
-----------------------------------------------------------------------------
(* Control flow.                                                           *)

PowerGoto(from, to) ==
  /\ pc[Power] = from
  /\ pc' = [pc EXCEPT ![Power] = to]

Goto(t, from, to) ==
  /\ pc[t] = from
  /\ pc' = [pc EXCEPT ![t] = to]

(* notify_all on screenOffCV_ or screenOnCV_ by a thread t that goes on to *)
(* "Idle": a power thread in the wait is woken, one that has not entered   *)
(* it yet is not.                                                          *)
NotifyAll(t, from, waiting, woken) ==
  /\ pc[t] = from
  /\ pc' = [pc EXCEPT ![t] = "Idle",
                      ![Power] = IF @ = waiting THEN woken ELSE @]

(* Mutant: the force flag is not stored.                                   *)
ToTransitionUnforced(state, isForce) ==
  /\ isForceTrans' = FALSE
  /\ transState' = state

(* ScreenStateMachine::ToTransition.                                       *)
ToTransition(state, isForce) ==
  /\ isForceTrans' = isForce
  /\ transState' = state

-----------------------------------------------------------------------------
(* The power service's calls.  HandlePowerStateChange looks the row up and *)
(* runs its handler; without a row it returns false and changes nothing.   *)

HandlePowerStateChange(event, call) ==
  /\ pc[Power] = "Idle"
  /\ \E r \in GetTransition(transState, event) :
       /\ pc' = [pc EXCEPT ![Power] = r.action]
       /\ job' = [call EXCEPT !.from = r.state, !.target = r.target,
                              !.inFsm = TRUE]
  /\ UNCHANGED <<fsmVars, displayVars, cancelVars, offVars, onVars, modeVars,
                 notifyMutex>>

SuspendBegin(reason) ==
  HandlePowerStateChange(
    IF IsPreBright(reason) THEN "SUSPEND_BEGIN_PRE_BRIGHT"
                           ELSE "SUSPEND_BEGIN",
    [NoJob EXCEPT !.reason = reason])

WakeUpBegin(reason) ==
  HandlePowerStateChange(
    CASE reason \in {"PRE_BRIGHT_AUTH_SUCCESS",
                     "PRE_BRIGHT_AUTH_FAIL_SCREEN_OFF"} ->
           "WAKEUP_BEGIN_ADVANCED"
      [] reason = "PRE_BRIGHT" -> "WAKEUP_BEGIN_PRE_BRIGHT"
      [] OTHER -> "WAKEUP_BEGIN",
    [NoJob EXCEPT !.reason = reason])

SetDisplayState(state) ==
  HandlePowerStateChange(DisplayStateEvent(state),
                         [NoJob EXCEPT !.arg = state])

(* SetScreenPowerForAll goes through the machine only to end a wait for an *)
(* advanced power-on; otherwise it runs without the machine's mutex.       *)
SetScreenPowerForAll(state, reason) ==
  LET call == [NoJob EXCEPT !.reason = reason,
                            !.status = GetPowerStatus(state, reason)]
      authOn == reason \in {"PRE_BRIGHT_AUTH_SUCCESS",
                            "PRE_BRIGHT_AUTH_FAIL_SCREEN_ON"}
      authOff == reason = "PRE_BRIGHT_AUTH_FAIL_SCREEN_OFF"
      advanced == transState = "WAIT_SCREEN_ADVANCED_ON_READY"
  IN  \/ /\ advanced /\ authOn
         /\ HandlePowerStateChange("SET_SCREEN_POWER_FOR_ALL_POWER_ON", call)
      \/ /\ advanced /\ authOff
         /\ HandlePowerStateChange("SET_SCREEN_POWER_FOR_ALL_POWER_OFF", call)
      \/ /\ ~(advanced /\ (authOn \/ authOff))
         /\ PowerGoto("Idle", "DoSetScreenPowerForAll")
         /\ job' = call
         /\ UNCHANGED <<fsmVars, displayVars, cancelVars, offVars, onVars,
                        modeVars, notifyMutex>>

(* WakeUpEnd and SuspendEnd: the end of a collaboration.                   *)
WakeUpOrSuspendEnd ==
  /\ pc[Power] = "Idle"
  /\ collaboration /\ collaboration' = FALSE
  /\ UNCHANGED <<fsmVars, displayVars, cancelVars, offVars, onVars,
                 authFailOff, notifyMutex, pc, job>>

PowerCall ==
  \/ \E reason \in Reasons : SuspendBegin(reason) \/ WakeUpBegin(reason)
  \/ \E state \in DisplayRequests : SetDisplayState(state)
  \/ \E state \in PowerRequests, reason \in Reasons :
       SetScreenPowerForAll(state, reason)
  \/ WakeUpOrSuspendEnd

(* The end of HandlePowerStateChange: the row's target is taken unless the *)
(* handler forced a state or something moved the machine meanwhile.        *)
HandleExit ==
  /\ PowerGoto("HandleExit", "Idle")
  /\ transState' = IF ~isForceTrans /\ transState = job.from
                     THEN job.target ELSE transState
  /\ isForceTrans' = FALSE
  /\ job' = NoJob
  /\ UNCHANGED <<displayVars, cancelVars, offVars, onVars, modeVars,
                 notifyMutex>>

-----------------------------------------------------------------------------
(* DoWakeUpBegin, DoRecordTransNormal, DoSuspendBegin.                     *)

DoRecordTransNormal ==
  /\ PowerGoto("DoRecordTransNormal", "HandleExit")
  /\ UNCHANGED <<fsmVars, displayVars, cancelVars, offVars, onVars, modeVars,
                 notifyMutex, job>>

DoWakeUpBegin ==
  /\ PowerGoto("DoWakeUpBegin", "HandleExit")
  /\ IF job.reason = "COLLABORATION"
       THEN collaboration' = TRUE /\ UNCHANGED authFailOff
       ELSE /\ authFailOff' = (job.reason = "PRE_BRIGHT_AUTH_FAIL_SCREEN_OFF")
            /\ UNCHANGED collaboration
  /\ UNCHANGED <<fsmVars, displayVars, cancelVars, offVars, onVars,
                 notifyMutex, job>>

DoSuspendBegin ==
  /\ PowerGoto("DoSuspendBegin", "SuspendReset")
  /\ fingerprint' = FALSE
  /\ authFailOff' = (job.reason = "PRE_BRIGHT_AUTH_FAIL_SCREEN_OFF")
  /\ UNCHANGED <<fsmVars, displayVars, cancelVars, gotOff, needOff,
                 lockSuspend, onVars, collaboration, notifyMutex, job>>

DoSuspendBeginReset ==
  /\ PowerGoto("SuspendReset", "SuspendNotify")
  /\ gotOff' = FALSE
  /\ isSuspendBegin' = TRUE
  /\ collaboration' = (collaboration \/ job.reason = "COLLABORATION")
  /\ UNCHANGED <<fsmVars, displayVars, canCancel, needCancel, canceledSuspend,
                 skipBlock, needOff, lockSuspend, fingerprint, onVars,
                 authFailOff, notifyMutex, job>>

(* The lock screen has been told of SLEEP: from here on a phone's screen   *)
(* off can be cancelled, unless the reason rules it out.                   *)
Cancellable(reason) ==
  /\ ~IsPcDevice
  /\ reason \notin {"PRE_BRIGHT", "PRE_BRIGHT_AUTH_SUCCESS",
                    "PRE_BRIGHT_AUTH_FAIL_SCREEN_ON",
                    "PRE_BRIGHT_AUTH_FAIL_SCREEN_OFF", "COLLABORATION"}

DoSuspendBeginNotify ==
  /\ PowerGoto("SuspendNotify", "HandleExit")
  /\ canCancel' = (canCancel \/ Cancellable(job.reason))
  /\ UNCHANGED <<fsmVars, displayVars, isSuspendBegin, needCancel,
                 canceledSuspend, skipBlock, offVars, onVars, modeVars,
                 notifyMutex, job>>

-----------------------------------------------------------------------------
(* DoSetDisplayState: every screen takes the state, then the controller    *)
(* handles it; a cancelled OFF gives the screens the last state back.      *)

DoSetDisplayState ==
  /\ pc[Power] = "DoSetDisplayState"
  /\ screenDisplayState' = job.arg
  /\ displayState' = IF job.arg = "DOZE_SUSPEND" THEN displayState ELSE job.arg
  /\ job' = [job EXCEPT !.last = displayState]
  /\ pc' = [pc EXCEPT ![Power] =
              CASE job.arg = "ON" /\ ~collaboration -> "OnCheck"
                [] job.arg \in {"OFF", "DOZE"} /\ ~collaboration -> "NotifyOff"
                [] OTHER -> "DisplayStateSet"]
  /\ UNCHANGED <<fsmVars, lastDisplayState, cancelVars, offVars, onVars,
                 modeVars, notifyMutex>>

(* Mutant: the lock screen is told without a look at needCancelNotify_.    *)
NotifyOffIgnoresCancel ==
  /\ notifyMutex = None
  /\ canCancel' = FALSE
  /\ needCancel' = FALSE
  /\ PowerGoto("NotifyOff", "WaitScreenOff")
  /\ UNCHANGED <<displayVars, job, fsmVars, isSuspendBegin, canceledSuspend,
                 skipBlock, offVars, onVars, modeVars, notifyMutex>>

(* Under notifyMutex_: no cancel is accepted any more, and either one that *)
(* was accepted takes effect or the lock screen is told of the off.        *)
NotifyOff ==
  /\ notifyMutex = None
  /\ canCancel' = FALSE
  /\ needCancel' = FALSE
  /\ IF needCancel
       THEN /\ PowerGoto("NotifyOff", "DisplayStateSet")
            /\ displayState' = job.last
            /\ job' = [job EXCEPT !.cancelled = TRUE]
            /\ ToTransition("SCREEN_ON", TRUE)
       ELSE /\ PowerGoto("NotifyOff", "WaitScreenOff")
            /\ UNCHANGED <<displayState, job, fsmVars>>
  /\ UNCHANGED <<lastDisplayState, screenDisplayState, isSuspendBegin,
                 canceledSuspend, skipBlock, offVars, onVars, modeVars,
                 notifyMutex>>

(* WaitScreenOffNotify, entered only in a suspension.                      *)
WaitScreenOffNotify ==
  /\ pc[Power] = "WaitScreenOff"
  /\ pc' = [pc EXCEPT ![Power] =
              IF ~isSuspendBegin \/ authFailOff THEN "OffResolve"
              ELSE IF skipBlock THEN "OffUnblocked" ELSE "OffCheck"]
  /\ UNCHANGED <<fsmVars, displayVars, cancelVars, offVars, onVars, modeVars,
                 notifyMutex, job>>
-----------------------------------------------------------------------------
(* BlockScreenOffByCV.  The flag is read, the request is published, and    *)
(* only then is screenOffMutex_ taken and the wait entered: an answer that *)
(* comes in between wakes nobody.                                          *)

OffCheck ==
  /\ PowerGoto("OffCheck", IF gotOff THEN "OffUnblocked" ELSE "OffArm")
  /\ UNCHANGED <<fsmVars, displayVars, cancelVars, offVars, onVars, modeVars,
                 notifyMutex, job>>

OffArm ==
  /\ PowerGoto("OffArm", "OffEnter")
  /\ needOff' = TRUE
  /\ UNCHANGED <<fsmVars, displayVars, cancelVars, gotOff, lockSuspend,
                 fingerprint, onVars, modeVars, notifyMutex, job>>

OffEnter ==
  /\ PowerGoto("OffEnter", "OffWait")
  /\ UNCHANGED <<fsmVars, displayVars, cancelVars, offVars, onVars, modeVars,
                 notifyMutex, job>>

OffWake ==
  /\ PowerGoto("OffNotified", "OffUnblocked")
  /\ UNCHANGED <<fsmVars, displayVars, cancelVars, offVars, onVars, modeVars,
                 notifyMutex, job>>

(* Mutants: a wait without a deadline, and one that leaves its request     *)
(* standing when the deadline passes.                                      *)
OffNeverTimesOut == FALSE

OffTimeoutKeepsRequest ==
  /\ pc[Power] \in {"OffWait", "OffNotified"}
  /\ pc' = [pc EXCEPT ![Power] = "OffUnblocked"]
  /\ lockSuspend' = FALSE
  /\ UNCHANGED <<fsmVars, displayVars, cancelVars, gotOff, needOff,
                 fingerprint, onVars, modeVars, notifyMutex, job>>

(* wait_for reports a timeout whenever it returns after the deadline, even *)
(* to a thread that was notified just before it.                           *)
OffTimeout ==
  /\ pc[Power] \in {"OffWait", "OffNotified"}
  /\ pc' = [pc EXCEPT ![Power] = "OffUnblocked"]
  /\ lockSuspend' = FALSE
  /\ needOff' = FALSE
  /\ UNCHANGED <<fsmVars, displayVars, cancelVars, gotOff, fingerprint,
                 onVars, modeVars, notifyMutex, job>>

OffUnblocked ==
  /\ PowerGoto("OffUnblocked", "OffResolve")
  /\ skipBlock' = FALSE
  /\ displayState' = IF lockSuspend THEN "ON_SUSPEND" ELSE displayState
  /\ UNCHANGED <<fsmVars, lastDisplayState, screenDisplayState,
                 isSuspendBegin, canCancel, needCancel, canceledSuspend,
                 offVars, onVars, modeVars, notifyMutex, job>>

(* The end of HandleSetDisplayStateOff: the last chance of a cancel.       *)
OffResolve ==
  /\ PowerGoto("OffResolve", "DisplayStateSet")
  /\ isSuspendBegin' = FALSE
  /\ canceledSuspend' = FALSE
  /\ IF canceledSuspend
       THEN /\ displayState' = job.last
            /\ job' = [job EXCEPT !.cancelled = TRUE]
            /\ ToTransition("SCREEN_ON", TRUE)
       ELSE UNCHANGED <<displayState, job, fsmVars>>
  /\ UNCHANGED <<lastDisplayState, screenDisplayState, canCancel, needCancel,
                 skipBlock, offVars, onVars, modeVars, notifyMutex>>

(* The end of DoSetDisplayState.                                           *)
DisplayStateSet ==
  /\ PowerGoto("DisplayStateSet", "HandleExit")
  /\ IF job.cancelled /\ job.arg = "OFF"
       THEN /\ screenDisplayState' = lastDisplayState
            /\ UNCHANGED lastDisplayState
       ELSE /\ lastDisplayState' = job.arg
            /\ UNCHANGED screenDisplayState
  /\ UNCHANGED <<fsmVars, displayState, cancelVars, offVars, onVars, modeVars,
                 notifyMutex, job>>

-----------------------------------------------------------------------------
(* BlockScreenOnByCV: the same handshake for the keyguard; a timeout       *)
(* leaves the request standing.                                            *)

OnCheck ==
  /\ PowerGoto("OnCheck", IF keyguardDrawn THEN "DisplayStateSet" ELSE "OnArm")
  /\ UNCHANGED <<fsmVars, displayVars, cancelVars, offVars, onVars, modeVars,
                 notifyMutex, job>>

OnArm ==
  /\ PowerGoto("OnArm", "OnEnter")
  /\ needOn' = TRUE
  /\ UNCHANGED <<fsmVars, displayVars, cancelVars, offVars, keyguardDrawn,
                 modeVars, notifyMutex, job>>

OnEnter ==
  /\ PowerGoto("OnEnter", "OnWait")
  /\ UNCHANGED <<fsmVars, displayVars, cancelVars, offVars, onVars, modeVars,
                 notifyMutex, job>>

OnWake ==
  /\ PowerGoto("OnNotified", "DisplayStateSet")
  /\ UNCHANGED <<fsmVars, displayVars, cancelVars, offVars, onVars, modeVars,
                 notifyMutex, job>>

OnTimeout ==
  /\ PowerGoto("OnWait", "DisplayStateSet")
  /\ UNCHANGED <<fsmVars, displayVars, cancelVars, offVars, onVars, modeVars,
                 notifyMutex, job>>

-----------------------------------------------------------------------------
(* DoSetScreenPowerForAll and SetScreenPower.                              *)

DoSetScreenPowerForAll ==
  /\ PowerGoto("DoSetScreenPowerForAll", "SetScreenPower")
  /\ gotOff' = FALSE
  /\ keyguardDrawn' = FALSE
  /\ UNCHANGED <<fsmVars, displayVars, cancelVars, needOff, lockSuspend,
                 fingerprint, needOn, modeVars, notifyMutex, job>>

AfterSetScreenPower == IF job.inFsm THEN "HandleExit" ELSE "Idle"

(* An unlocking fingerprint overrides the power-off: the machine is forced *)
(* to SCREEN_ON.  Otherwise the panels are set and the machine follows.    *)
SetScreenPower ==
  LET refused == /\ IsOffScreen(job.status) /\ fingerprint
                 /\ job.reason # "SHUT_DOWN"
  IN  /\ IF refused
           THEN /\ PowerGoto("SetScreenPower", AfterSetScreenPower)
                /\ fingerprint' = FALSE
                /\ ToTransition("SCREEN_ON", TRUE)
                /\ job' = IF job.inFsm THEN job ELSE NoJob
           ELSE /\ PowerGoto("SetScreenPower", "ClearFingerprint")
                /\ ToTransition(
                     ConvertPowerStatus2ScreenState(job.status, FALSE), FALSE)
                /\ UNCHANGED <<fingerprint, job>>
      /\ UNCHANGED <<displayVars, cancelVars, gotOff, needOff, lockSuspend,
                     onVars, modeVars, notifyMutex>>

ClearFingerprint ==
  /\ PowerGoto("ClearFingerprint", AfterSetScreenPower)
  /\ fingerprint' = (fingerprint /\ ~IsOffScreen(job.status))
  /\ job' = IF job.inFsm THEN job ELSE NoJob
  /\ UNCHANGED <<fsmVars, displayVars, cancelVars, gotOff, needOff,
                 lockSuspend, onVars, modeVars, notifyMutex>>

(* A power call in progress takes its next step.                           *)
PowerStep ==
  \/ HandleExit \/ DoRecordTransNormal \/ DoWakeUpBegin
  \/ DoSuspendBegin \/ DoSuspendBeginReset \/ DoSuspendBeginNotify
  \/ DoSetDisplayState \/ NotifyOff \/ WaitScreenOffNotify
  \/ OffCheck \/ OffArm \/ OffEnter \/ OffWake \/ OffTimeout
  \/ OffUnblocked \/ OffResolve \/ DisplayStateSet
  \/ OnCheck \/ OnArm \/ OnEnter \/ OnWake \/ OnTimeout
  \/ DoSetScreenPowerForAll \/ SetScreenPower \/ ClearFingerprint

-----------------------------------------------------------------------------
(* TryToCancelScreenOff, under notifyMutex_: before the lock screen is     *)
(* told, the cancel is left for NotifyOff; once it is told, the blocked    *)
(* power thread is released with the cancel set.                           *)

powerOnlyVars == <<fsmVars, displayVars, isSuspendBegin, canCancel, modeVars,
                   job>>

TryToCancelScreenOff(c) ==
  /\ notifyMutex = None /\ notifyMutex' = c
  /\ Goto(c, "Idle", "CancelLocked")
  /\ UNCHANGED <<powerOnlyVars, needCancel, canceledSuspend, skipBlock,
                 offVars, onVars>>

(* Mutant: the cancel is accepted without a look at the window.            *)
CancelWithoutCheck(c) ==
  /\ Goto(c, "CancelLocked", "Idle")
  /\ needCancel' = TRUE
  /\ notifyMutex' = None
  /\ UNCHANGED <<powerOnlyVars, canceledSuspend, skipBlock, offVars, onVars>>

CancelBeforeNotify(c) ==
  /\ canCancel
  /\ Goto(c, "CancelLocked", "Idle")
  /\ needCancel' = TRUE
  /\ notifyMutex' = None
  /\ UNCHANGED <<powerOnlyVars, canceledSuspend, skipBlock, offVars, onVars>>

CancelReadGot(c) ==
  /\ ~canCancel /\ ~gotOff
  /\ Goto(c, "CancelLocked", "CancelNeed")
  /\ UNCHANGED <<powerOnlyVars, needCancel, canceledSuspend, skipBlock,
                 offVars, onVars, notifyMutex>>

CancelReadNeed(c) ==
  /\ needOff
  /\ Goto(c, "CancelNeed", "CancelLate")
  /\ UNCHANGED <<powerOnlyVars, needCancel, canceledSuspend, skipBlock,
                 offVars, onVars, notifyMutex>>

CancelRefused(c) ==
  /\ \/ ~canCancel /\ gotOff /\ Goto(c, "CancelLocked", "Idle")
     \/ ~needOff /\ Goto(c, "CancelNeed", "Idle")
  /\ notifyMutex' = None
  /\ UNCHANGED <<powerOnlyVars, needCancel, canceledSuspend, skipBlock,
                 offVars, onVars>>

CancelAfterNotify(c) ==
  /\ NotifyAll(c, "CancelLate", "OffWait", "OffNotified")
  /\ canceledSuspend' = TRUE
  /\ needOff' = FALSE
  /\ notifyMutex' = None
  /\ UNCHANGED <<powerOnlyVars, needCancel, skipBlock, gotOff, lockSuspend,
                 fingerprint, onVars>>

CancelStep(c) ==
  \/ CancelBeforeNotify(c) \/ CancelReadGot(c) \/ CancelReadNeed(c)
  \/ CancelRefused(c) \/ CancelAfterNotify(c)

-----------------------------------------------------------------------------
(* ForceSkipScreenOffAnimation, in the shape of a cancel.                  *)

ForceSkipScreenOffAnimation(s) ==
  /\ notifyMutex = None /\ notifyMutex' = s
  /\ Goto(s, "Idle", "SkipLocked")
  /\ UNCHANGED <<powerOnlyVars, needCancel, canceledSuspend, skipBlock,
                 offVars, onVars>>

SkipBeforeNotify(s) ==
  /\ canCancel
  /\ Goto(s, "SkipLocked", "Idle")
  /\ skipBlock' = TRUE
  /\ notifyMutex' = None
  /\ UNCHANGED <<powerOnlyVars, needCancel, canceledSuspend, offVars, onVars>>

SkipRead(s) ==
  /\ \/ ~canCancel /\ ~gotOff /\ Goto(s, "SkipLocked", "SkipNeed")
     \/ needOff /\ Goto(s, "SkipNeed", "SkipLate")
  /\ UNCHANGED <<powerOnlyVars, needCancel, canceledSuspend, skipBlock,
                 offVars, onVars, notifyMutex>>

SkipRefused(s) ==
  /\ \/ ~canCancel /\ gotOff /\ Goto(s, "SkipLocked", "Idle")
     \/ ~needOff /\ Goto(s, "SkipNeed", "Idle")
  /\ notifyMutex' = None
  /\ UNCHANGED <<powerOnlyVars, needCancel, canceledSuspend, skipBlock,
                 offVars, onVars>>

SkipAfterNotify(s) ==
  /\ NotifyAll(s, "SkipLate", "OffWait", "OffNotified")
  /\ needOff' = FALSE
  /\ notifyMutex' = None
  /\ UNCHANGED <<powerOnlyVars, needCancel, canceledSuspend, skipBlock,
                 gotOff, lockSuspend, fingerprint, onVars>>

SkipStep(s) ==
  \/ SkipBeforeNotify(s) \/ SkipRead(s) \/ SkipRefused(s)
  \/ SkipAfterNotify(s)

-----------------------------------------------------------------------------
(* NotifyDisplayEvent: the lock screen's answers.                          *)

lockUnchanged == <<powerOnlyVars, needCancel, canceledSuspend, skipBlock,
                   notifyMutex>>

KeyguardDrawn(k) ==
  /\ Goto(k, "Idle", "KeyguardCheck")
  /\ keyguardDrawn' = TRUE
  /\ UNCHANGED <<lockUnchanged, offVars, needOn>>

KeyguardCheck(k) ==
  /\ Goto(k, "KeyguardCheck", IF needOn THEN "KeyguardNotify" ELSE "Idle")
  /\ UNCHANGED <<lockUnchanged, offVars, onVars>>

KeyguardNotify(k) ==
  /\ NotifyAll(k, "KeyguardNotify", "OnWait", "OnNotified")
  /\ needOn' = FALSE
  /\ UNCHANGED <<lockUnchanged, offVars, keyguardDrawn>>

(* SCREEN_LOCK_SUSPEND sets the flag unless an external screen is          *)
(* connected, which is the environment's choice; SCREEN_LOCK_OFF clears    *)
(* it; SCREEN_LOCK_FINGERPRINT records the fingerprint;                    *)
(* SCREEN_LOCK_DOZE_FINISH does neither.                                   *)
ScreenLockEvent(k) ==
  /\ Goto(k, "Idle", "GotOff")
  /\ \/ lockSuspend' \in BOOLEAN /\ UNCHANGED fingerprint
     \/ fingerprint' = TRUE /\ UNCHANGED lockSuspend
  /\ UNCHANGED <<lockUnchanged, gotOff, needOff, onVars>>

SetGotScreenOff(k) ==
  /\ Goto(k, "GotOff", "OffNeed")
  /\ gotOff' = TRUE
  /\ UNCHANGED <<lockUnchanged, needOff, lockSuspend, fingerprint, onVars>>

WakeUpBlock(k) ==
  /\ Goto(k, "OffNeed", IF needOff THEN "OffNotify" ELSE "Idle")
  /\ UNCHANGED <<lockUnchanged, offVars, onVars>>

ScreenOffCVNotify(k) ==
  /\ NotifyAll(k, "OffNotify", "OffWait", "OffNotified")
  /\ needOff' = FALSE
  /\ UNCHANGED <<lockUnchanged, gotOff, lockSuspend, fingerprint, onVars>>

LockStep(k) ==
  \/ KeyguardCheck(k) \/ KeyguardNotify(k) \/ SetGotScreenOff(k)
  \/ WakeUpBlock(k) \/ ScreenOffCVNotify(k)

-----------------------------------------------------------------------------
Next ==
  \/ PowerCall
  \/ PowerStep
  \/ \E c \in Cancellers : TryToCancelScreenOff(c) \/ CancelStep(c)
  \/ \E s \in Skippers : ForceSkipScreenOffAnimation(s) \/ SkipStep(s)
  \/ \E k \in LockScreens : KeyguardDrawn(k) \/ ScreenLockEvent(k)
                              \/ LockStep(k)

Spec == Init /\ [][Next]_vars
(* Fairness.  Every call in progress is scheduled, and the two waits have  *)
(* a deadline (screenOffDelay_, screenOnDelay_), so their timeouts happen. *)
(* NotifyOff waits for notifyMutex_, which each of its other users leaves  *)
(* after a bounded number of steps: strong fairness is a mutex that lets a *)
(* waiting thread in, when it is free again and again.  Nothing makes a    *)
(* thread start a call.                                                    *)
Fairness ==
  /\ WF_vars(PowerStep)
  /\ SF_vars(NotifyOff)
  /\ \A c \in Cancellers : WF_vars(CancelStep(c))
  /\ \A s \in Skippers : WF_vars(SkipStep(s))
  /\ \A k \in LockScreens : WF_vars(LockStep(k))

FairSpec == Spec /\ Fairness

-----------------------------------------------------------------------------
(* Properties.                                                             *)

(* Every thread is at a point of its own code.                             *)
PcOK ==
  /\ pc \in [Threads -> PowerPc \cup CancelPc \cup SkipPc \cup LockPc]
  /\ pc[Power] \in PowerPc
  /\ \A c \in Cancellers : pc[c] \in CancelPc
  /\ \A s \in Skippers : pc[s] \in SkipPc
  /\ \A k \in LockScreens : pc[k] \in LockPc

(* Every variable has its type.                                            *)
TypeOK ==
  /\ transState \in TransitionState /\ isForceTrans \in BOOLEAN
  /\ displayState \in DisplayState /\ lastDisplayState \in DisplayState
  /\ screenDisplayState \in DisplayState
  /\ isSuspendBegin \in BOOLEAN /\ canCancel \in BOOLEAN
  /\ needCancel \in BOOLEAN /\ canceledSuspend \in BOOLEAN
  /\ skipBlock \in BOOLEAN
  /\ gotOff \in BOOLEAN /\ needOff \in BOOLEAN
  /\ lockSuspend \in BOOLEAN /\ fingerprint \in BOOLEAN
  /\ keyguardDrawn \in BOOLEAN /\ needOn \in BOOLEAN
  /\ collaboration \in BOOLEAN /\ authFailOff \in BOOLEAN
  /\ notifyMutex \in Clients \cup {None}
  /\ job \in Job
  /\ PcOK

(* notifyMutex_ makes accepting a cancel and closing the window one        *)
(* decision: an accepted cancel that has not taken effect is never left    *)
(* behind once NotifyOff has told the lock screen.                         *)
NeedCancelOnlyWhileCancellable == needCancel => canCancel

(* needScreenOffNotify_ stands only while the power thread is about to     *)
(* wait or waiting and not yet released: every way out of the wait takes   *)
(* the request back, so that no one else can believe it is blocked.        *)
NeedOffOnlyWhileBlocking ==
  needOff => pc[Power] \in {"OffEnter", "OffWait"}

(* When a screen-off was cancelled, the machine ends in SCREEN_ON whatever *)
(* row it came by, the controller is back in the display state it left,    *)
(* and, for OFF, so are the screens.                                       *)
CancelRestores ==
  pc[Power] = "HandleExit" /\ job.cancelled =>
    /\ transState = "SCREEN_ON" /\ isForceTrans
    /\ displayState = job.last
    /\ job.arg = "OFF" => screenDisplayState = lastDisplayState

(* A screen-off, or a screen-on, that has begun returns: whatever the lock *)
(* screen, the keyguard and the cancellers do or fail to do.               *)
SetDisplayStateReturns ==
  pc[Power] = "DoSetDisplayState" ~> pc[Power] = "Idle"

(* The handshake keeps the promises of ScreenOff: the announced off is the *)
(* one the lock screen was told of and that OffResolve has not decided.    *)
Announced == { "WaitScreenOff", "OffUnblocked", "OffResolve" } \cup BlockOffPc

Promise == INSTANCE ScreenOff WITH
  DisplayStates <- DisplayState,
  OffStates <- { "OFF", "DOZE", "ON_SUSPEND" },
  window <- IF needCancel THEN "accepted"
            ELSE IF canCancel THEN "open" ELSE "closed",
  announced <- pc[Power] \in Announced,
  display <- IF pc[Power] \in Announced \cup {"NotifyOff"}
               THEN job.last ELSE displayState

KeepsPromise == Promise!Spec
=============================================================================
