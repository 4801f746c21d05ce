----------------------- MODULE ScreenOffHandshakeProofs -----------------------
(***************************************************************************)
(* Theorems about ScreenOffHandshake, for any number of cancelling,        *)
(* skipping and lock screen threads and any reasons and requests.  The     *)
(* last part bounds the steps of a call and shows that none is stuck.      *)
(***************************************************************************)
EXTENDS ScreenOffHandshake, Naturals, TLAPS

-----------------------------------------------------------------------------
(* The transition table.                                                   *)

(* The events the power service's calls post.                              *)
PowerServiceEvent ==
  { "SUSPEND_BEGIN", "SUSPEND_BEGIN_PRE_BRIGHT", "WAKEUP_BEGIN",
    "WAKEUP_BEGIN_PRE_BRIGHT", "WAKEUP_BEGIN_ADVANCED", "SET_DISPLAY_STATE",
    "SET_DISPLAY_STATE_DOZE", "SET_DISPLAY_STATE_DOZE_SUSPEND",
    "SET_SCREEN_POWER_FOR_ALL_POWER_ON",
    "SET_SCREEN_POWER_FOR_ALL_POWER_OFF" }

(* A set of rows is sound when it stays inside the machine's states and    *)
(* gives the power service's events to the handlers modelled here.         *)
Sound(rows) ==
  \A r \in rows :
    /\ r.state \in TransitionState /\ r.target \in TransitionState
    /\ r.event \in PowerServiceEvent => r.action \in HandlerPc

(* Each part of the table InitStateMachineTbl builds is sound.             *)
LEMMA TableSound == Sound(Transitions)
<1>. USE DEF Sound, Rows, RowsT, PowerServiceEvent, TransitionState, HandlerPc
<1>1. Sound(FoldRows) BY DEF FoldRows
<1>2. Sound(InitRows) BY DEF InitRows
<1>3. Sound(OffRows) BY DEF OffRows, WakeUps, Suspends
<1>4. Sound(WaitOnRows) BY DEF WaitOnRows
<1>5. Sound(OnRows) BY DEF OnRows, WakeUps, Suspends
<1>6. Sound(WaitLockScreenRows) BY DEF WaitLockScreenRows
<1>7. Sound(WaitCtrlRows) BY DEF WaitCtrlRows, WakeUps
<1>8. Sound(AodRows) BY DEF AodRows, WakeUps
<1>9. Sound(AdvancedOnRows) BY DEF AdvancedOnRows, WakeUps, Suspends
<1>10. Sound(DozeRows) BY DEF DozeRows, WakeUps
<1>11. Sound(ApDozeRows) BY DEF ApDozeRows
<1>. HIDE DEF Sound
<1>12. \A R1 \in {FoldRows, InitRows, OffRows, WaitOnRows, OnRows,
                   WaitLockScreenRows, WaitCtrlRows, AodRows, AdvancedOnRows,
                   DozeRows, ApDozeRows} : Sound(R1)
  BY <1>1, <1>2, <1>3, <1>4, <1>5, <1>6, <1>7, <1>8, <1>9, <1>10, <1>11
<1>. QED BY <1>12 DEF Transitions, Sound

(* So a call of the power service finds, in whatever state, a handler that *)
(* the model runs, and a target that is a state.                           *)
LEMMA PowerServiceRow ==
  ASSUME NEW s, NEW e \in PowerServiceEvent, NEW r \in GetTransition(s, e)
  PROVE  r.state \in TransitionState /\ r.target \in TransitionState
         /\ r.action \in HandlerPc
BY TableSound DEF Sound, GetTransition

(* Every panel status the power service can ask for has a state.           *)
LEMMA StatusTyped ==
  ASSUME NEW state \in PowerState, NEW reason \in PowerStateChangeReason
  PROVE  GetPowerStatus(state, reason) \in PowerStatus
BY DEF GetPowerStatus, PowerState, PowerStatus

LEMMA ScreenStateTyped ==
  ASSUME NEW status \in PowerStatus
  PROVE  ConvertPowerStatus2ScreenState(status, FALSE) \in TransitionState
BY DEF ConvertPowerStatus2ScreenState, PowerStatus, TransitionState

-----------------------------------------------------------------------------
(* Type correctness.                                                       *)

LEMMA PcInit == pc = [t \in Threads |-> "Idle"] => PcOK
BY DEF PcOK, Threads, Clients, PowerPc, CancelPc, SkipPc, LockPc

LEMMA NoJobTyped == NoJob \in Job
BY DEF NoJob, Job, TransitionState, DisplayState, RequestedState,
       PowerStateChangeReason, PowerStatus

(* The power thread, and only it, moves to a point of its own.             *)
LEMMA PcPower ==
  ASSUME PcOK, NEW to \in PowerPc, pc' = [pc EXCEPT ![Power] = to]
  PROVE  PcOK'
BY ThreadsAssumption DEF PcOK, Threads, Clients

(* A thread t other than the power thread moves.                           *)
LEMMA PcClient ==
  ASSUME PcOK, NEW t \in Clients, NEW to, pc' = [pc EXCEPT ![t] = to],
         t \in Cancellers => to \in CancelPc,
         t \in Skippers => to \in SkipPc,
         t \in LockScreens => to \in LockPc
  PROVE  PcOK' /\ pc'[Power] = pc[Power]
BY ThreadsAssumption DEF PcOK, Threads, Clients

(* A thread t returns to "Idle" and wakes the power thread.                *)
LEMMA PcNotify ==
  ASSUME PcOK, NEW t \in Clients, NEW from, NEW waiting, NEW woken \in PowerPc,
         NotifyAll(t, from, waiting, woken)
  PROVE  /\ PcOK'
         /\ pc'[Power] = IF pc[Power] = waiting THEN woken ELSE pc[Power]
BY ThreadsAssumption
   DEF PcOK, NotifyAll, Threads, Clients, CancelPc, SkipPc, LockPc

LEMMA TypeInit == Init => TypeOK
<1>. SUFFICES ASSUME Init PROVE TypeOK
  OBVIOUS
<1>1. PcOK
  BY PcInit DEF Init
<1>2. job \in Job
  BY NoJobTyped DEF Init
<1>. QED
  BY <1>1, <1>2 DEF Init, TypeOK, TransitionState, DisplayState, RequestedState

(* What a call of the power service does: it enters a handler, with a job  *)
(* in which nothing is cancelled; the end of a collaboration aside.        *)
EntersHandler ==
  /\ pc[Power] = "Idle"
  /\ \E h \in HandlerPc : pc' = [pc EXCEPT ![Power] = h]
  /\ job' \in Job /\ ~job'.cancelled
  /\ UNCHANGED <<fsmVars, displayVars, cancelVars, offVars, onVars, modeVars,
                 notifyMutex>>

LEMMA CallShape ==
  ASSUME TypeOK, PowerCall
  PROVE  EntersHandler \/ WakeUpOrSuspendEnd
<1>1. ASSUME NEW event \in PowerServiceEvent, NEW call \in Job,
             ~call.cancelled, HandlePowerStateChange(event, call)
      PROVE  EntersHandler
  <2>1. PICK r \in GetTransition(transState, event) :
          /\ pc' = [pc EXCEPT ![Power] = r.action]
          /\ job' = [call EXCEPT !.from = r.state, !.target = r.target,
                                 !.inFsm = TRUE]
    BY <1>1 DEF HandlePowerStateChange
  <2>2. r.state \in TransitionState /\ r.target \in TransitionState
        /\ r.action \in HandlerPc
    BY PowerServiceRow
  <2>3. job' \in Job /\ ~job'.cancelled
    BY <1>1, <2>1, <2>2 DEF Job
  <2>. QED BY <1>1, <2>1, <2>2, <2>3 DEF HandlePowerStateChange, EntersHandler
<1>2. ASSUME NEW reason \in Reasons, SuspendBegin(reason)
      PROVE  EntersHandler
  <2>. DEFINE call == [NoJob EXCEPT !.reason = reason]
  <2>1. call \in Job /\ ~call.cancelled
    BY NoJobTyped, RequestsAssumption DEF Job, NoJob
  <2>. QED BY <1>1, <1>2, <2>1 DEF SuspendBegin, PowerServiceEvent
<1>3. ASSUME NEW reason \in Reasons, WakeUpBegin(reason)
      PROVE  EntersHandler
  <2>. DEFINE call == [NoJob EXCEPT !.reason = reason]
  <2>1. call \in Job /\ ~call.cancelled
    BY NoJobTyped, RequestsAssumption DEF Job, NoJob
  <2>. QED BY <1>1, <1>3, <2>1, Zenon DEF WakeUpBegin, PowerServiceEvent
<1>4. ASSUME NEW state \in DisplayRequests, SetDisplayState(state)
      PROVE  EntersHandler
  <2>. DEFINE call == [NoJob EXCEPT !.arg = state]
  <2>1. call \in Job /\ ~call.cancelled
    BY NoJobTyped, RequestsAssumption DEF Job, NoJob, DisplayState
  <2>2. DisplayStateEvent(state) \in PowerServiceEvent
    BY DEF DisplayStateEvent, PowerServiceEvent
  <2>. QED BY <1>1, <1>4, <2>1, <2>2 DEF SetDisplayState
<1>5. ASSUME NEW state \in PowerRequests, NEW reason \in Reasons,
             SetScreenPowerForAll(state, reason)
      PROVE  EntersHandler
  <2>. DEFINE call == [NoJob EXCEPT !.reason = reason,
                                    !.status = GetPowerStatus(state, reason)]
  <2>1. call \in Job /\ ~call.cancelled
    BY NoJobTyped, RequestsAssumption, StatusTyped DEF Job, NoJob
  <2>2. CASE HandlePowerStateChange("SET_SCREEN_POWER_FOR_ALL_POWER_ON", call)
    BY <2>2, <2>1, <1>1 DEF PowerServiceEvent
  <2>3. CASE HandlePowerStateChange("SET_SCREEN_POWER_FOR_ALL_POWER_OFF", call)
    BY <2>3, <2>1, <1>1 DEF PowerServiceEvent
  <2>4. CASE /\ PowerGoto("Idle", "DoSetScreenPowerForAll")
             /\ job' = call
             /\ UNCHANGED <<fsmVars, displayVars, cancelVars, offVars, onVars,
                            modeVars, notifyMutex>>
    BY <2>4, <2>1 DEF EntersHandler, PowerGoto, HandlerPc
  <2>. QED BY <1>5, <2>2, <2>3, <2>4 DEF SetScreenPowerForAll
<1>. QED BY <1>2, <1>3, <1>4, <1>5 DEF PowerCall

LEMMA TypeCall == TypeOK /\ PowerCall => TypeOK'
<1>. SUFFICES ASSUME TypeOK, PowerCall PROVE TypeOK'
  OBVIOUS
<1>. USE DEF fsmVars, displayVars, cancelVars, offVars, onVars, modeVars
<1>1. CASE EntersHandler
  <2>1. PcOK'
    BY <1>1, PcPower DEF EntersHandler, TypeOK, PowerPc
  <2>. QED BY <1>1, <2>1 DEF EntersHandler, TypeOK
<1>2. CASE WakeUpOrSuspendEnd
  <2>1. PcOK'
    BY <1>2 DEF WakeUpOrSuspendEnd, TypeOK, PcOK
  <2>2. collaboration' \in BOOLEAN
    BY <1>2 DEF WakeUpOrSuspendEnd
  <2>. QED BY <1>2, <2>1, <2>2 DEF WakeUpOrSuspendEnd, TypeOK
<1>. QED BY <1>1, <1>2, CallShape

(* A step of a power call leaves every other thread where it is.           *)
LEMMA PowerStepPc ==
  ASSUME PowerStep
  PROVE  \E to \in PowerPc : pc' = [pc EXCEPT ![Power] = to]
<1>. USE DEF PowerGoto, PowerPc, HandlerPc, BlockOffPc, BlockOnPc
<1>1. CASE HandleExit \/ DoRecordTransNormal \/ DoWakeUpBegin
           \/ DoSuspendBegin \/ DoSuspendBeginReset \/ DoSuspendBeginNotify
  BY <1>1 DEF HandleExit, DoRecordTransNormal, DoWakeUpBegin, DoSuspendBegin,
              DoSuspendBeginReset, DoSuspendBeginNotify
<1>2. CASE DoSetDisplayState
  <2>. DEFINE to == CASE job.arg = "ON" /\ ~collaboration -> "OnCheck"
                      [] job.arg \in {"OFF", "DOZE"} /\ ~collaboration ->
                           "NotifyOff"
                      [] OTHER -> "DisplayStateSet"
  <2>1. to \in {"OnCheck", "NotifyOff", "DisplayStateSet"}
    BY Zenon
  <2>2. pc' = [pc EXCEPT ![Power] = to]
    BY <1>2 DEF DoSetDisplayState
  <2>. HIDE DEF to
  <2>. QED BY <2>1, <2>2
<1>3. CASE NotifyOff
  BY <1>3 DEF NotifyOff
<1>4. CASE WaitScreenOffNotify \/ OffUnblocked \/ OffResolve
  BY <1>4 DEF WaitScreenOffNotify, OffUnblocked, OffResolve
<1>5. CASE OffCheck \/ OffArm \/ OffEnter \/ OffWake \/ OffTimeout
  BY <1>5 DEF OffCheck, OffArm, OffEnter, OffWake, OffTimeout
<1>6. CASE DisplayStateSet \/ OnCheck \/ OnArm \/ OnEnter \/ OnWake \/ OnTimeout
  BY <1>6 DEF DisplayStateSet, OnCheck, OnArm, OnEnter, OnWake, OnTimeout
<1>7. CASE DoSetScreenPowerForAll \/ SetScreenPower \/ ClearFingerprint
  BY <1>7 DEF DoSetScreenPowerForAll, SetScreenPower, ClearFingerprint,
              AfterSetScreenPower
<1>. QED BY <1>1, <1>2, <1>3, <1>4, <1>5, <1>6, <1>7 DEF PowerStep

LEMMA TypePower == TypeOK /\ PowerStep => TypeOK'
<1>. SUFFICES ASSUME TypeOK, PowerStep PROVE TypeOK'
  OBVIOUS
<1>. USE DEF fsmVars, displayVars, cancelVars, offVars, onVars, modeVars
<1>1. PcOK'
  BY PowerStepPc, PcPower DEF TypeOK
<1>2. CASE HandleExit
  <2>1. transState' \in TransitionState
    BY <1>2 DEF HandleExit, TypeOK, Job
  <2>2. isForceTrans' \in BOOLEAN /\ job' \in Job
    BY <1>2, NoJobTyped DEF HandleExit
  <2>. QED BY <1>1, <1>2, <2>1, <2>2 DEF HandleExit, TypeOK
<1>3. CASE DoRecordTransNormal
  BY <1>1, <1>3 DEF DoRecordTransNormal, TypeOK
<1>4. CASE DoWakeUpBegin
  <2>1. collaboration' \in BOOLEAN /\ authFailOff' \in BOOLEAN
    BY <1>4 DEF DoWakeUpBegin, TypeOK
  <2>. QED BY <1>1, <1>4, <2>1 DEF DoWakeUpBegin, TypeOK
<1>5. CASE DoSuspendBegin
  <2>1. fingerprint' \in BOOLEAN /\ authFailOff' \in BOOLEAN
    BY <1>5 DEF DoSuspendBegin
  <2>. QED BY <1>1, <1>5, <2>1 DEF DoSuspendBegin, TypeOK
<1>6. CASE DoSuspendBeginReset
  <2>1. /\ gotOff' \in BOOLEAN /\ isSuspendBegin' \in BOOLEAN
        /\ collaboration' \in BOOLEAN
    BY <1>6 DEF DoSuspendBeginReset
  <2>. QED BY <1>1, <1>6, <2>1 DEF DoSuspendBeginReset, TypeOK
<1>7. CASE DoSuspendBeginNotify
  <2>1. canCancel' \in BOOLEAN
    BY <1>7 DEF DoSuspendBeginNotify
  <2>. QED BY <1>1, <1>7, <2>1 DEF DoSuspendBeginNotify, TypeOK
<1>8. CASE DoSetDisplayState
  <2>1. job.arg \in DisplayState /\ job' \in Job
    BY <1>8 DEF DoSetDisplayState, TypeOK, Job
  <2>2. screenDisplayState' \in DisplayState /\ displayState' \in DisplayState
    BY <1>8, <2>1 DEF DoSetDisplayState, TypeOK
  <2>. QED BY <1>1, <1>8, <2>1, <2>2 DEF DoSetDisplayState, TypeOK
<1>9. CASE NotifyOff
  <2>1. job' \in Job /\ displayState' \in DisplayState
    BY <1>9 DEF NotifyOff, TypeOK, Job
  <2>2. transState' \in TransitionState /\ isForceTrans' \in BOOLEAN
    BY <1>9 DEF NotifyOff, ToTransition, TypeOK, TransitionState
  <2>3. canCancel' \in BOOLEAN /\ needCancel' \in BOOLEAN
    BY <1>9 DEF NotifyOff
  <2>4. UNCHANGED <<lastDisplayState, screenDisplayState, isSuspendBegin,
                  canceledSuspend, skipBlock, offVars, onVars, modeVars, notifyMutex>>
    BY <1>9 DEF NotifyOff
  <2>. QED BY <1>1, <2>1, <2>2, <2>3, <2>4 DEF TypeOK
<1>10. CASE OffResolve
  <2>1. job' \in Job /\ displayState' \in DisplayState
    BY <1>10 DEF OffResolve, TypeOK, Job
  <2>2. transState' \in TransitionState /\ isForceTrans' \in BOOLEAN
    BY <1>10 DEF OffResolve, ToTransition, TypeOK, TransitionState
  <2>3. isSuspendBegin' \in BOOLEAN /\ canceledSuspend' \in BOOLEAN
    BY <1>10 DEF OffResolve
  <2>4. UNCHANGED <<lastDisplayState, screenDisplayState, canCancel, needCancel,
                  skipBlock, offVars, onVars, modeVars, notifyMutex>>
    BY <1>10 DEF OffResolve
  <2>. QED BY <1>1, <2>1, <2>2, <2>3, <2>4 DEF TypeOK
<1>11. CASE WaitScreenOffNotify \/ OffCheck \/ OffEnter \/ OffWake
  BY <1>1, <1>11
     DEF TypeOK, WaitScreenOffNotify, OffCheck, OffEnter, OffWake
<1>12. CASE OffArm \/ OffTimeout
  <2>1. needOff' \in BOOLEAN /\ lockSuspend' \in BOOLEAN
    BY <1>12 DEF OffArm, OffTimeout, TypeOK
  <2>. QED BY <1>1, <1>12, <2>1 DEF OffArm, OffTimeout, TypeOK
<1>13. CASE OffUnblocked
  <2>1. skipBlock' \in BOOLEAN /\ displayState' \in DisplayState
    BY <1>13 DEF OffUnblocked, TypeOK, DisplayState
  <2>. QED BY <1>1, <1>13, <2>1 DEF OffUnblocked, TypeOK
<1>14. CASE DisplayStateSet
  <2>1. lastDisplayState' \in DisplayState /\ screenDisplayState' \in DisplayState
    BY <1>14 DEF DisplayStateSet, TypeOK, Job
  <2>. QED BY <1>1, <1>14, <2>1 DEF DisplayStateSet, TypeOK
<1>15. CASE OnCheck \/ OnEnter \/ OnWake \/ OnTimeout
  BY <1>1, <1>15 DEF TypeOK, OnCheck, OnEnter, OnWake, OnTimeout
<1>16. CASE OnArm
  <2>1. needOn' \in BOOLEAN
    BY <1>16 DEF OnArm
  <2>. QED BY <1>1, <1>16, <2>1 DEF OnArm, TypeOK
<1>17. CASE DoSetScreenPowerForAll
  <2>1. gotOff' \in BOOLEAN /\ keyguardDrawn' \in BOOLEAN
    BY <1>17 DEF DoSetScreenPowerForAll
  <2>. QED BY <1>1, <1>17, <2>1 DEF DoSetScreenPowerForAll, TypeOK
<1>18. CASE SetScreenPower
  <2>1. ConvertPowerStatus2ScreenState(job.status, FALSE) \in TransitionState
    BY ScreenStateTyped DEF TypeOK, Job
  <2>2. transState' \in TransitionState /\ isForceTrans' \in BOOLEAN
    BY <1>18, <2>1 DEF SetScreenPower, ToTransition, TransitionState
  <2>3. fingerprint' \in BOOLEAN /\ job' \in Job
    BY <1>18, NoJobTyped DEF SetScreenPower, TypeOK
  <2>. QED BY <1>1, <1>18, <2>2, <2>3 DEF SetScreenPower, TypeOK
<1>19. CASE ClearFingerprint
  <2>1. fingerprint' \in BOOLEAN /\ job' \in Job
    BY <1>19, NoJobTyped DEF ClearFingerprint, TypeOK
  <2>. QED BY <1>1, <1>19, <2>1 DEF ClearFingerprint, TypeOK
<1>. QED
  BY <1>2, <1>3, <1>4, <1>5, <1>6, <1>7, <1>8, <1>9, <1>10, <1>11, <1>12,
     <1>13, <1>14, <1>15, <1>16, <1>17, <1>18, <1>19
     DEF PowerStep

LEMMA TypeCancel ==
  ASSUME TypeOK, NEW c \in Cancellers, TryToCancelScreenOff(c) \/ CancelStep(c)
  PROVE  TypeOK' /\ (CancelAfterNotify(c) \/ pc'[Power] = pc[Power])
<1>. USE DEF powerOnlyVars, fsmVars, displayVars, cancelVars, offVars, onVars,
             modeVars
<1>. c \in Clients /\ c \notin Skippers /\ c \notin LockScreens /\ PcOK
  BY ThreadsAssumption DEF Clients, TypeOK
<1>1. CASE CancelAfterNotify(c)
  <2>1. PcOK'
    BY <1>1, PcNotify DEF CancelAfterNotify, PowerPc, BlockOffPc
  <2>2. canceledSuspend' \in BOOLEAN /\ needOff' \in BOOLEAN
    BY <1>1 DEF CancelAfterNotify
  <2>. QED BY <1>1, <2>1, <2>2 DEF CancelAfterNotify, TypeOK
<1>2. CASE TryToCancelScreenOff(c) \/ CancelReadGot(c) \/ CancelReadNeed(c)
           \/ CancelRefused(c)
  <2>1. PcOK' /\ pc'[Power] = pc[Power]
    BY <1>2, PcClient
       DEF TryToCancelScreenOff, CancelReadGot, CancelReadNeed, CancelRefused,
           Goto, CancelPc
  <2>. QED
    BY <1>2, <2>1 DEF TryToCancelScreenOff, CancelReadGot, CancelReadNeed,
                      CancelRefused, TypeOK
<1>3. CASE CancelBeforeNotify(c)
  <2>1. PcOK' /\ pc'[Power] = pc[Power]
    BY <1>3, PcClient DEF CancelBeforeNotify, Goto, CancelPc
  <2>2. needCancel' \in BOOLEAN
    BY <1>3 DEF CancelBeforeNotify
  <2>. QED BY <1>3, <2>1, <2>2 DEF CancelBeforeNotify, TypeOK
<1>. QED BY <1>1, <1>2, <1>3 DEF CancelStep

LEMMA TypeSkip ==
  ASSUME TypeOK, NEW s \in Skippers,
         ForceSkipScreenOffAnimation(s) \/ SkipStep(s)
  PROVE  TypeOK' /\ (SkipAfterNotify(s) \/ pc'[Power] = pc[Power])
<1>. USE DEF powerOnlyVars, fsmVars, displayVars, cancelVars, offVars, onVars,
             modeVars
<1>. s \in Clients /\ s \notin Cancellers /\ s \notin LockScreens /\ PcOK
  BY ThreadsAssumption DEF Clients, TypeOK
<1>1. CASE SkipAfterNotify(s)
  <2>1. PcOK'
    BY <1>1, PcNotify DEF SkipAfterNotify, PowerPc, BlockOffPc
  <2>2. needOff' \in BOOLEAN
    BY <1>1 DEF SkipAfterNotify
  <2>. QED BY <1>1, <2>1, <2>2 DEF SkipAfterNotify, TypeOK
<1>2. CASE ForceSkipScreenOffAnimation(s) \/ SkipRead(s) \/ SkipRefused(s)
  <2>1. PcOK' /\ pc'[Power] = pc[Power]
    BY <1>2, PcClient
       DEF ForceSkipScreenOffAnimation, SkipRead, SkipRefused, Goto, SkipPc
  <2>. QED
    BY <1>2, <2>1
       DEF ForceSkipScreenOffAnimation, SkipRead, SkipRefused, TypeOK
<1>3. CASE SkipBeforeNotify(s)
  <2>1. PcOK' /\ pc'[Power] = pc[Power]
    BY <1>3, PcClient DEF SkipBeforeNotify, Goto, SkipPc
  <2>2. skipBlock' \in BOOLEAN
    BY <1>3 DEF SkipBeforeNotify
  <2>. QED BY <1>3, <2>1, <2>2 DEF SkipBeforeNotify, TypeOK
<1>. QED BY <1>1, <1>2, <1>3 DEF SkipStep

LEMMA TypeLock ==
  ASSUME TypeOK, NEW k \in LockScreens,
         KeyguardDrawn(k) \/ ScreenLockEvent(k) \/ LockStep(k)
  PROVE  TypeOK' /\ (\/ KeyguardNotify(k) \/ ScreenOffCVNotify(k)
                     \/ pc'[Power] = pc[Power])
<1>. USE DEF lockUnchanged, powerOnlyVars, fsmVars, displayVars, cancelVars,
             offVars, onVars, modeVars
<1>. k \in Clients /\ k \notin Cancellers /\ k \notin Skippers /\ PcOK
  BY ThreadsAssumption DEF Clients, TypeOK
<1>1. CASE KeyguardNotify(k)
  <2>1. PcOK'
    BY <1>1, PcNotify DEF KeyguardNotify, PowerPc, BlockOnPc
  <2>2. needOn' \in BOOLEAN
    BY <1>1 DEF KeyguardNotify
  <2>. QED BY <1>1, <2>1, <2>2 DEF KeyguardNotify, TypeOK
<1>2. CASE ScreenOffCVNotify(k)
  <2>1. PcOK'
    BY <1>2, PcNotify DEF ScreenOffCVNotify, PowerPc, BlockOffPc
  <2>2. needOff' \in BOOLEAN
    BY <1>2 DEF ScreenOffCVNotify
  <2>. QED BY <1>2, <2>1, <2>2 DEF ScreenOffCVNotify, TypeOK
<1>3. CASE KeyguardCheck(k) \/ WakeUpBlock(k)
  <2>1. PcOK' /\ pc'[Power] = pc[Power]
    BY <1>3, PcClient DEF KeyguardCheck, WakeUpBlock, Goto, LockPc
  <2>. QED BY <1>3, <2>1 DEF KeyguardCheck, WakeUpBlock, TypeOK
<1>4. CASE KeyguardDrawn(k) \/ SetGotScreenOff(k)
  <2>1. PcOK' /\ pc'[Power] = pc[Power]
    BY <1>4, PcClient DEF KeyguardDrawn, SetGotScreenOff, Goto, LockPc
  <2>2. keyguardDrawn' \in BOOLEAN /\ gotOff' \in BOOLEAN
    BY <1>4 DEF KeyguardDrawn, SetGotScreenOff, TypeOK
  <2>. QED BY <1>4, <2>1, <2>2 DEF KeyguardDrawn, SetGotScreenOff, TypeOK
<1>5. CASE ScreenLockEvent(k)
  <2>1. PcOK' /\ pc'[Power] = pc[Power]
    BY <1>5, PcClient DEF ScreenLockEvent, Goto, LockPc
  <2>2. lockSuspend' \in BOOLEAN /\ fingerprint' \in BOOLEAN
    BY <1>5 DEF ScreenLockEvent, TypeOK
  <2>. QED BY <1>5, <2>1, <2>2 DEF ScreenLockEvent, TypeOK
<1>. QED BY <1>1, <1>2, <1>3, <1>4, <1>5 DEF LockStep

LEMMA TypeNext == TypeOK /\ [Next]_vars => TypeOK'
<1>. SUFFICES ASSUME TypeOK, [Next]_vars PROVE TypeOK'
  OBVIOUS
<1>1. CASE UNCHANGED vars
  BY <1>1 DEF vars, fsmVars, displayVars, cancelVars, offVars, onVars,
              modeVars, TypeOK, PcOK
<1>. QED
  BY <1>1, TypeCall, TypePower, TypeCancel, TypeSkip, TypeLock DEF Next

(* Every variable keeps its type, for any number of threads.               *)
THEOREM TypeCorrect == Spec => []TypeOK
<1>. QED BY TypeInit, TypeNext, PTL DEF Spec

-----------------------------------------------------------------------------
(* The inductive invariant.  Beyond the properties themselves it follows a *)
(* screen-off through its handlers: what was cancelled, and in which       *)
(* display state it is meanwhile.                                          *)

OffPc == Announced \cup {"NotifyOff"}

CancelledJob ==
  job.cancelled =>
    /\ pc[Power] \in {"DisplayStateSet", "HandleExit"}
    /\ transState = "SCREEN_ON" /\ isForceTrans
    /\ displayState = job.last

CancelledOff ==
  job.cancelled /\ job.arg = "OFF" /\ pc[Power] = "HandleExit" =>
    screenDisplayState = lastDisplayState

OffInProgress ==
  pc[Power] \in OffPc => displayState \in {"OFF", "DOZE", "ON_SUSPEND"}

HandshakeInv ==
  /\ TypeOK
  /\ NeedCancelOnlyWhileCancellable
  /\ NeedOffOnlyWhileBlocking
  /\ CancelledJob
  /\ CancelledOff
  /\ OffInProgress

(* Where an update of the power thread's pc leaves it.                     *)
LEMMA PowerAt ==
  ASSUME PcOK, NEW to, pc' = [pc EXCEPT ![Power] = to]
  PROVE  pc'[Power] = to
BY DEF PcOK, Threads

LEMMA PowerGotoAt ==
  ASSUME PcOK, NEW from, NEW to, PowerGoto(from, to)
  PROVE  pc[Power] = from /\ pc'[Power] = to
BY DEF PcOK, Threads, PowerGoto

LEMMA InvInit == Init => HandshakeInv
<1>. SUFFICES ASSUME Init PROVE HandshakeInv
  OBVIOUS
<1>1. TypeOK
  BY TypeInit
<1>2. pc[Power] = "Idle" /\ ~job.cancelled /\ ~needCancel /\ ~needOff
  BY DEF Init, Threads, NoJob
<1>. QED
  BY <1>1, <1>2
     DEF HandshakeInv, NeedCancelOnlyWhileCancellable, NeedOffOnlyWhileBlocking,
         CancelledJob, CancelledOff, OffInProgress, OffPc, Announced, BlockOffPc

(* A new call starts at the entry of a handler, with nothing cancelled.    *)
LEMMA InvCall == HandshakeInv /\ PowerCall => HandshakeInv'
<1>. SUFFICES ASSUME HandshakeInv, PowerCall PROVE HandshakeInv'
  OBVIOUS
<1>. USE DEF HandshakeInv
<1>. TypeOK'
  BY TypeCall
<1>1. CASE WakeUpOrSuspendEnd
  BY <1>1
     DEF WakeUpOrSuspendEnd, NeedCancelOnlyWhileCancellable,
         NeedOffOnlyWhileBlocking, CancelledJob, CancelledOff, OffInProgress,
         fsmVars, displayVars, cancelVars, offVars
<1>2. CASE EntersHandler
  <2>1. pc[Power] = "Idle" /\ pc'[Power] \in HandlerPc
    BY <1>2, PowerAt DEF EntersHandler, TypeOK
  <2>. QED
    BY <1>2, <2>1
       DEF EntersHandler, NeedCancelOnlyWhileCancellable,
           NeedOffOnlyWhileBlocking, CancelledJob, CancelledOff, OffInProgress,
           OffPc, Announced, BlockOffPc, HandlerPc, cancelVars, offVars
<1>. QED BY <1>1, <1>2, CallShape

(* The steps of a power call.                                              *)
LEMMA InvPower == HandshakeInv /\ PowerStep => HandshakeInv'
<1>. SUFFICES ASSUME HandshakeInv, PowerStep PROVE HandshakeInv'
  OBVIOUS
<1>. USE DEF HandshakeInv, NeedCancelOnlyWhileCancellable,
             NeedOffOnlyWhileBlocking, CancelledJob, CancelledOff,
             OffInProgress, OffPc, Announced, BlockOffPc,
             fsmVars, displayVars, cancelVars, offVars
<1>. TypeOK' /\ PcOK
  BY TypePower DEF TypeOK
<1>1. CASE HandleExit
  BY <1>1, PowerGotoAt DEF HandleExit, NoJob
<1>2. CASE DoRecordTransNormal \/ DoWakeUpBegin
  BY <1>2, PowerGotoAt DEF DoRecordTransNormal, DoWakeUpBegin
<1>3. CASE DoSuspendBegin \/ DoSuspendBeginReset
  BY <1>3, PowerGotoAt DEF DoSuspendBegin, DoSuspendBeginReset
<1>4. CASE DoSetDisplayState
  <2>. DEFINE to == CASE job.arg = "ON" /\ ~collaboration -> "OnCheck"
                      [] job.arg \in {"OFF", "DOZE"} /\ ~collaboration ->
                           "NotifyOff"
                      [] OTHER -> "DisplayStateSet"
  <2>1. /\ to \in {"OnCheck", "NotifyOff", "DisplayStateSet"}
        /\ to = "NotifyOff" => job.arg \in {"OFF", "DOZE"}
    BY Zenon
  <2>2. pc[Power] = "DoSetDisplayState" /\ pc' = [pc EXCEPT ![Power] = to]
    BY <1>4 DEF DoSetDisplayState
  <2>. HIDE DEF to
  <2>3. pc'[Power] = to
    BY <2>2, PowerAt
  <2>4. ~job'.cancelled
    BY <1>4, <2>2 DEF DoSetDisplayState, TypeOK, Job
  <2>5. to = "NotifyOff" => displayState' \in {"OFF", "DOZE"}
    BY <1>4, <2>1 DEF DoSetDisplayState
  <2>. QED BY <1>4, <2>1, <2>2, <2>3, <2>4, <2>5 DEF DoSetDisplayState
<1>5. CASE NotifyOff
  BY <1>5, PowerGotoAt DEF NotifyOff, ToTransition, TypeOK, Job
<1>6. CASE WaitScreenOffNotify
  <2>1. PICK to \in {"OffResolve", "OffUnblocked", "OffCheck"} :
          pc' = [pc EXCEPT ![Power] = to]
    BY <1>6 DEF WaitScreenOffNotify
  <2>. QED BY <1>6, <2>1, PowerAt DEF WaitScreenOffNotify
<1>7. CASE OffCheck \/ OffArm \/ OffEnter \/ OffWake
  BY <1>7, PowerGotoAt DEF OffCheck, OffArm, OffEnter, OffWake
<1>8. CASE OffTimeout
  BY <1>8, PowerAt DEF OffTimeout
<1>9. CASE OffUnblocked
  BY <1>9, PowerGotoAt DEF OffUnblocked
<1>10. CASE OffResolve
  BY <1>10, PowerGotoAt DEF OffResolve, ToTransition, TypeOK, Job
<1>11. CASE DisplayStateSet
  BY <1>11, PowerGotoAt DEF DisplayStateSet
<1>12. CASE OnCheck \/ OnArm \/ OnEnter \/ OnWake \/ OnTimeout
  BY <1>12, PowerGotoAt DEF OnCheck, OnArm, OnEnter, OnWake, OnTimeout
<1>13. CASE DoSetScreenPowerForAll \/ ClearFingerprint
  BY <1>13, PowerGotoAt DEF DoSetScreenPowerForAll, ClearFingerprint,
     AfterSetScreenPower, NoJob
<1>14. CASE SetScreenPower
  <2>1. pc[Power] = "SetScreenPower"
        /\ pc'[Power] \in {"ClearFingerprint", "HandleExit", "Idle"}
    BY <1>14, PowerGotoAt DEF SetScreenPower, AfterSetScreenPower
  <2>2. ~job'.cancelled
    <3>1. ~job.cancelled
      BY <2>1
    <3>2. ~NoJob.cancelled
      BY DEF NoJob
    <3>3. job' = job \/ job' = NoJob
      BY <1>14 DEF SetScreenPower
    <3>. QED BY <3>1, <3>2, <3>3
  <2>. QED BY <1>14, <2>1, <2>2 DEF SetScreenPower
<1>15. CASE DoSuspendBeginNotify
  <2>1. pc[Power] = "SuspendNotify" /\ pc'[Power] = "HandleExit"
    BY <1>15, PowerGotoAt DEF DoSuspendBeginNotify
  <2>2. needCancel' => canCancel'
    BY <1>15 DEF DoSuspendBeginNotify
  <2>. QED BY <1>15, <2>1, <2>2 DEF DoSuspendBeginNotify
<1>. QED
  BY <1>1, <1>2, <1>3, <1>4, <1>5, <1>6, <1>7, <1>8, <1>9, <1>10, <1>11,
     <1>12, <1>13, <1>14, <1>15
     DEF PowerStep

(* The steps of the other threads.  They move the power thread only from   *)
(* one point of a wait to the next.                                        *)
LEMMA InvClient ==
  ASSUME HandshakeInv, TypeOK',
         UNCHANGED <<fsmVars, displayVars, canCancel, job>>,
         \/ pc'[Power] = pc[Power]
         \/ /\ pc'[Power] = IF pc[Power] = "OffWait" THEN "OffNotified"
                            ELSE pc[Power]
            /\ ~needOff'
         \/ pc'[Power] = IF pc[Power] = "OnWait" THEN "OnNotified"
                         ELSE pc[Power],
         needOff' => needOff,
         needCancel' => needCancel \/ canCancel
  PROVE  HandshakeInv'
BY DEF HandshakeInv, NeedCancelOnlyWhileCancellable, NeedOffOnlyWhileBlocking,
       CancelledJob, CancelledOff, OffInProgress, OffPc, Announced, BlockOffPc,
       fsmVars, displayVars

LEMMA InvCancel ==
  ASSUME HandshakeInv, NEW c \in Cancellers,
         TryToCancelScreenOff(c) \/ CancelStep(c)
  PROVE  HandshakeInv'
<1>. USE DEF powerOnlyVars, offVars
<1>. TypeOK' /\ PcOK /\ c \in Clients
     /\ (CancelAfterNotify(c) \/ pc'[Power] = pc[Power])
  BY TypeCancel DEF HandshakeInv, TypeOK, Clients
<1>1. CASE CancelAfterNotify(c)
  <2>1. pc'[Power] = IF pc[Power] = "OffWait" THEN "OffNotified"
                     ELSE pc[Power]
    BY <1>1, PcNotify DEF CancelAfterNotify, PowerPc, BlockOffPc
  <2>. QED BY <1>1, <2>1, InvClient DEF CancelAfterNotify
<1>2. CASE TryToCancelScreenOff(c) \/ CancelReadGot(c) \/ CancelReadNeed(c)
           \/ CancelRefused(c) \/ CancelBeforeNotify(c)
  <2>1. pc'[Power] = pc[Power] \/ CancelAfterNotify(c)
    OBVIOUS
  <2>. QED
    BY <1>1, <1>2, <2>1, InvClient
       DEF TryToCancelScreenOff, CancelReadGot, CancelReadNeed, CancelRefused,
           CancelBeforeNotify
<1>. QED BY <1>1, <1>2 DEF CancelStep

LEMMA InvSkip ==
  ASSUME HandshakeInv, NEW s \in Skippers,
         ForceSkipScreenOffAnimation(s) \/ SkipStep(s)
  PROVE  HandshakeInv'
<1>. USE DEF powerOnlyVars, offVars
<1>. TypeOK' /\ PcOK /\ s \in Clients
     /\ (SkipAfterNotify(s) \/ pc'[Power] = pc[Power])
  BY TypeSkip DEF HandshakeInv, TypeOK, Clients
<1>1. CASE SkipAfterNotify(s)
  <2>1. pc'[Power] = IF pc[Power] = "OffWait" THEN "OffNotified"
                     ELSE pc[Power]
    BY <1>1, PcNotify DEF SkipAfterNotify, PowerPc, BlockOffPc
  <2>. QED BY <1>1, <2>1, InvClient DEF SkipAfterNotify
<1>2. CASE ForceSkipScreenOffAnimation(s) \/ SkipRead(s) \/ SkipRefused(s)
           \/ SkipBeforeNotify(s)
  BY <1>1, <1>2, InvClient
     DEF ForceSkipScreenOffAnimation, SkipRead, SkipRefused, SkipBeforeNotify
<1>. QED BY <1>1, <1>2 DEF SkipStep

LEMMA InvLock ==
  ASSUME HandshakeInv, NEW k \in LockScreens,
         KeyguardDrawn(k) \/ ScreenLockEvent(k) \/ LockStep(k)
  PROVE  HandshakeInv'
<1>. USE DEF lockUnchanged, powerOnlyVars, offVars, onVars
<1>. TypeOK' /\ PcOK /\ k \in Clients
     /\ (\/ KeyguardNotify(k) \/ ScreenOffCVNotify(k)
         \/ pc'[Power] = pc[Power])
  BY TypeLock DEF HandshakeInv, TypeOK, Clients
<1>1. CASE KeyguardNotify(k)
  <2>1. pc'[Power] = IF pc[Power] = "OnWait" THEN "OnNotified" ELSE pc[Power]
    BY <1>1, PcNotify DEF KeyguardNotify, PowerPc, BlockOnPc
  <2>. QED BY <1>1, <2>1, InvClient DEF KeyguardNotify
<1>2. CASE ScreenOffCVNotify(k)
  <2>1. pc'[Power] = IF pc[Power] = "OffWait" THEN "OffNotified"
                     ELSE pc[Power]
    BY <1>2, PcNotify DEF ScreenOffCVNotify, PowerPc, BlockOffPc
  <2>. QED BY <1>2, <2>1, InvClient DEF ScreenOffCVNotify
<1>3. CASE KeyguardDrawn(k) \/ ScreenLockEvent(k) \/ KeyguardCheck(k)
           \/ SetGotScreenOff(k) \/ WakeUpBlock(k)
  BY <1>1, <1>2, <1>3, InvClient
     DEF KeyguardDrawn, ScreenLockEvent, KeyguardCheck, SetGotScreenOff,
         WakeUpBlock
<1>. QED BY <1>1, <1>2, <1>3 DEF LockStep

LEMMA InvStutter == HandshakeInv /\ UNCHANGED vars => HandshakeInv'
BY DEF vars, fsmVars, displayVars, cancelVars, offVars, onVars, modeVars,
       HandshakeInv, TypeOK, PcOK, NeedCancelOnlyWhileCancellable,
       NeedOffOnlyWhileBlocking, CancelledJob, CancelledOff, OffInProgress

LEMMA InvNext == HandshakeInv /\ [Next]_vars => HandshakeInv'
BY InvCall, InvPower, InvCancel, InvSkip, InvLock, InvStutter DEF Next

LEMMA Invariance == Spec => []HandshakeInv
<1>. QED BY InvInit, InvNext, PTL DEF Spec

(* An accepted cancel that has not taken effect is never left behind once  *)
(* the lock screen has been told of the off (notifyMutex_ in NotifyOff).   *)
THEOREM CancelDecidedUnderMutex == Spec => []NeedCancelOnlyWhileCancellable
<1>1. HandshakeInv => NeedCancelOnlyWhileCancellable
  BY DEF HandshakeInv
<1>. QED BY <1>1, Invariance, PTL

(* needScreenOffNotify_ is up only around the wait of BlockScreenOffByCV.  *)
THEOREM RequestOnlyWhileBlocking == Spec => []NeedOffOnlyWhileBlocking
<1>1. HandshakeInv => NeedOffOnlyWhileBlocking
  BY DEF HandshakeInv
<1>. QED BY <1>1, Invariance, PTL

(* A cancelled screen-off leaves the machine, the controller and, for OFF, *)
(* the screens as they were before it.                                     *)
THEOREM CancelRestoresAlways == Spec => []CancelRestores
<1>1. HandshakeInv => CancelRestores
  BY DEF HandshakeInv, CancelRestores, CancelledJob, CancelledOff
<1>. QED BY <1>1, Invariance, PTL

-----------------------------------------------------------------------------
(* The handshake implements ScreenOff.                                     *)

PromiseWindow == IF needCancel THEN "accepted"
                 ELSE IF canCancel THEN "open" ELSE "closed"
PromiseAnnounced == pc[Power] \in Announced
PromiseDisplay == IF pc[Power] \in OffPc THEN job.last ELSE displayState

(* A step after which nothing of the promise's state has changed.          *)
PromiseStutter ==
  UNCHANGED <<PromiseWindow, PromiseAnnounced, PromiseDisplay>>

LEMMA StutterMaps == PromiseStutter => [Promise!Next]_(Promise!vars)
BY DEF PromiseStutter, PromiseWindow, PromiseAnnounced, PromiseDisplay, OffPc,
       Promise!vars

LEMMA PromiseInit == Init => Promise!Init
BY DEF Init, Promise!Init, Announced, BlockOffPc, Threads, DisplayState

LEMMA PromiseCall ==
  HandshakeInv /\ PowerCall => [Promise!Next]_(Promise!vars)
<1>. SUFFICES ASSUME HandshakeInv, PowerCall PROVE PromiseStutter
  BY StutterMaps
<1>. USE DEF PromiseStutter, PromiseWindow, PromiseAnnounced, PromiseDisplay,
             OffPc, Announced, BlockOffPc, displayVars, cancelVars
<1>1. CASE EntersHandler
  <2>1. pc[Power] = "Idle" /\ pc'[Power] \in HandlerPc
    BY <1>1, PowerAt DEF EntersHandler, HandshakeInv, TypeOK
  <2>. QED BY <1>1, <2>1 DEF EntersHandler, HandlerPc
<1>2. CASE WakeUpOrSuspendEnd
  BY <1>2 DEF WakeUpOrSuspendEnd
<1>. QED BY <1>1, <1>2, CallShape DEF HandshakeInv

LEMMA PromisePower ==
  HandshakeInv /\ PowerStep => [Promise!Next]_(Promise!vars)
<1>. SUFFICES ASSUME HandshakeInv, PowerStep
              PROVE  [Promise!Next]_(Promise!vars)
  OBVIOUS
<1>. PcOK /\ TypeOK /\ TypeOK'
  BY TypePower DEF HandshakeInv, TypeOK
<1>. USE DEF Announced, BlockOffPc, OffPc, fsmVars, displayVars, cancelVars
<1>1. CASE \/ HandleExit \/ DoRecordTransNormal \/ DoWakeUpBegin
           \/ DoSuspendBegin \/ DoSuspendBeginReset
  <2>1. PromiseStutter
    BY <1>1, PowerGotoAt
       DEF HandleExit, DoRecordTransNormal, DoWakeUpBegin, DoSuspendBegin,
           DoSuspendBeginReset, PromiseStutter, PromiseWindow,
           PromiseAnnounced, PromiseDisplay
  <2>. QED BY <2>1, StutterMaps
<1>2. CASE DoSuspendBeginNotify
  <2>1. pc[Power] = "SuspendNotify" /\ pc'[Power] = "HandleExit"
    BY <1>2, PowerGotoAt DEF DoSuspendBeginNotify
  <2>2. /\ canCancel => canCancel'
        /\ UNCHANGED <<needCancel, displayState, job>>
    BY <1>2 DEF DoSuspendBeginNotify
  <2>3. CASE canCancel' /\ ~canCancel /\ ~needCancel
    BY <2>1, <2>2, <2>3 DEF Promise!Next, Promise!Open
  <2>4. CASE ~(canCancel' /\ ~canCancel /\ ~needCancel)
    BY <2>1, <2>2, <2>4, StutterMaps
       DEF PromiseStutter, PromiseWindow, PromiseAnnounced, PromiseDisplay
  <2>. QED BY <2>3, <2>4
<1>3. CASE DoSetDisplayState
  <2>. DEFINE to == CASE job.arg = "ON" /\ ~collaboration -> "OnCheck"
                      [] job.arg \in {"OFF", "DOZE"} /\ ~collaboration ->
                           "NotifyOff"
                      [] OTHER -> "DisplayStateSet"
  <2>1. to \in {"OnCheck", "NotifyOff", "DisplayStateSet"}
    BY Zenon
  <2>2. pc[Power] = "DoSetDisplayState" /\ pc' = [pc EXCEPT ![Power] = to]
    BY <1>3 DEF DoSetDisplayState
  <2>. HIDE DEF to
  <2>3. pc'[Power] = to
    BY <2>2, PowerAt
  <2>4. job'.last = displayState
    BY <1>3 DEF DoSetDisplayState, TypeOK, Job
  <2>5. UNCHANGED <<needCancel, canCancel>>
    BY <1>3 DEF DoSetDisplayState
  <2>6. CASE to = "NotifyOff"
    BY <2>2, <2>3, <2>4, <2>5, <2>6, StutterMaps
       DEF PromiseStutter, PromiseWindow, PromiseAnnounced, PromiseDisplay
  <2>7. CASE to # "NotifyOff"
    <3>1. displayState' \in DisplayState
      BY DEF TypeOK
    <3>. QED
      BY <2>1, <2>2, <2>3, <2>5, <2>7, <3>1
         DEF Promise!Next, Promise!SetDirectly
  <2>. QED BY <2>6, <2>7
<1>4. CASE NotifyOff
  <2>1. ~needCancel' /\ ~canCancel'
    BY <1>4 DEF NotifyOff
  <2>2. CASE needCancel
    <3>1. pc[Power] = "NotifyOff" /\ pc'[Power] = "DisplayStateSet"
      BY <1>4, <2>2, PowerGotoAt DEF NotifyOff
    <3>2. displayState' = job.last
      BY <1>4, <2>2 DEF NotifyOff
    <3>. QED
      BY <2>1, <2>2, <3>1, <3>2 DEF Promise!Next, Promise!CallOff
  <2>3. CASE ~needCancel
    <3>1. pc[Power] = "NotifyOff" /\ pc'[Power] = "WaitScreenOff"
      BY <1>4, <2>3, PowerGotoAt DEF NotifyOff
    <3>2. job' = job
      BY <1>4, <2>3 DEF NotifyOff
    <3>. QED
      BY <2>1, <2>3, <3>1, <3>2 DEF Promise!Next, Promise!Announce
  <2>. QED BY <2>2, <2>3
<1>5. CASE OffCheck \/ OffArm \/ OffEnter \/ OffWake \/ OffUnblocked
  <2>1. PromiseStutter
    BY <1>5, PowerGotoAt
       DEF OffCheck, OffArm, OffEnter, OffWake, OffUnblocked,
           PromiseStutter, PromiseWindow, PromiseAnnounced, PromiseDisplay
  <2>. QED BY <2>1, StutterMaps
<1>6. CASE OffTimeout \/ WaitScreenOffNotify
  <2>1. PICK to \in {"OffUnblocked", "OffResolve", "OffCheck"} :
          pc' = [pc EXCEPT ![Power] = to]
    BY <1>6 DEF OffTimeout, WaitScreenOffNotify
  <2>2. pc'[Power] = to
    BY <2>1, PowerAt
  <2>3. PromiseStutter
    BY <1>6, <2>1, <2>2
       DEF OffTimeout, WaitScreenOffNotify, PromiseStutter, PromiseWindow,
           PromiseAnnounced, PromiseDisplay
  <2>. QED BY <2>3, StutterMaps
<1>7. CASE OffResolve
  <2>1. pc[Power] = "OffResolve" /\ pc'[Power] = "DisplayStateSet"
    BY <1>7, PowerGotoAt DEF OffResolve
  <2>2. displayState \in {"OFF", "DOZE", "ON_SUSPEND"}
    BY <2>1 DEF HandshakeInv, OffInProgress
  <2>3. displayState' \in {displayState, job.last}
        /\ UNCHANGED <<needCancel, canCancel>>
    BY <1>7 DEF OffResolve
  <2>. QED
    BY <2>1, <2>2, <2>3 DEF Promise!Next, Promise!Decide
<1>8. CASE \/ DisplayStateSet \/ OnCheck \/ OnArm \/ OnEnter \/ OnWake
           \/ OnTimeout \/ DoSetScreenPowerForAll
  <2>1. PromiseStutter
    BY <1>8, PowerGotoAt
       DEF DisplayStateSet, OnCheck, OnArm, OnEnter, OnWake, OnTimeout,
           DoSetScreenPowerForAll, BlockOnPc,
           PromiseStutter, PromiseWindow, PromiseAnnounced, PromiseDisplay
  <2>. QED BY <2>1, StutterMaps
<1>9. CASE SetScreenPower \/ ClearFingerprint
  <2>1. /\ pc[Power] \in {"SetScreenPower", "ClearFingerprint"}
        /\ pc'[Power] \in {"ClearFingerprint", "HandleExit", "Idle"}
    BY <1>9, PowerGotoAt
       DEF SetScreenPower, ClearFingerprint, AfterSetScreenPower
  <2>2. UNCHANGED <<needCancel, canCancel, displayState>>
    BY <1>9 DEF SetScreenPower, ClearFingerprint
  <2>. QED
    BY <2>1, <2>2, StutterMaps
       DEF PromiseStutter, PromiseWindow, PromiseAnnounced, PromiseDisplay
<1>. QED
  BY <1>1, <1>2, <1>3, <1>4, <1>5, <1>6, <1>7, <1>8, <1>9 DEF PowerStep

(* The other threads only ever accept a cancel in an open window.          *)
LEMMA PromiseClient ==
  ASSUME HandshakeInv,
         UNCHANGED <<displayState, canCancel, job>>,
         \/ pc'[Power] = pc[Power]
         \/ pc'[Power] = IF pc[Power] = "OffWait" THEN "OffNotified"
                         ELSE pc[Power]
         \/ pc'[Power] = IF pc[Power] = "OnWait" THEN "OnNotified"
                         ELSE pc[Power],
         \/ needCancel' = needCancel
         \/ canCancel /\ needCancel'
  PROVE  [Promise!Next]_(Promise!vars)
<1>. USE DEF Announced, BlockOffPc, OffPc
<1>1. PromiseAnnounced' = PromiseAnnounced /\ PromiseDisplay' = PromiseDisplay
  BY DEF PromiseAnnounced, PromiseDisplay
<1>2. CASE PromiseWindow' = PromiseWindow
  BY <1>1, <1>2, StutterMaps DEF PromiseStutter
<1>3. CASE PromiseWindow' # PromiseWindow
  <2>1. canCancel /\ ~needCancel /\ needCancel'
    BY <1>3 DEF PromiseWindow
  <2>. QED
    BY <1>1, <2>1
       DEF Promise!Next, Promise!Accept, PromiseAnnounced, PromiseDisplay
<1>. QED BY <1>2, <1>3

LEMMA PromiseThreads ==
  ASSUME HandshakeInv,
         \/ \E c \in Cancellers : TryToCancelScreenOff(c) \/ CancelStep(c)
         \/ \E s \in Skippers : ForceSkipScreenOffAnimation(s) \/ SkipStep(s)
         \/ \E k \in LockScreens : KeyguardDrawn(k) \/ ScreenLockEvent(k)
                                     \/ LockStep(k)
  PROVE  [Promise!Next]_(Promise!vars)
<1>. TypeOK /\ PcOK
  BY DEF HandshakeInv, TypeOK
<1>. USE DEF lockUnchanged, powerOnlyVars, displayVars
<1>1. ASSUME NEW c \in Cancellers, TryToCancelScreenOff(c) \/ CancelStep(c)
      PROVE  [Promise!Next]_(Promise!vars)
  <2>1. c \in Clients /\ (CancelAfterNotify(c) \/ pc'[Power] = pc[Power])
    BY <1>1, TypeCancel DEF Clients
  <2>2. \/ pc'[Power] = pc[Power]
        \/ pc'[Power] = IF pc[Power] = "OffWait" THEN "OffNotified"
                        ELSE pc[Power]
    BY <2>1, PcNotify DEF CancelAfterNotify, PowerPc, BlockOffPc
  <2>. QED
    BY <1>1, <2>2, PromiseClient
       DEF TryToCancelScreenOff, CancelStep, CancelReadGot, CancelReadNeed,
           CancelRefused, CancelBeforeNotify, CancelAfterNotify
<1>2. ASSUME NEW s \in Skippers, ForceSkipScreenOffAnimation(s) \/ SkipStep(s)
      PROVE  [Promise!Next]_(Promise!vars)
  <2>1. s \in Clients /\ (SkipAfterNotify(s) \/ pc'[Power] = pc[Power])
    BY <1>2, TypeSkip DEF Clients
  <2>2. \/ pc'[Power] = pc[Power]
        \/ pc'[Power] = IF pc[Power] = "OffWait" THEN "OffNotified"
                        ELSE pc[Power]
    BY <2>1, PcNotify DEF SkipAfterNotify, PowerPc, BlockOffPc
  <2>. QED
    BY <1>2, <2>2, PromiseClient
       DEF ForceSkipScreenOffAnimation, SkipStep, SkipRead, SkipRefused,
           SkipBeforeNotify, SkipAfterNotify
<1>3. ASSUME NEW k \in LockScreens,
             KeyguardDrawn(k) \/ ScreenLockEvent(k) \/ LockStep(k)
      PROVE  [Promise!Next]_(Promise!vars)
  <2>1. k \in Clients /\ (\/ KeyguardNotify(k) \/ ScreenOffCVNotify(k)
                          \/ pc'[Power] = pc[Power])
    BY <1>3, TypeLock DEF Clients
  <2>2. \/ pc'[Power] = pc[Power]
        \/ pc'[Power] = IF pc[Power] = "OffWait" THEN "OffNotified"
                        ELSE pc[Power]
        \/ pc'[Power] = IF pc[Power] = "OnWait" THEN "OnNotified"
                        ELSE pc[Power]
    BY <2>1, PcNotify
       DEF KeyguardNotify, ScreenOffCVNotify, PowerPc, BlockOffPc, BlockOnPc
  <2>. QED
    BY <1>3, <2>2, PromiseClient
       DEF KeyguardDrawn, ScreenLockEvent, LockStep, KeyguardCheck,
           KeyguardNotify, SetGotScreenOff, WakeUpBlock, ScreenOffCVNotify
<1>. QED BY <1>1, <1>2, <1>3

(* The handshake keeps the promises of ScreenOff: an accepted cancel is    *)
(* binding and nobody is told of an off that was called off.               *)
THEOREM HandshakeImplementsScreenOff == Spec => KeepsPromise
<1>1. HandshakeInv /\ [Next]_vars => [Promise!Next]_(Promise!vars)
  <2>1. CASE UNCHANGED vars
    BY <2>1, StutterMaps
       DEF vars, displayVars, cancelVars, PromiseStutter, PromiseWindow,
           PromiseAnnounced, PromiseDisplay
  <2>. QED
    BY <2>1, PromiseCall, PromisePower, PromiseThreads DEF Next
<1>. QED
  BY <1>1, PromiseInit, Invariance, PTL DEF Spec, KeepsPromise, Promise!Spec
-----------------------------------------------------------------------------
(* Every call comes to its end.  The proof is a measure: how many steps a  *)
(* call at a place has left at most.                                       *)

StepsLeft(place) ==
  CASE place = "Idle" -> 0
    [] place \in { "HandleExit", "CancelLate", "SkipLate", "KeyguardNotify",
                   "OffNotify" } -> 1
    [] place \in { "DisplayStateSet", "ClearFingerprint", "SuspendNotify",
                   "DoWakeUpBegin", "DoRecordTransNormal", "CancelNeed",
                   "SkipNeed", "KeyguardCheck", "OffNeed" } -> 2
    [] place \in { "OffResolve", "OnNotified", "SetScreenPower",
                   "SuspendReset", "CancelLocked", "SkipLocked", "GotOff" } -> 3
    [] place \in { "OffUnblocked", "OnWait", "DoSetScreenPowerForAll",
                   "DoSuspendBegin" } -> 4
    [] place \in { "OffNotified", "OnEnter" } -> 5
    [] place \in { "OffWait", "OnArm" } -> 6
    [] place \in { "OffEnter", "OnCheck" } -> 7
    [] place = "OffArm" -> 8
    [] place = "OffCheck" -> 9
    [] place = "WaitScreenOff" -> 10
    [] place = "NotifyOff" -> 11
    [] OTHER -> 12

(* A step that moves a call in progress brings it nearer to its end.       *)
CallsAdvance ==
  \A t \in Threads :
    \/ pc[t] = "Idle" \/ pc'[t] = pc[t]
    \/ StepsLeft(pc'[t]) < StepsLeft(pc[t])

(* Where a client holds notifyMutex_.                                      *)
Holding == { "CancelLocked", "CancelNeed", "CancelLate",
             "SkipLocked", "SkipNeed", "SkipLate" }

NotifyMutexOwned == \A t \in Clients : notifyMutex = t <=> pc[t] \in Holding

(* A call in progress waits for nothing but notifyMutex_: the waits on the *)
(* condition variables end by themselves.                                  *)
GoesOn(t) == pc[t] # "Idle" /\ (pc[t] = "NotifyOff" => notifyMutex = None)

NobodyBlocksForGood ==
  \A t \in Threads :
    pc[t] # "Idle" => GoesOn(t) \/ \E u \in Clients : notifyMutex = u /\ GoesOn(u)

(* What a client's step does to the places and to the mutex.               *)
ClientMove(t) ==
  /\ \A u \in Clients \ {t} : pc'[u] = pc[u]
  /\ \/ pc'[Power] = pc[Power]
     \/ pc[Power] = "OffWait" /\ pc'[Power] = "OffNotified"
     \/ pc[Power] = "OnWait" /\ pc'[Power] = "OnNotified"
  /\ pc[t] = "Idle" \/ StepsLeft(pc'[t]) < StepsLeft(pc[t])
  /\ \/ notifyMutex = None /\ notifyMutex' = t /\ pc'[t] \in Holding
     \/ UNCHANGED notifyMutex /\ (pc[t] \in Holding <=> pc'[t] \in Holding)
     \/ pc[t] \in Holding /\ notifyMutex' = None /\ pc'[t] \notin Holding

LEMMA GotoPlaces ==
  ASSUME PcOK, NEW t \in Clients, NEW from, NEW to, Goto(t, from, to)
  PROVE  /\ pc[t] = from /\ pc'[t] = to /\ pc'[Power] = pc[Power]
         /\ \A u \in Clients \ {t} : pc'[u] = pc[u]
BY ThreadsAssumption DEF PcOK, Goto, Threads, Clients

LEMMA NotifyPlaces ==
  ASSUME PcOK, NEW t \in Clients, NEW from, NEW waiting, NEW woken,
         NotifyAll(t, from, waiting, woken)
  PROVE  /\ pc[t] = from /\ pc'[t] = "Idle"
         /\ pc'[Power] = IF pc[Power] = waiting THEN woken ELSE pc[Power]
         /\ \A u \in Clients \ {t} : pc'[u] = pc[u]
BY ThreadsAssumption DEF PcOK, NotifyAll, Threads, Clients

LEMMA CancelMoves ==
  ASSUME TypeOK, NEW c \in Cancellers, TryToCancelScreenOff(c) \/ CancelStep(c)
  PROVE  ClientMove(c)
<1>. c \in Clients /\ PcOK
  BY DEF Clients, TypeOK
<1>. USE DEF ClientMove, Holding, StepsLeft
<1>1. CASE TryToCancelScreenOff(c)
  BY <1>1, GotoPlaces DEF TryToCancelScreenOff
<1>2. CASE CancelBeforeNotify(c)
  BY <1>2, GotoPlaces DEF CancelBeforeNotify
<1>3. CASE CancelReadGot(c)
  BY <1>3, GotoPlaces DEF CancelReadGot
<1>4. CASE CancelReadNeed(c)
  BY <1>4, GotoPlaces DEF CancelReadNeed
<1>5. CASE CancelRefused(c)
  BY <1>5, GotoPlaces DEF CancelRefused
<1>6. CASE CancelAfterNotify(c)
  BY <1>6, NotifyPlaces DEF CancelAfterNotify
<1>. QED BY <1>1, <1>2, <1>3, <1>4, <1>5, <1>6 DEF CancelStep

LEMMA SkipMoves ==
  ASSUME TypeOK, NEW s \in Skippers, ForceSkipScreenOffAnimation(s) \/ SkipStep(s)
  PROVE  ClientMove(s)
<1>. s \in Clients /\ PcOK
  BY DEF Clients, TypeOK
<1>. USE DEF ClientMove, Holding, StepsLeft
<1>1. CASE ForceSkipScreenOffAnimation(s)
  BY <1>1, GotoPlaces DEF ForceSkipScreenOffAnimation
<1>2. CASE SkipBeforeNotify(s)
  BY <1>2, GotoPlaces DEF SkipBeforeNotify
<1>3. CASE SkipRead(s)
  BY <1>3, GotoPlaces DEF SkipRead
<1>4. CASE SkipRefused(s)
  BY <1>4, GotoPlaces DEF SkipRefused
<1>5. CASE SkipAfterNotify(s)
  BY <1>5, NotifyPlaces DEF SkipAfterNotify
<1>. QED BY <1>1, <1>2, <1>3, <1>4, <1>5 DEF SkipStep

LEMMA LockMoves ==
  ASSUME TypeOK, NEW k \in LockScreens,
         KeyguardDrawn(k) \/ ScreenLockEvent(k) \/ LockStep(k)
  PROVE  ClientMove(k)
<1>. k \in Clients /\ PcOK
  BY DEF Clients, TypeOK
<1>. USE DEF ClientMove, Holding, StepsLeft, lockUnchanged
<1>1. CASE KeyguardDrawn(k) \/ ScreenLockEvent(k)
  BY <1>1, GotoPlaces DEF KeyguardDrawn, ScreenLockEvent
<1>2. CASE KeyguardCheck(k)
  BY <1>2, GotoPlaces DEF KeyguardCheck
<1>3. CASE KeyguardNotify(k)
  BY <1>3, NotifyPlaces DEF KeyguardNotify
<1>4. CASE SetGotScreenOff(k)
  BY <1>4, GotoPlaces DEF SetGotScreenOff
<1>5. CASE WakeUpBlock(k)
  BY <1>5, GotoPlaces DEF WakeUpBlock
<1>6. CASE ScreenOffCVNotify(k)
  BY <1>6, NotifyPlaces DEF ScreenOffCVNotify
<1>. QED BY <1>1, <1>2, <1>3, <1>4, <1>5, <1>6 DEF LockStep

(* The power thread's step.                                                *)
LEMMA PowerMoves ==
  ASSUME TypeOK, PowerStep
  PROVE  /\ UNCHANGED notifyMutex /\ \A u \in Clients : pc'[u] = pc[u]
         /\ StepsLeft(pc'[Power]) < StepsLeft(pc[Power])
<1>. PcOK
  BY DEF TypeOK
<1>1. \A u \in Clients : pc'[u] = pc[u]
  BY PowerStepPc, ThreadsAssumption DEF PcOK, Threads
<1>2. UNCHANGED notifyMutex
  BY DEF PowerStep, HandleExit, DoRecordTransNormal, DoWakeUpBegin, DoSuspendBegin,
     DoSuspendBeginReset, DoSuspendBeginNotify, DoSetDisplayState, NotifyOff,
     WaitScreenOffNotify, OffCheck, OffArm, OffEnter, OffWake, OffTimeout, OffUnblocked,
     OffResolve, DisplayStateSet, OnCheck, OnArm, OnEnter, OnWake, OnTimeout,
     DoSetScreenPowerForAll, SetScreenPower, ClearFingerprint
<1>3. StepsLeft(pc'[Power]) < StepsLeft(pc[Power])
  <2>. USE DEF StepsLeft
  <2>1. CASE HandleExit \/ DoRecordTransNormal \/ DoWakeUpBegin
    BY <2>1, PowerGotoAt DEF HandleExit, DoRecordTransNormal, DoWakeUpBegin
  <2>2. CASE DoSuspendBegin \/ DoSuspendBeginReset \/ DoSuspendBeginNotify
    BY <2>2, PowerGotoAt DEF DoSuspendBegin, DoSuspendBeginReset, DoSuspendBeginNotify
  <2>3. CASE DoSetDisplayState
    <3>1. /\ pc[Power] = "DoSetDisplayState"
          /\ pc'[Power] \in { "OnCheck", "NotifyOff", "DisplayStateSet" }
      BY <2>3, PowerAt DEF DoSetDisplayState
    <3>. QED BY <3>1
  <2>4. CASE NotifyOff
    <3>1. PowerGoto("NotifyOff", "DisplayStateSet") \/ PowerGoto("NotifyOff", "WaitScreenOff")
      BY <2>4 DEF NotifyOff
    <3>2. /\ pc[Power] = "NotifyOff"
          /\ pc'[Power] \in { "DisplayStateSet", "WaitScreenOff" }
      BY <3>1, PowerGotoAt
    <3>. QED BY <3>2
  <2>5. CASE WaitScreenOffNotify
    <3>1. /\ pc[Power] = "WaitScreenOff"
          /\ pc'[Power] \in { "OffResolve", "OffUnblocked", "OffCheck" }
      BY <2>5, PowerAt DEF WaitScreenOffNotify
    <3>. QED BY <3>1
  <2>6. CASE OffCheck \/ OffArm \/ OffEnter \/ OffWake
    BY <2>6, PowerGotoAt DEF OffCheck, OffArm, OffEnter, OffWake
  <2>7. CASE OffTimeout
    <3>1. pc[Power] \in {"OffWait", "OffNotified"} /\ pc'[Power] = "OffUnblocked"
      BY <2>7, PowerAt DEF OffTimeout
    <3>. QED BY <3>1
  <2>8. CASE OffUnblocked \/ OffResolve \/ DisplayStateSet
    <3>1. \/ PowerGoto("OffUnblocked", "OffResolve")
          \/ PowerGoto("OffResolve", "DisplayStateSet")
          \/ PowerGoto("DisplayStateSet", "HandleExit")
      BY <2>8 DEF OffUnblocked, OffResolve, DisplayStateSet
    <3>2. \/ pc[Power] = "OffUnblocked" /\ pc'[Power] = "OffResolve"
          \/ pc[Power] = "OffResolve" /\ pc'[Power] = "DisplayStateSet"
          \/ pc[Power] = "DisplayStateSet" /\ pc'[Power] = "HandleExit"
      BY <3>1, PowerGotoAt
    <3>. QED BY <3>2
  <2>9. CASE OnCheck \/ OnArm \/ OnEnter \/ OnWake \/ OnTimeout
    BY <2>9, PowerGotoAt DEF OnCheck, OnArm, OnEnter, OnWake, OnTimeout
  <2>10. CASE DoSetScreenPowerForAll \/ SetScreenPower \/ ClearFingerprint
    <3>1. \/ PowerGoto("DoSetScreenPowerForAll", "SetScreenPower")
          \/ PowerGoto("SetScreenPower", "ClearFingerprint")
          \/ PowerGoto("SetScreenPower", AfterSetScreenPower)
          \/ PowerGoto("ClearFingerprint", AfterSetScreenPower)
      BY <2>10 DEF DoSetScreenPowerForAll, SetScreenPower, ClearFingerprint
    <3>2. AfterSetScreenPower \in { "HandleExit", "Idle" }
      BY DEF AfterSetScreenPower
    <3>3. \/ pc[Power] = "DoSetScreenPowerForAll" /\ pc'[Power] = "SetScreenPower"
          \/ pc[Power] = "SetScreenPower" /\ pc'[Power] = "ClearFingerprint"
          \/ /\ pc[Power] \in { "SetScreenPower", "ClearFingerprint" }
             /\ pc'[Power] \in { "HandleExit", "Idle" }
      BY <3>1, <3>2 DEF PowerGoto, PcOK, Threads
    <3>. QED BY <3>3
  <2>. QED BY <2>1, <2>2, <2>3, <2>4, <2>5, <2>6, <2>7, <2>8, <2>9, <2>10 DEF PowerStep
<1>. QED BY <1>1, <1>2, <1>3

(* A call of the power service begins.                                     *)
LEMMA PowerCallMoves ==
  ASSUME TypeOK, PowerCall
  PROVE  /\ UNCHANGED notifyMutex /\ \A u \in Clients : pc'[u] = pc[u]
         /\ pc[Power] = "Idle"
BY CallShape, ThreadsAssumption
   DEF EntersHandler, WakeUpOrSuspendEnd, TypeOK, PcOK, Threads

LEMMA ClientAdvances ==
  ASSUME TypeOK, NEW t \in Clients, ClientMove(t)
  PROVE  CallsAdvance /\ (NotifyMutexOwned => NotifyMutexOwned')
<1>1. CallsAdvance
  <2>1. pc'[Power] = pc[Power] \/ StepsLeft(pc'[Power]) < StepsLeft(pc[Power])
    BY DEF ClientMove, StepsLeft
  <2>2. \A u \in Clients : \/ pc[u] = "Idle" \/ pc'[u] = pc[u]
                           \/ StepsLeft(pc'[u]) < StepsLeft(pc[u])
    BY DEF ClientMove
  <2>. QED BY <2>1, <2>2 DEF CallsAdvance, Threads
<1>2. NotifyMutexOwned => NotifyMutexOwned'
  BY ThreadsAssumption DEF ClientMove, NotifyMutexOwned, Threads
<1>. QED BY <1>1, <1>2

LEMMA StepAdvances ==
  ASSUME TypeOK, [Next]_vars
  PROVE  CallsAdvance /\ (NotifyMutexOwned => NotifyMutexOwned')
<1>1. CASE UNCHANGED vars
  BY <1>1 DEF vars, CallsAdvance, NotifyMutexOwned
<1>2. CASE PowerStep \/ PowerCall
  BY <1>2, PowerMoves, PowerCallMoves DEF CallsAdvance, NotifyMutexOwned, Threads
<1>3. ASSUME NEW c \in Cancellers, TryToCancelScreenOff(c) \/ CancelStep(c)
      PROVE  CallsAdvance /\ (NotifyMutexOwned => NotifyMutexOwned')
  BY <1>3, CancelMoves, ClientAdvances DEF Clients
<1>4. ASSUME NEW s \in Skippers, ForceSkipScreenOffAnimation(s) \/ SkipStep(s)
      PROVE  CallsAdvance /\ (NotifyMutexOwned => NotifyMutexOwned')
  BY <1>4, SkipMoves, ClientAdvances DEF Clients
<1>5. ASSUME NEW k \in LockScreens,
             KeyguardDrawn(k) \/ ScreenLockEvent(k) \/ LockStep(k)
      PROVE  CallsAdvance /\ (NotifyMutexOwned => NotifyMutexOwned')
  BY <1>5, LockMoves, ClientAdvances DEF Clients
<1>. QED BY <1>1, <1>2, <1>3, <1>4, <1>5 DEF Next

(* A call in progress never goes back: each of its steps, and each wake-up *)
(* by another thread, brings it nearer to its end, so a screen-off takes   *)
(* twelve steps at most whatever the clients do meanwhile.                 *)
THEOREM CallsEndAfterTheirSteps == Spec => [][CallsAdvance]_vars
<1>1. TypeOK /\ [Next]_vars => CallsAdvance
  BY StepAdvances
<1>. QED BY <1>1, TypeCorrect, PTL DEF Spec

(* And it always can take the next one, or waits for notifyMutex_ while    *)
(* the client that has it can: with CallsEndAfterTheirSteps what           *)
(* SetDisplayStateReturns needs besides fairness.                          *)
THEOREM NobodyBlocks == Spec => []NobodyBlocksForGood
<1>1. Init => NotifyMutexOwned
  BY ThreadsAssumption DEF Init, NotifyMutexOwned, Threads, Holding
<1>2. TypeOK /\ NotifyMutexOwned /\ [Next]_vars => NotifyMutexOwned'
  BY StepAdvances
<1>3. TypeOK /\ NotifyMutexOwned => NobodyBlocksForGood
  <2>. SUFFICES ASSUME TypeOK, NotifyMutexOwned, notifyMutex # None
                PROVE  \E u \in Clients : notifyMutex = u /\ GoesOn(u)
    BY DEF NobodyBlocksForGood, GoesOn
  <2>1. notifyMutex \in Clients
    BY DEF TypeOK
  <2>. QED BY <2>1 DEF NotifyMutexOwned, GoesOn, Holding
<1>. QED BY <1>1, <1>2, <1>3, TypeCorrect, PTL DEF Spec
=============================================================================
