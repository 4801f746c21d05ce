-------------------------- MODULE ScreenStateMachine --------------------------
(***************************************************************************)
(* The screen power state machine as its callers share it: HandlePower-    *)
(* StateChange under the machine's mutex, the timeouts that some rows      *)
(* start, the screen power scheduler on which a row's action waits, and    *)
(* the assignments to the state that bypass the mutex.                     *)
(*                                                                         *)
(* What the handlers do to the display is in ScreenOffHandshake; here a    *)
(* handler is what it does to the machine.  The device is a folding one    *)
(* without extended screens, past SCREEN_INIT.                             *)
(***************************************************************************)
EXTENDS ScreenPowerTable, Integers, Sequences, FiniteSets

CONSTANTS
  Power,           \* the power service's thread
  Syncs,           \* threads of its SynchronizePowerStatus calls
  Aods,            \* threads that the always-on display calls on
  Folds,           \* threads that deliver fold events
  Sched,           \* the thread of screenPowerTaskScheduler_
  None,            \* nobody holds a mutex
  Reasons,         \* reasons the power service gives
  DisplayRequests, \* display states it sets
  PowerRequests,   \* power states it sets for all screens
  SyncRequests,    \* power states it synchronizes
  AodRequests,     \* power states the always-on display sets
  MayFingerprint,  \* the lock screen may report a fingerprint
  MaxTasks         \* bound: no call starts while so many timer tasks live

Callers == {Power} \cup Syncs \cup Aods \cup Folds
Handlers == Callers \cup {Sched}

ASSUME ThreadsAssumption ==
  /\ Power \notin Syncs \cup Aods \cup Folds /\ Sched \notin Callers
  /\ Syncs \cap Aods = {} /\ Syncs \cap Folds = {} /\ Aods \cap Folds = {}
  /\ None \notin Handlers \cup TransitionState
  /\ MaxTasks \in Nat

ASSUME RequestsAssumption ==
  /\ Reasons \subseteq PowerStateChangeReason
  /\ DisplayRequests \subseteq RequestedState
  /\ PowerRequests \cup SyncRequests \subseteq PowerState
  /\ AodRequests \subseteq { "POWER_OFF", "POWER_DOZE", "POWER_DOZE_SUSPEND" }
  /\ MayFingerprint \in BOOLEAN

VARIABLES
  transState,    \* transState_
  isForceTrans,  \* isForceTrans_
  powerStatus,   \* powerStatus_
  aodNotifyFlag, \* ScreenSessionManager::aodNotifyFlag_
  mtx,           \* the owner of the machine's mutex
  queue,         \* the tasks posted to screenPowerTaskScheduler_
  armed,         \* the keys of ScreenStateTimer::stateCancelMap_
  tasks,         \* how many timer tasks of a state are in each phase
  firing,        \* the state whose timeout callback runs, under mutex_
  pc,            \* where each thread is
  job            \* the locals of the call each thread is in

timerVars == <<armed, tasks, firing>>
vars == <<transState, isForceTrans, powerStatus, aodNotifyFlag, mtx, queue,
          timerVars, pc, job>>

(* The states some row starts a timeout for.                               *)
TimedState == { r.target : r \in { q \in Transitions : q.timeout # "None" } }

(* A timer task is submitted, waits on cv_, or was woken by StopTimer.     *)
Phase == { "Queued", "Waiting", "Notified" }

AodStatus == { "UNKNOWN", "SUCCESS", "FAILURE" }

(* The alternatives of ScreenPowerInfoType that a call may carry.          *)
Info == { "monostate", "Reason", "DisplayState", "ForAll", "Screen",
          "Callback" }

(* The locals of HandlePowerStateChange: its event and type (arg is the    *)
(* value that type carries), the row, its result; and where its caller     *)
(* goes on.  calledOff remembers a forced transition to SCREEN_ON.         *)
NoRow == [ state |-> "SCREEN_INIT", event |-> "FOLD_SCREEN_SET_POWER",
           target |-> "SCREEN_INIT", action |-> "DoSetScreenFoldPowerFunc",
           timeout |-> "None" ]
NoJob == [ event |-> "FOLD_SCREEN_SET_POWER", info |-> "monostate",
           arg |-> "UNKNOWN", apAod |-> FALSE, row |-> NoRow, ret |-> FALSE,
           calledOff |-> FALSE, then |-> "Idle" ]

FsmPc == { "Lock", "StopFrom", "Action", "AwaitTask", "StartTimer", "Check",
           "Transfer", "Reset", "StopTarget" }
CallPc == { "Idle", "CheckStatus", "ReadFlag", "ReadFailure", "SetFlag",
            "AodRetry", "AwaitDone" }

Job == [ event : PowerEvent, info : Info,
         arg : PowerStatus \cup DisplayState \cup AodStatus \cup {"UNKNOWN"},
         apAod : BOOLEAN, row : TransitionRow, ret : BOOLEAN,
         calledOff : BOOLEAN, then : CallPc ]

Init ==
  /\ transState = "SCREEN_ON" /\ isForceTrans = FALSE
  /\ powerStatus = "ON"
  /\ aodNotifyFlag = "UNKNOWN"
  /\ mtx = None
  /\ queue = <<>>
  /\ armed = {}
  /\ tasks = [s \in TimedState |-> [p \in Phase |-> 0]]
  /\ firing = None
  /\ pc = [t \in Handlers |-> "Idle"]
  /\ job = [t \in Handlers |-> NoJob]

Goto(t, from, to) ==
  /\ pc[t] = from
  /\ pc' = [pc EXCEPT ![t] = to]

(* A call of HandlePowerStateChange by t, which is at from.                *)
Handle(t, from, event, info, arg, apAod, then) ==
  /\ Goto(t, from, "Lock")
  /\ job' = [job EXCEPT ![t] =
       [ event |-> event, info |-> info, arg |-> arg, apAod |-> apAod,
         row |-> NoRow, ret |-> FALSE, calledOff |-> FALSE, then |-> then ]]

(* The call of t is over.                                                  *)
Return(t, from) ==
  /\ Goto(t, from, "Idle")
  /\ job' = [job EXCEPT ![t] = NoJob]

ToTransition(state, isForce) ==
  /\ isForceTrans' = isForce
  /\ transState' = state
-----------------------------------------------------------------------------
(* ScreenStateTimer.  Its mutex is held while a callback runs.             *)

Live(s) == \E p \in Phase : tasks[s][p] > 0

MoveTask(s, from, to) ==
  [tasks EXCEPT ![s][from] = @ - 1, ![s][to] = @ + 1]

DropTask(s, from) == [tasks EXCEPT ![s][from] = @ - 1]

(* Mutant: the timeout of a state that is left stays armed.                *)
StopTimerOnlyWakes(s) ==
  /\ firing = None
  /\ armed' = armed
  /\ tasks' = [u \in TimedState |->
       [tasks[u] EXCEPT !["Waiting"] = 0, !["Notified"] = @ + tasks[u]["Waiting"]]]

(* notify_all wakes the tasks of every state.                              *)
StopTimer(s) ==
  /\ firing = None
  /\ armed' = armed \ {s}
  /\ tasks' = [u \in TimedState |->
       [tasks[u] EXCEPT !["Waiting"] = 0, !["Notified"] = @ + tasks[u]["Waiting"]]]

(* The key and the task.  Only timer tasks run between the two, and they   *)
(* find the same as if they had run after them.                            *)
StartTimer(s) ==
  /\ firing = None
  /\ armed' = armed \cup {s}
  /\ tasks' = [tasks EXCEPT ![s]["Queued"] = @ + 1]

timerOnly == <<transState, isForceTrans, powerStatus, aodNotifyFlag, mtx, queue,
               pc, job>>

TaskStart(s) ==
  /\ firing = None /\ tasks[s]["Queued"] > 0
  /\ tasks' = MoveTask(s, "Queued", "Waiting")
  /\ UNCHANGED <<timerOnly, armed, firing>>

(* Mutant: a task waits on cv_ without a limit.                            *)
TaskNeverTimesOut(s) == FALSE

(* The time is up: when the task starts, in the wait, or just as StopTimer *)
(* wakes it.  The callback runs if the state still has its key.            *)
TaskTimeout(s) ==
  /\ firing = None
  /\ \E p \in Phase : tasks[s][p] > 0 /\ tasks' = DropTask(s, p)
  /\ firing' = IF s \in armed THEN s ELSE None
  /\ UNCHANGED <<timerOnly, armed>>

(* Woken by StopTimer: whatever state that was for, the key is erased.     *)
TaskCancelled(s) ==
  /\ firing = None /\ tasks[s]["Notified"] > 0
  /\ tasks' = DropTask(s, "Notified")
  /\ armed' = armed \ {s}
  /\ UNCHANGED <<timerOnly, firing>>

Callback(s) ==
  { r.timeout : r \in { q \in Transitions : q.target = s /\ q.timeout # "None" } }

(* Mutant: a timeout that was carried out keeps its key.                   *)
TimeoutCallbackKeepsKey(s) ==
  /\ firing = s
  /\ transState' = IF Callback(s) = {"DoAodExitAndSetPowerAllOff"}
                     THEN "SCREEN_OFF" ELSE transState
  /\ firing' = None
  /\ UNCHANGED <<isForceTrans, powerStatus, aodNotifyFlag, mtx, queue, armed,
                 tasks, pc, job>>

(* DoAodExitAndSetPowerAllOff assigns the state without the machine's      *)
(* mutex; DoScreenPowerOn changes nothing, as it is given the reason of a  *)
(* wake-up instead of a screen.                                            *)
TimeoutCallbackDone(s) ==
  /\ firing = s
  /\ transState' = IF Callback(s) = {"DoAodExitAndSetPowerAllOff"}
                     THEN "SCREEN_OFF" ELSE transState
  /\ armed' = armed \ {s}
  /\ firing' = None
  /\ UNCHANGED <<isForceTrans, powerStatus, aodNotifyFlag, mtx, queue, tasks,
                 pc, job>>

TimerStep(s) ==
  TaskStart(s) \/ TaskTimeout(s) \/ TaskCancelled(s) \/ TimeoutCallbackDone(s)
-----------------------------------------------------------------------------
(* HandlePowerStateChange.                                                 *)

(* The lock and the row; without a row the call is over.                   *)
Lock(t) ==
  /\ mtx = None
  /\ \/ \E r \in GetTransition(transState, job[t].event) :
          /\ mtx' = t
          /\ Goto(t, "Lock", "StopFrom")
          /\ job' = [job EXCEPT ![t].row = r]
     \/ /\ GetTransition(transState, job[t].event) = {}
        /\ Goto(t, "Lock", job[t].then)
        /\ job' = IF job[t].then = "Idle" THEN [job EXCEPT ![t] = NoJob] ELSE job
        /\ UNCHANGED mtx
  /\ UNCHANGED <<transState, isForceTrans, powerStatus, aodNotifyFlag, queue,
                 timerVars>>

StopFrom(t) ==
  /\ Goto(t, "StopFrom", "Action")
  /\ StopTimer(job[t].row.state)
  /\ UNCHANGED <<transState, isForceTrans, powerStatus, aodNotifyFlag, mtx,
                 queue, firing, job>>

AfterAction(t) == IF job[t].row.timeout = "None" THEN "Check" ELSE "StartTimer"

Row(t, actions) == job[t].row.action \in actions

(* DoWakeUpBegin, DoSuspendBegin, DoRecordTransNormal, DoScreenPowerOn,    *)
(* DoAodExitAndSetPowerOn, DoAodExitAndSetPowerOff and                     *)
(* DoSetScreenFoldPowerFunc change nothing that the machine keeps.         *)
ActNeutral(t) ==
  /\ Row(t, { "DoWakeUpBegin", "DoSuspendBegin", "DoRecordTransNormal",
              "DoScreenPowerOn", "DoAodExitAndSetPowerOn",
              "DoAodExitAndSetPowerOff", "DoSetScreenFoldPowerFunc" })
  /\ Goto(t, "Action", AfterAction(t))
  /\ UNCHANGED <<transState, isForceTrans, powerStatus, queue, job>>

(* DoSetDisplayState: a screen-off may be called off.                      *)
ActSetDisplayState(t) ==
  /\ Row(t, {"DoSetDisplayState"})
  /\ Goto(t, "Action", AfterAction(t))
  /\ \/ UNCHANGED <<transState, isForceTrans, job>>
     \/ /\ job[t].arg \in { "OFF", "DOZE" }
        /\ ToTransition("SCREEN_ON", TRUE)
        /\ job' = [job EXCEPT ![t].calledOff = TRUE]
  /\ UNCHANGED <<powerStatus, queue>>

(* DoSetScreenPower.  The other screen of a folding device may forbid the  *)
(* change.  (ActionScreenPowerOff belongs to POWER_OFF_DIRECTLY, which no  *)
(* code that runs posts.)                                                  *)
ActSetScreenPower(t) ==
  /\ Row(t, {"DoSetScreenPower"})
  /\ Goto(t, "Action", AfterAction(t))
  /\ powerStatus' \in IF job[t].info = "Screen" THEN { powerStatus, job[t].arg }
                      ELSE { powerStatus }
  /\ UNCHANGED <<transState, isForceTrans, queue, job>>

(* DoSetScreenPowerForAll by t: the lock screen's fingerprint wins over an *)
(* off, and otherwise the status is set on the scheduler's thread, for     *)
(* which t waits at await.                                                 *)
SetScreenPower(t, from, done, await, status, apAod) ==
  \/ /\ MayFingerprint /\ IsOffScreen(status)
     /\ ToTransition("SCREEN_ON", TRUE)
     /\ Goto(t, from, done)
     /\ UNCHANGED queue
  \/ /\ queue' = Append(queue,
           [ by |-> t, do |-> "ToTransition", status |-> status,
             state |-> ConvertPowerStatus2ScreenState(status, apAod) ])
     /\ Goto(t, from, await)
     /\ UNCHANGED <<transState, isForceTrans>>

ActSetScreenPowerForAll(t) ==
  /\ Row(t, {"DoSetScreenPowerForAll"})
  /\ SetScreenPower(t, "Action", AfterAction(t), "AwaitTask", job[t].arg,
                    job[t].apAod)
  /\ \E ret \in BOOLEAN : job' = [job EXCEPT ![t].ret = ret]
  /\ UNCHANGED powerStatus

Action(t) ==
  /\ \/ ActNeutral(t) \/ ActSetDisplayState(t) \/ ActSetScreenPower(t)
     \/ ActSetScreenPowerForAll(t)
  /\ UNCHANGED <<aodNotifyFlag, mtx, timerVars>>

StartTargetTimer(t) ==
  /\ Goto(t, "StartTimer", "Check")
  /\ StartTimer(job[t].row.target)
  /\ UNCHANGED <<transState, isForceTrans, powerStatus, aodNotifyFlag, mtx,
                 queue, firing, job>>

(* Mutant: the check forgets a forced transition.                          *)
CheckStateOnly(t) ==
  /\ Goto(t, "Check",
          IF transState = job[t].row.state THEN "Transfer" ELSE "Reset")
  /\ UNCHANGED <<transState, isForceTrans, powerStatus, aodNotifyFlag, mtx,
                 queue, timerVars, job>>

(* The check and the transfer are two steps: the state is assigned by      *)
(* others without the mutex.                                               *)
Check(t) ==
  /\ Goto(t, "Check",
          IF ~isForceTrans /\ transState = job[t].row.state
            THEN "Transfer" ELSE "Reset")
  /\ UNCHANGED <<transState, isForceTrans, powerStatus, aodNotifyFlag, mtx,
                 queue, timerVars, job>>

TransferState(t) ==
  /\ Goto(t, "Transfer", "Reset")
  /\ transState' = job[t].row.target
  /\ UNCHANGED <<isForceTrans, powerStatus, aodNotifyFlag, mtx, queue,
                 timerVars, job>>

(* The mutex is left, and t goes on where it called from.                  *)
Unlock(t, from) ==
  /\ mtx' = None
  /\ Goto(t, from, job[t].then)
  /\ job' = IF job[t].then = "Idle" THEN [job EXCEPT ![t] = NoJob] ELSE job

(* Mutant: the force flag is lowered only after a transition it allowed.   *)
ResetKeepsForce(t) ==
  /\ UNCHANGED isForceTrans
  /\ \/ /\ job[t].row.timeout = "None"
        /\ Goto(t, "Reset", "StopTarget")
        /\ UNCHANGED <<mtx, job>>
     \/ /\ job[t].row.timeout # "None"
        /\ Unlock(t, "Reset")
  /\ UNCHANGED <<transState, powerStatus, aodNotifyFlag, queue, timerVars>>

(* isForceTrans_ is lowered; a row with a timeout leaves it running.       *)
Reset(t) ==
  /\ isForceTrans' = FALSE
  /\ \/ /\ job[t].row.timeout = "None"
        /\ Goto(t, "Reset", "StopTarget")
        /\ UNCHANGED <<mtx, job>>
     \/ /\ job[t].row.timeout # "None"
        /\ Unlock(t, "Reset")
  /\ UNCHANGED <<transState, powerStatus, aodNotifyFlag, queue, timerVars>>

StopTarget(t) ==
  /\ Unlock(t, "StopTarget")
  /\ StopTimer(job[t].row.target)
  /\ UNCHANGED <<transState, isForceTrans, powerStatus, aodNotifyFlag, queue,
                 firing>>

FsmStep(t) ==
  \/ Lock(t) \/ StopFrom(t) \/ Action(t) \/ StartTargetTimer(t) \/ Check(t)
  \/ TransferState(t) \/ Reset(t) \/ StopTarget(t)
-----------------------------------------------------------------------------
(* The calls of the power service.                                         *)

NumTasks(s) == tasks[s]["Queued"] + tasks[s]["Waiting"] + tasks[s]["Notified"]

Bounded == \A s \in TimedState : NumTasks(s) < MaxTasks

callOnly == <<transState, isForceTrans, powerStatus, mtx, queue, timerVars>>

WakeUpBegin(reason) ==
  /\ Handle(Power, "Idle",
       CASE reason \in { "PRE_BRIGHT_AUTH_SUCCESS",
                         "PRE_BRIGHT_AUTH_FAIL_SCREEN_OFF" } ->
              "WAKEUP_BEGIN_ADVANCED"
         [] reason = "PRE_BRIGHT" -> "WAKEUP_BEGIN_PRE_BRIGHT"
         [] OTHER -> "WAKEUP_BEGIN",
       "Reason", "UNKNOWN", FALSE, "Idle")
  /\ UNCHANGED <<callOnly, aodNotifyFlag>>

SuspendBegin(reason) ==
  /\ Handle(Power, "Idle",
       IF IsPreBright(reason) THEN "SUSPEND_BEGIN_PRE_BRIGHT"
                              ELSE "SUSPEND_BEGIN",
       "Reason", "UNKNOWN", FALSE, "Idle")
  /\ UNCHANGED <<callOnly, aodNotifyFlag>>

SyncScreenPowerState ==
  /\ Handle(Power, "Idle", "SYNC_POWER_ON", "Reason", "UNKNOWN", FALSE, "Idle")
  /\ UNCHANGED <<callOnly, aodNotifyFlag>>

SetDisplayState(state) ==
  /\ aodNotifyFlag' = "UNKNOWN"
  /\ Handle(Power, "Idle", DisplayStateEvent(state), "DisplayState", state,
            FALSE, "CheckStatus")
  /\ UNCHANGED callOnly

(* The end of the power callback, when the screen is suspended by then.    *)
CheckStatus ==
  /\ \/ /\ powerStatus = "SUSPEND"
        /\ Handle(Power, "CheckStatus", "DMS_POWER_CB_END", "DisplayState",
                  job[Power].arg, FALSE, "ReadFlag")
     \/ powerStatus # "SUSPEND" /\ Return(Power, "CheckStatus")
  /\ UNCHANGED <<callOnly, aodNotifyFlag>>

AodEvent(answer) ==
  IF answer = "SUCCESS" THEN "AOD_ENTER_SUCCESS" ELSE "AOD_ENTER_FAIL"

(* The flag is compared with SUCCESS and, if it is not that, read again and *)
(* compared with FAILURE: an answer may arrive before, between or after.   *)
ReadFlag ==
  /\ \/ /\ aodNotifyFlag = "SUCCESS"
        /\ Handle(Power, "ReadFlag", "AOD_ENTER_SUCCESS", "DisplayState",
                  job[Power].arg, FALSE, "Idle")
     \/ /\ aodNotifyFlag # "SUCCESS"
        /\ Goto(Power, "ReadFlag", "ReadFailure")
        /\ UNCHANGED job
  /\ UNCHANGED <<callOnly, aodNotifyFlag>>

ReadFailure ==
  /\ \/ /\ aodNotifyFlag = "FAILURE"
        /\ Handle(Power, "ReadFailure", "AOD_ENTER_FAIL", "DisplayState",
                  job[Power].arg, FALSE, "Idle")
     \/ aodNotifyFlag # "FAILURE" /\ Return(Power, "ReadFailure")
  /\ UNCHANGED <<callOnly, aodNotifyFlag>>

(* Through the machine only after a pre-bright wake-up and with one of its *)
(* reasons; otherwise without the mutex.                                   *)
SetScreenPowerForAll(state, reason) ==
  LET status == GetPowerStatus(state, reason)
      advanced == transState = "WAIT_SCREEN_ADVANCED_ON_READY"
      viaOn == advanced /\ reason \in { "PRE_BRIGHT_AUTH_SUCCESS",
                                        "PRE_BRIGHT_AUTH_FAIL_SCREEN_ON" }
      viaOff == advanced /\ reason = "PRE_BRIGHT_AUTH_FAIL_SCREEN_OFF"
  IN \/ /\ viaOn \/ viaOff
        /\ Handle(Power, "Idle",
             IF viaOn THEN "SET_SCREEN_POWER_FOR_ALL_POWER_ON"
                      ELSE "SET_SCREEN_POWER_FOR_ALL_POWER_OFF",
             "ForAll", status, FALSE, "Idle")
        /\ UNCHANGED <<callOnly, aodNotifyFlag>>
     \/ /\ ~viaOn /\ ~viaOff
        /\ SetScreenPower(Power, "Idle", "Idle", "AwaitDone", status, FALSE)
        /\ UNCHANGED <<powerStatus, aodNotifyFlag, mtx, timerVars, job>>

(* SynchronizePowerStatus posts a call of the machine to the scheduler.    *)
SynchronizePowerStatus(t, state) ==
  /\ queue' = Append(queue,
       [ by |-> t, do |-> "SetRS", status |-> GetPowerStatus(state, "NORMAL"),
         state |-> "SCREEN_ON" ])
  /\ Goto(t, "Idle", "AwaitDone")
  /\ UNCHANGED <<transState, isForceTrans, powerStatus, aodNotifyFlag, mtx,
                 timerVars, job>>
-----------------------------------------------------------------------------
(* The calls of the always-on display and of the fold sensors.             *)

(* NotifyAodOpCompletion(ENTER_FINISH): the answer is kept for the power   *)
(* call in WAIT_LOCK_SCREEN_IND and handled at once elsewhere.             *)
NotifyAodOpCompletion(t, answer) ==
  /\ \/ /\ transState = "WAIT_LOCK_SCREEN_IND"
        /\ Goto(t, "Idle", "SetFlag")
        /\ job' = [job EXCEPT ![t].arg = answer]
     \/ /\ transState # "WAIT_LOCK_SCREEN_IND"
        /\ Handle(t, "Idle", AodEvent(answer), "monostate", "UNKNOWN", FALSE,
                  "Idle")
  /\ UNCHANGED <<callOnly, aodNotifyFlag>>

SetFlag(t) ==
  /\ aodNotifyFlag' = job[t].arg
  /\ Return(t, "SetFlag")
  /\ UNCHANGED callOnly

SetPowerStateForAod(t, state) ==
  /\ Handle(t, "Idle",
       CASE state = "POWER_DOZE" -> "SET_SCREEN_POWER_FOR_ALL_DOZE"
         [] state = "POWER_DOZE_SUSPEND" ->
              "SET_SCREEN_POWER_FOR_ALL_DOZE_SUSPEND"
         [] state = "POWER_OFF" -> "SET_SCREEN_POWER_FOR_ALL_POWER_OFF",
       "ForAll", GetPowerStatus(state, "NORMAL"), TRUE,
       IF state = "POWER_OFF" THEN "AodRetry" ELSE "Idle")
  /\ UNCHANGED <<callOnly, aodNotifyFlag>>

(* A false result of POWER_OFF is followed by a forced one.                *)
AodRetry(t) ==
  /\ \/ job[t].ret /\ Return(t, "AodRetry")
     \/ /\ ~job[t].ret
        /\ Handle(t, "AodRetry", "SET_SCREEN_POWER_FOR_ALL_FORCE_POWER_OFF",
                  "ForAll", "OFF", TRUE, "Idle")
  /\ UNCHANGED <<callOnly, aodNotifyFlag>>

FoldScreenSetPower(t) ==
  /\ Handle(t, "Idle", "FOLD_SCREEN_SET_POWER", "Callback", "UNKNOWN", FALSE,
            "Idle")
  /\ UNCHANGED <<callOnly, aodNotifyFlag>>
-----------------------------------------------------------------------------
(* The scheduler's thread: one task after another, in the order posted.    *)

ConvertScreenStateEvent(status) ==
  CASE status = "OFF" -> "POWER_OFF"
    [] status = "SUSPEND" -> "SUSPEND"
    [] status = "ON_ADVANCED" -> "E_ADVANCED_ON"
    [] status = "OFF_ADVANCED" -> "E_ADVANCED_OFF"
    [] status = "DOZE" -> "E_DOZE"
    [] status = "DOZE_SUSPEND" -> "E_DOZE_SUSPEND"
    [] OTHER -> "POWER_ON"

(* Where the poster of a task goes on when PostVoidSyncTask returns.       *)
Resume(t) == IF pc[t] = "AwaitTask" THEN AfterAction(t) ELSE "Idle"

(* Mutant: the task sets the state under the machine's mutex.              *)
SchedToTransitionLocks ==
  /\ pc[Sched] = "Idle" /\ queue # <<>> /\ Head(queue).do = "ToTransition"
  /\ mtx = None
  /\ ToTransition(Head(queue).state, FALSE)
  /\ pc' = [pc EXCEPT ![Head(queue).by] = Resume(Head(queue).by)]
  /\ queue' = Tail(queue)
  /\ UNCHANGED <<powerStatus, aodNotifyFlag, mtx, timerVars, job>>

SchedToTransition ==
  /\ pc[Sched] = "Idle" /\ queue # <<>> /\ Head(queue).do = "ToTransition"
  /\ ToTransition(Head(queue).state, FALSE)
  /\ pc' = [pc EXCEPT ![Head(queue).by] = Resume(Head(queue).by)]
  /\ queue' = Tail(queue)
  /\ UNCHANGED <<powerStatus, aodNotifyFlag, mtx, timerVars, job>>

SchedSetRS ==
  /\ queue # <<>> /\ Head(queue).do = "SetRS"
  /\ Handle(Sched, "Idle", ConvertScreenStateEvent(Head(queue).status),
            "Screen", Head(queue).status, FALSE, "AwaitDone")
  /\ UNCHANGED <<callOnly, aodNotifyFlag>>

SchedSetRSDone ==
  /\ pc[Sched] = "AwaitDone"
  /\ pc' = [pc EXCEPT ![Sched] = "Idle", ![Head(queue).by] = "Idle"]
  /\ job' = [job EXCEPT ![Sched] = NoJob]
  /\ queue' = Tail(queue)
  /\ UNCHANGED <<transState, isForceTrans, powerStatus, aodNotifyFlag, mtx,
                 timerVars>>

SchedStep == SchedToTransition \/ SchedSetRS \/ SchedSetRSDone
-----------------------------------------------------------------------------
PowerCall ==
  /\ Bounded
  /\ \/ \E reason \in Reasons : WakeUpBegin(reason) \/ SuspendBegin(reason)
     \/ SyncScreenPowerState
     \/ \E state \in DisplayRequests : SetDisplayState(state)
     \/ \E state \in PowerRequests, reason \in Reasons :
          SetScreenPowerForAll(state, reason)

OtherCall ==
  /\ Bounded
  /\ \/ \E t \in Syncs, state \in SyncRequests : SynchronizePowerStatus(t, state)
     \/ \E t \in Aods, answer \in AodStatus \ {"UNKNOWN"} :
          NotifyAodOpCompletion(t, answer)
     \/ \E t \in Aods, state \in AodRequests : SetPowerStateForAod(t, state)
     \/ \E t \in Folds : FoldScreenSetPower(t)

(* A call in progress goes on.                                             *)
CallStep(t) ==
  \/ FsmStep(t)
  \/ t = Power /\ (CheckStatus \/ ReadFlag \/ ReadFailure)
  \/ t \in Aods /\ (SetFlag(t) \/ AodRetry(t))
  \/ t = Sched /\ SchedStep

Next ==
  \/ PowerCall
  \/ OtherCall
  \/ \E t \in Handlers : CallStep(t)
  \/ \E s \in TimedState : TimerStep(s)

Spec == Init /\ [][Next]_vars

(* Fairness.  Every thread and every timer task is scheduled.  They wait   *)
(* for two mutexes, which are left again and again: strong fairness is a   *)
(* mutex that lets a waiting thread in in the end.  A task that waits has  *)
(* a deadline.  Nothing makes a thread start a call.                       *)
FairSpec ==
  /\ Spec
  /\ \A t \in Handlers : SF_vars(CallStep(t))
  /\ \A s \in TimedState :
       /\ SF_vars(TaskTimeout(s))
       /\ WF_vars(TimeoutCallbackDone(s))
-----------------------------------------------------------------------------
(* Properties.                                                             *)

(* Every variable has its type; only a thread in the machine's code owns   *)
(* its mutex.                                                              *)
TypeOK ==
  /\ transState \in TransitionState /\ isForceTrans \in BOOLEAN
  /\ powerStatus \in PowerStatus /\ aodNotifyFlag \in AodStatus
  /\ mtx \in Handlers \cup {None}
  /\ \A i \in 1 .. Len(queue) :
       queue[i] \in [ by : Callers, do : { "ToTransition", "SetRS" },
                      status : PowerStatus, state : TransitionState ]
  /\ armed \subseteq TimedState /\ firing \in TimedState \cup {None}
  /\ \A s \in TimedState, p \in Phase : tasks[s][p] \in Nat
  /\ job \in [Handlers -> Job]
  /\ pc \in [Handlers -> FsmPc \cup CallPc]
  /\ \A t \in Handlers : mtx = t <=> pc[t] \in FsmPc \ {"Lock"}

(* StopTimer at the start of a handler shuts the timeout of the state out: *)
(* from there until the handler is done no timeout of the state it came    *)
(* from is pending or running, so an answer that arrived in time and the   *)
(* timeout that gives up on it are never both carried out after it.        *)
TimeoutExcluded ==
  \A t \in Handlers :
    pc[t] \in FsmPc \ { "Lock", "StopFrom" } =>
      job[t].row.state \notin armed \cup {firing}

(* A pending timeout has a task that will look at it: the tasks of earlier *)
(* timeouts, which wake up and erase keys at any time, never leave a key   *)
(* that nobody would ever fire or erase.                                   *)
ArmedHasTask == \A s \in armed : Live(s) \/ firing = s

(* A display change that was called off does not move the machine out of   *)
(* SCREEN_ON: its handler, which came from SCREEN_ON and expects to be     *)
(* there still, transfers nothing.                                         *)
CalledOffNeverTransfers ==
  \A t \in Handlers : job[t].calledOff => pc[t] # "Transfer"

(* Without a fingerprint a forced transition is consumed by the handler    *)
(* that forced it, and no later event is swallowed by it.                  *)
ForceIsConsumed == isForceTrans /\ ~MayFingerprint => mtx # None

(* A handler waits for a task while the scheduler's thread, in an earlier  *)
(* task, waits for the mutex of that handler.                              *)
Circle ==
  \E t \in Callers : mtx = t /\ pc[t] = "AwaitTask" /\ pc[Sched] = "Lock"

(* Every call returns, although a handler that holds the machine's mutex   *)
(* waits for timeout callbacks, and one that sets the power of all screens *)
(* for the scheduler's thread.  Only the circle keeps a call from it: see  *)
(* SynchronizePowerStatusReturns.                                          *)
CallsReturn == \A t \in Callers : pc[t] # "Idle" ~> pc[t] = "Idle" \/ Circle

(* A timeout that was started is carried out or given up.                  *)
TimeoutsEnd == \A s \in TimedState : s \in armed ~> s \notin armed

(* What a comment or a doc says and the code does not keep.                *)

(* SynchronizePowerStatus returns true or false: it returns.               *)
SynchronizePowerStatusReturns ==
  \A t \in Syncs : pc[t] = "AwaitDone" ~> pc[t] = "Idle"
=============================================================================
