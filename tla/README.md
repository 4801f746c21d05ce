# Formal models of the window manager: display power, locking, scene boards, focus and session life cycle

TLA+ modules for the parts of this repository whose correctness depends on the
order in which threads do things, with TLC configurations that check them on
small instances and TLAPS proofs for every value of the constants.

Paths below are relative to `src/`. `SSM` is
`window_scene/screen_session_manager/src/screen_session_manager.cpp`, `FSM` is
`window_scene/screen_session_manager/src/screen_power_fsm/screen_state_machine.cpp`, `MGR`
is `window_scene/session_manager/src/scene_session_manager.cpp`, `SES` is
`window_scene/session/host/src/session.cpp`, `SCS` is
`window_scene/session/host/src/scene_session.cpp`.

## 1. The system

The repository is the window manager of OpenHarmony: a display manager service
(screens, power, folding), a scene session manager (windows as sessions of a
scene board, "SCB"), the client libraries, and an older pair of servers for
products without a scene board.

| Component | State it keeps | Operations | Talks to | What is hard | Correct when |
|---|---|---|---|---|---|
| Screen power state machine (`FSM`) | `transState_`, `isForceTrans_`, `powerStatus_`, one mutex | `HandlePowerStateChange(event)`: find the row, stop the old timeout, run the handler, start a timeout, move | every power call, the timer, the screen power scheduler, fold policies, the always-on display (AOD) | handlers wait under the mutex; the state is also assigned outside it; timeouts race answers | an answer and its timeout are not both carried out; no call is lost or stuck |
| Screen state timer (`screen_power_fsm/screen_state_timer.cpp`) | a map of armed states, tasks of a concurrent queue | `StartTimer`, `StopTimer` | the machine, the queue | one condition variable for all states; tasks erase keys that may have been armed again | an armed state always has a task that will look at it |
| Session display power controller (`session_display_power_controller.cpp`) | six flags, the display state, `notifyMutex_` | `SetDisplayState`, the wait for the lock screen | `SSM`, the lock screen | two waits without predicates, flags shared by four kinds of threads | a cancel is honoured or refused, never half done |
| Handshake in `SSM` | `gotScreenOffNotify_`, `needScreenOffNotify_`, `keyguardDrawnDone_`, ... | `SuspendBegin`, `SetDisplayState`, `SetScreenPowerForAll`, `TryToCancelScreenOff`, `ForceSkipScreenOffAnimation`, `NotifyDisplayEvent` | controller, machine, lock screen | lost wake-ups, late cancels | as above |
| Global mutex (`utils/include/dms_global_mutex.h`) | a timed mutex, a thread-local counter and status | `HoldLock`, `DropLock`, `safe_wait_for` | every entry point of the service | nests, is dropped around waits, gives up after 5 ms | at most one serial section, no unlock by a thread that does not own it, no deadlock |
| Safe task scheduler (`window_scene/common/src/dms_task_scheduler.cpp`) | an event handler | `PostVoidSyncTask`, `PostAsyncTask` | all of the service | waits for another thread | the waiting thread holds nothing the other needs |
| Task sequence process (`utils/src/task_sequence_process.cpp`) | bounded queues, a running flag | `AddTask`, `FinishTask`, timeout | fold controllers | the flag is read and set in different critical sections | one task at a time |
| Fold sensors, state managers, policies | fold state, display mode, one-step gesture | `HandleSensorChange`, `ChangeScreenDisplayMode` | sensors, the machine, SCB | read, wait, write | the last sensor value wins |
| Screen identifiers (in `SSM`) | two maps | create, update, delete, convert | render service | overwriting one direction | the maps are inverse |
| SCB client, user switch (in `SSM`, `screen_session_manager_client`) | the proxy that is called, one proxy per user, the current user and pid, the old pids | `SetClient`, `SwitchUser`, death callback | SCB processes, one per user | a client dies while its successor connects; nothing holds a call together; the death callback waits without a predicate | the service calls the process it switched to last, while that one lives |
| Window focus (`MGR`, `window_focus_controller.cpp`) | per group the focused, last and last application's session and two flags; `isFocused_` and a parked request per session; three maps of groups | request, give up, fall back, flush, lifecycle events | sessions, clients, scene board | requests made on behalf of others, telling held back across requests; maps updated one by one | sessions and clients agree with the group; every display has one group |
| Session lifecycle (`SES`, `SCS`, `main_session.cpp`, `MGR`, `wm/src`) | state, active flag, pid, token and stage of the session; state of the client's window | connect, foreground, background, disconnect, reset, terminate, recover | client by synchronous and one-way IPC, ability manager (AMS) | crossed and overtaken calls, jobs without a name, deaths, timed-out starts, a crash of the scene board | both sides agree when quiet; a former client's call does not reach its successor |
| Life cycle task queue (`SES`, `SCS`, `MGR`) | a bounded queue of START and STOP tasks per session, a flag per task | post, hand over, end by type, expire, clear | the manager's thread, the scene board's main thread | completions name a type, not a task; tasks expire while they run | one task at a time, each once, none stuck |
| Scene session manager, dirty windows, input, services, intention events, extensions, multi-instance, classic servers, client libraries, utilities, bindings, tools, previewer | see `PROJECT.json` | | | | only the manager's requests of the session are modelled; the others are not, with the reason for each |

Within the display manager service a power cycle goes like this. The power
service calls `SuspendBegin` and `SetDisplayState(OFF)`. Both go through the
machine, whose handler for the second runs the handshake: announce the off to
the lock screen, wait until it has drawn its animation or the time is up, then
let the machine move to `WAIT_LOCK_SCREEN_IND`. `SetScreenPowerForAll(OFF)`
then powers the panels on the scheduler's thread, which also assigns the state.
Meanwhile a user may cancel or skip the wait, the lock screen may report a
fingerprint, the AOD may take over, sensors may fold the device, and a timeout
may turn everything off. All of this runs on IPC threads that hold the global
mutex when they can get it.

The scene session manager is the opposite: one thread runs everything as tasks.
What is hard there is not interleaving but sequence. A window is shown (the
scene board flushes it), its application is started, connected, brought to the
foreground and told about its focus by separate tasks in any order; a request
for the focus may be refused, parked for the next flush, passed on to a dialog
or granted in silence, and each outcome leaves state for the next.

Between the processes order is all there is. The scene board asks AMS to start
an ability and waits; the ability's process connects, perhaps before AMS has
answered; it shows its window by a synchronous call and hides it by a one-way
call; every call is checked on an IPC thread and done later on the manager's
thread. An ability may be closed and started again, die, or time out at any
point, and the scene board itself may crash and come back with an empty session
that the living clients recover. The display manager service in turn serves one
scene board per user and has to notice which of them is there.

## 2. How the modules depend on each other

| Component | Model | Abstract specification | Proofs |
|---|---|---|---|
| Screen-off handshake | `ScreenOffHandshake` (extends `ScreenPowerTable`) | `ScreenOff` | `ScreenOffHandshakeProofs` |
| Global mutex | `DmsGlobalMutex` | `SerialRunMode` | `DmsGlobalMutexProofs` |
| Power state machine, timer, scheduler | `ScreenStateMachine` (extends `ScreenPowerTable`) | | `ScreenStateMachineProofs` |
| Window focus | `WindowFocus`, `MCWindowFocus` | | `WindowFocusProofs` |
| Life cycle tasks of a session | `LifeCycleTaskQueue` | `TaskTurns` | `LifeCycleTaskQueueProofs` |
| Session, clients, AMS | `SessionLifecycle` | | `SessionLifecycleProofs` |
| SCB client and user switch | `ScbClient` | | `ScbClientProofs` |

`ScreenOffHandshake` and `ScreenStateMachine` are two views of one machine: the
first keeps the power service's rows and models the handler of the screen-off
step by step, the second keeps every row and every caller and reduces the
handler to what it does to the machine. They share the transition table.
`SessionLifecycle` and `LifeCycleTaskQueue` are two views of one session in the
same way: the bodies of STOP tasks appear in the first as `SetTerminating`,
and the second keeps of the session only whether it is terminating.

## 3. Modules

### ScreenPowerTable

States, events and the transition table `InitStateMachineTbl` builds
(`FSM:267-465`) as a set of rows. A pair without a row is an invalid
transition. `GetPowerStatus`, `ConvertPowerStatus2ScreenState` and
`DisplayStateEvent` are the conversions of `SSM`, by value. The reasons of a
power call are reduced to the ones the code tells apart; `NORMAL` stands for
all the others. `TableIsAFunction` says that no pair has two rows; TLC
evaluates it as an assumption.

### ScreenOffHandshake

One action per step between two accesses to shared state. `Power` is the power
service's thread (the code marks these calls "only power use": they come one
after the other), `Cancellers`, `Skippers` and `LockScreens` are threads of
other callers.

* `SuspendBegin`, `WakeUpBegin`, `SetDisplayState`, `SetScreenPowerForAll`,
  `WakeUpOrSuspendEnd` start a call (`PowerCall`). `HandlePowerStateChange`
  finds the row and goes to its handler; `HandleExit` is everything after the
  handler (`FSM:107-123`).
* `NotifyOff` is the critical section of `HandleSetDisplayStateOff`;
  `OffCheck`, `OffArm`, `OffEnter`, `OffWake`, `OffTimeout` are
  `BlockScreenOffByCV` access by access, so that a notification between the
  flag and the wait is lost as it is in the code; `OnCheck` ... `OnTimeout` do
  the same for the screen-on.
* `TryToCancelScreenOff`, `CancelBeforeNotify`, `CancelReadGot`,
  `CancelReadNeed`, `CancelAfterNotify` are `TryToCancelScreenOff`, which reads
  two plain flags before it takes `screenOffMutex_`.
  `ForceSkipScreenOffAnimation` likewise. `KeyguardDrawn`, `ScreenLockEvent`,
  `SetGotScreenOff`, `WakeUpBlock`, `ScreenOffCVNotify` are the lock screen's.

Mutexes: `notifyMutex_` is a program counter predicate of the thread in it;
`screenOffMutex_` and `screenOnMutex_` only protect the wait, which the
`...Enter` steps make atomic with its registration.

Abstractions: a handler of the machine whose row is not one of the power
service's does not occur; the AOD part of `SetDisplayState` and the timeouts
are in `ScreenStateMachine`; the SCREEN_INIT phase, dreams, a device that may
not wake up, an empty list of screens and switching off one of several screens
are left out, as are spurious wake-ups.

### ScreenOff

What the handshake promises without threads or flags: a suspension opens a
window; a cancel accepted in the window is binding, the off is then never
announced and the display state does not change; an announced off ends in the
state asked for, in ON_SUSPEND, or where it started.
`ScreenOffHandshake!KeepsPromise` is `ScreenOff!Spec` under a refinement
mapping: the window is `canCancel` and `needCancel`, "announced" is the control
point between the announcement and the decision, and the display state is the
one in force before an off that is not decided yet.

### DmsGlobalMutex and SerialRunMode

`HoldLock`, `LeaveHoldLock`, `ForceUnlock`, `ForceLock` are the constructor and
destructor of `HoldLock` and `DropLock`. `TryLock` is the short-circuit
`try_lock() || (lockStatus && try_lock_for(...))`, with the second attempt as
a state of its own that `TryLockFor` or `TryLockTimeout` leaves. `SafeWaitFor`,
`EndWait`, `LeaveSafeWaitFor` are `safe_wait_for`, with the mutex the caller
waits with (`waitMutex`, one for all threads, the worst case).
`PostVoidSyncTask` is the other user of `DropLock`. A DropLock outside every
section brings `counter` to -1, which the code allows and the model too.

A DropLock two sections deep would unlock a mutex and leave `counter` at one;
the model allows it too: the thread then is in `DropPc` with a section paused
and `SerialModeOwns` says that it owns nothing.

`SerialRunMode` is the promise of the comment at `dms_global_mutex.h:40`: a
section is out, serial, concurrent or paused; one is serial at most; none
changes its mode while it runs.

### ScreenStateMachine

Threads: the power service, `SynchronizePowerStatus` calls, the AOD, fold
events, and the screen power scheduler with its queue. `Lock`, `StopFrom`,
`Action`, `StartTargetTimer`, `Check`, `TransferState`, `Reset`, `StopTarget`
are `HandlePowerStateChange` statement by statement: between two of them the
scheduler, a timeout callback or a fingerprint may assign the state without the
mutex. A handler is reduced to what it does to the machine (`ActNeutral`,
`ActSetDisplayState`, `ActSetScreenPower`, `ActSetScreenPowerForAll`); the last
waits for the scheduler's thread (`AwaitTask`), on which `SynchronizePowerStatus`
runs whole calls of the machine. `CheckStatus`, `ReadFlag` and `ReadFailure` are what
`SetDisplayState` does after its handler: the flag of the AOD's answer is read twice,
and the answer may come in between. The timer keeps a set of armed states, for each state a
count of the tasks queued, waiting and notified, and the callback under way
(which holds the timer's mutex).

Two steps of the code are merged: the two assignments of `ToTransition`, and
the insertion of a key with the submission of its task. In the first, no reader
uses both values at once except `Check`, which reads the flag first; in the
second only timer tasks can run in between, and they find the same before and
after.

Assumed: a folding device without extended screens, past SCREEN_INIT. The
handler of POWER_OFF_DIRECTLY is not an action because no code that runs posts
the event.

### WindowFocus

`focus` is the `FocusGroup` with `isFocused_` of every session and what the
clients were last told; `win` is what the rules read of the sessions (state,
visibility, z-order); `post` is `postProcessFocusState_`; `starting` is
`isStarting_`; `loop` the locals of a running `PostProcessFocus`.

A handler is a task of one thread and therefore one step. The operators have
the names of the functions they stand for and take the windows `w` and the
focus `f`, so that a request made on behalf of another one is a nested call as
it is in the code, with whatever it changed before it was refused:

* `RequestSessionFocus`, `RequestSessionFocusImmediately`,
  `RequestSessionUnfocus` with their checks (`FocusRulesAdmit` is
  `RequestFocusSpecificCheck`), the way through the dialog of a main window
  (`ProcessDialogRequestFocusImmediately`), and the fallbacks
  (`GetNextFocusableSession`, `CheckLastFocusedAppSessionFocus`, a pop menu's
  desktop).
* `ShiftFocus` is `Unfocused` followed by `Focused`, each of which tells the
  client or, if the group's flag says so, does not. `ReleaseBlock` is where a
  client that waited is told.
* Clients and the scene board call `RequestFocusStatus` (also a click and
  `RaiseWindowToTop`), `RequestUnfocusStatus`, `RequestFocusStatusBySCB`,
  `RequestAllAppSessionUnfocus`, `RequestSceneSessionActivation`.
* `Connect`, `Foreground`, `Pause`, `Background`, `DisconnectFromClient`,
  `DestroyAndDisconnectSpecificSession`, `RequestSceneSessionDestruction` are
  the lifecycle with what it does to the focus.
* `FlushUIParams` sets visibility and z-order and collects the sessions to be
  processed; each round of `PostProcessFocus` is a step, the only place where a
  task is more than one, so that a property can speak of a round. No other task
  is enabled in between. With the last round the flush ends (`EndFlush`) and
  `PostProcessProperty` tells the focused dialogs of the main windows that came to
  the foreground before they were visible (`property`, `postProcessProperty_`).

Assumed of the scene board, which is outside this repository: it flushes
distinct z-orders, a hidden window keeps its own; it destroys a session whose
client has gone before it starts it again; a dialog is created under a
connected main window, and its identifier is not one the group remembers.
`STATE_FOREGROUND` and `STATE_ACTIVE` are one state, since no focus rule tells
them apart. The device is a phone or pad with the SCB core and one display
group; sub windows, topmost, hidden, input and voice windows, windows that are
not focusable and `DelayFocusChange` are left out.

`MCWindowFocus` has the windows and the z-orders of the runs.

### LifeCycleTaskQueue and TaskTurns

`queue` is `lifeCycleTaskQueue_`, `running` the tasks with their flag set,
`handler` the jobs of the manager's thread, `mainThread` those of the scene
board's main thread. Tasks are numbers in the order of their posts.

* `PostLifeCycleTask` (`SES:2385`) is one critical section: the front is
  dropped if it has been running for `LIFE_CYCLE_TASK_EXPIRED_TIME_LIMIT`, a
  full queue refuses, otherwise the task is appended and the front is marked.
  Whether the front has expired is the model's choice. On the manager's own thread
  a task that is handed over runs at once (`PostFromHandler`), on another one it is
  handed over after the lock is released (`HandOver`).
* `RemoveLifeCycleTask` takes the front off if it has the type that is named
  and marks the next one. `RemoveLifeCycleTaskByPersistentId` is the completion
  that the scene board's callback posts; `ChangeUIAbilityVisibilityBySCB` ends a
  START from the main thread.
* `PendingSessionActivation`, `TerminateSession`, `TerminateSessionNew` and
  `NotifySessionException` are the bodies with their early returns: each ends
  its own task, asks the scene board, or finds no listener. `TerminateSession` ends
  at once for a session that is terminating, and without an `abilitySessionInfo`
  (`SCS:7971`) whether it is or not. `TerminateSessionTotal` (`SES:2493`), which sets
  `isTerminating_` outside the queue, has no caller but tests and is not modelled.
* `EraseSceneSessionMapById` empties the queue; completions that come later
  find no session.

`MAX_LIFE_CYCLE_TASK_IN_QUEUE` (15, `SES:59`) is the constant `MaxQueue`.
`MoveStartLifeCycleTask` (`MGR:4996`), which carries a START over to another session,
is not modelled.

`TaskTurns` is what the queue promises to whoever posts: tasks take turns in the
order of their posts, one turn at a time; a task is due from its turn on and
begins once, perhaps late, but never before its turn. `LifeCycleTaskQueue!KeepsTurns` is
its `Spec` with the turn as the front of the queue, the waiting tasks as those
behind it, and the due ones as those that are handed over and whose body has
not run. The running flags, the lock and the threads are not part of it: that
they work together is what the refinement says. Bodies do not always begin in the
order of their turns (`PostFromHandler` runs one at once while another waits to be
handed over), which is why `TaskTurns` does not promise it.

### SessionLifecycle

`session` is one main session; `handler` the jobs of the manager's thread;
`startCall`, `answered`, `launched` the call of AMS on that thread; `record`,
`overdue`, `closing` what AMS and the queue of closings still have to do;
`phase`, `toDo`, `calling`, `wire`, `passed` each client's window, main thread,
synchronous call, one-way calls and the call that has passed its check. A client
is one incarnation of the ability with its own token and pid.

* The session's operations (`SetActive`, `Foreground`, `Background`,
  `Disconnect`, `ConnectInner`, `Reconnect`, the resets) are functions of the
  session with the names of the methods.
* The scene board: `Request` posts a job; `RequestSceneSessionActivation`,
  `...ByCall`, `...Background`, `...Destruction` are those jobs. A start ends by
  `StartReturns` or `StartTimesOut`, after which AMS may carry it out late
  (`LateStart`).
* A client: `Create`, `Show`, `Hide`, `Destroy` run on its main thread.
  `CheckForeground`/`PostForeground` and `CheckOneWay`/`PostOneWay` are the two
  halves of a call on its IPC thread; `ForegroundTask`, `BackgroundTask`,
  `DisconnectTask`, `ConnectTask` are the jobs, which no longer know the caller.
  A Connect with a token that does not match ends in the session with `WS_OK`
  (`SCS:225-229`), but the client fails for want of a surface node
  (`session_proxy.cpp:361-369`): in the model it is refused.
* `Die`, `Crash` and `RecoverAndReconnectSceneSession`/`ReconnectTask` are the
  failures and the recovery. What was sent before a death is delivered; a crash
  of the scene board loses all that it was asked.

The properties name the races in which the code does not keep them, and `races`
records which have been run: a call that overtakes an older one (`overtaken`),
a job whose check preceded another client's connection (`crossed`), a client that connects
to a session whose flag a start by call, or a session without token, has left up
(`leftover`), and a recovery into a session that has another client by then
(`lateRecovery`). In these races the code does go wrong; nothing in it promises
otherwise, and the notes of the hazards in `PROJECT.json` name them.

Left out: system and sub windows, a session that is erased (`needRemoveSession`
is false), `reuseDelegatorWindow`, `isNewActive`, a client's notice of
`SetActive`, a refused `MinimizeUIAbility`, and the state
`recoveringFinished_`, which delays what is modelled as the scene board's
requests. One overdue start exists at a time.

### ScbClient

`clientProxy` is `clientProxy_`, the proxy that the display manager service
calls for everything; `multiClientProxyMap` has one per user; `current` is
`currentUserId_` with `currentScbPId_`; `oldScbPids` the pids the next scene
board is told of. A process, its pid and its proxy are one number.

* `SetClient`, `SetClientUser`, `ColdSwitch`, `AddScbClientDeathRecipient` are the
  call of a new process (`SSM:13373`) in the order in which it writes what others
  read; `SwitchUser` and `WarmSwitch` are the call of one that is connected.
  `SwitchScbNodeHandle` is what both switches share, under `oldScbPidsMutex_`.
* `Die` may come at any moment; a call that is under way goes on. A recipient
  that is added after the death is never told.
* `ScbClientDeathCallback`, `WaitTimesOut`, `DeathCheck`, `DeathClear` and
  `DeathLeave` are the callback. It holds `oldScbPidsMutex_` from its wake-up
  on (`Free`), but looks for something to clear (its own proxy, or any while
  there is no current process) and clears it in two steps, under mutexes that
  `SetClient` does not take.

`races` again records what has happened: a call has found another proxy or user
than it had stored (`mixed`), its caller was dead when it switched (`late`), the
callback of the current process has given up waiting for a successor
(`gaveUp`). What goes wrong then is in the notes of the hazards.

Left out: several users at once on displays of their own
(`IsConcurrentUser`), the users' display nodes and the animation that exchanges
them, the fold and display mode that a new scene board is given, and the wait
of a PC for external screens, which has a limit and only delays a call. The
service's `WM_MULTI_USR_ABILITY_ENABLE` is on, as in its `BUILD.gn`.

## 4. Runs

| Run | Instance | Shows |
|---|---|---|
| `handshake` | power, a canceller, a lock screen; ON/OFF; fair | `TypeOK`; `NeedCancelOnlyWhileCancellable`: an accepted cancel is always seen by the screen-off it was meant for; `NeedOffOnlyWhileBlocking`: a request to be woken does not outlive its wait; `SetDisplayStateReturns` although wake-ups are lost |
| `reasons` | power, a canceller, a skipper, five reasons, all display states | `CancelRestores`: a cancelled off leaves display states and machine as before; `KeepsPromise`: the refinement of `ScreenOff` |
| `global_mutex` | three threads, two nested sections; fair | `SerialModeOwns`: the owner of the mutex is the one serial section; `ImplementsSerialRunMode`; `WaitsEnd`: no thread is stuck although the two mutexes are taken in both orders |
| `fsm` | power, AOD, fold events; four reasons, all states, two tasks per timeout | `TimeoutExcluded`: from `StopTimer` to its end a handler runs without a timeout of the state it came from; `ArmedHasTask`; `CalledOffNeverTransfers`; `ForceIsConsumed` |
| `fsm_liveness` | power, synchronization, AOD with a request and answers, fingerprints; fair; 56,148 states | `TimeoutsEnd`, and `CallsReturn`: a call returns although handlers wait under the machine's mutex, for timeout callbacks and, in the AOD's request, for the scheduler's thread, which calls the machine itself. The exception is the `Circle` of the two, which is the deadlock of `fsm_deadlock`; theorems `OnlyTheCircleBlocks` and `NoCircle` say that there is no other and what it needs |
| `focus_dialog` | main window, dialog, desktop, keyguard; disconnection of the dialog, forced requests, both modes | `FocusedFlagAgrees`: `isFocused_` is set in the session the group names and no other; `ToldOnlyFocused`: who believes to have the focus has it and is in the foreground; `ToldUnlessBlocked`: who has it knows, or the group remembers to tell; `KeyguardKeepsFocus` |
| `focus_systems` | main window, desktop, pop menu, panel; pause, requests of reason RECENT | `ToldOnlyFocused` along the fallbacks to the desktop and to the last application, with requests that are parked for the flush |
| `life_cycle_queue` | queue of two, three tasks, one call of `ChangeUIAbilityVisibilityBySCB`; fair; 459,316 states | `KeepsTurns`: the refinement of `TaskTurns`; `RunsOnce`; `FrontWillComplete`: no return, expiry or foreign completion leaves a front that nothing will take off; `OverlapBounded`: bodies overlap only as often as the queue lost its front to something else than a completion; `QueuedTaskRuns` |
| `session_lifecycle` | two incarnations, three requests, one crash; fair; 522,874 states | `ActiveFlagAgrees`; `OrderProtects`: jobs without a name still find their own connection; `ExpectedConnects`: the client that was started is never refused; `QuietAgreement`: window and session agree once every queue is empty; `ShownBecomesActive` |
| `scb_client` | three processes of two users, which may all die; fair; 346,551 states | `LastCallWins`: the service calls the process it switched to last, and all records name it; `ConnectedAreKnown`: every living process can be switched to; `DeadAreForgotten`: nothing brings a dead one's proxy or pid back; `DeathsAreHandled` |

Two runs end in a counterexample and stand for a place where a comment, a test
or a return value says more than the code keeps:

| Run | Counterexample |
|---|---|
| `fsm_deadlock` | `SynchronizePowerStatus` runs `HandlePowerStateChange` on the scheduler's thread while `SetPowerStateForAod` holds the machine's mutex and waits for a task of that scheduler. Neither returns (`SSM:17413` against `SSM:17796`, `6969`) |
| `focus_once` | a main window is shown together with the desktop; its request gives the focus to its dialog but returns `WS_DO_NOTHING`, so the same flush goes on and gives the focus to the desktop (`MGR:16673-16674`; the comment at `16624` and the test `PostProcessFocus10` say one change per group) |

**Bounds.** Threads never identify themselves to each other, so one thread of a
role already meets every other role in every order; a second canceller meets
only `notifyMutex_`, which admits one at a time. The handshake has no counter,
so its runs are complete for their constants. `MaxNesting = 2` distinguishes
the outermost section, an inner one, and a wait inside either; deeper ones
repeat the inner. `MaxTasks` stops new calls while that many tasks of a timeout
live: with two, a stale task and a fresh one of the same state coexist, the
case `ArmedHasTask` is about. The requests of a run are chosen so that its
rows are taken; together the passing runs fire every action. A focus run has
at most four windows: a rule compares the window that asks, the focused one, one
between them and one to fall back to. Nothing in `WindowFocus` counts, so its
runs are complete for their windows and z-orders. Two unrelated main windows
meet in none of the runs: the pair of a main window and its dialog stands for
two applications, except in the order of several floating windows.
Three posts against a queue of two are the least with which a front expires while
two tasks wait, a full queue refuses, and a late completion ends a younger task
of its type. Two incarnations are a former client and its successor; a third
meets the second as the second met the first. With three requests the scene
board can start, close and start again; the safety properties were also checked with
four (6,467,998 states). Three processes of two users are a user's scene board, its
restart, and another user's between them.

**Fairness.** Runs without a liveness property have none. `ScreenOffHandshake!Fairness`: a call in
progress is scheduled, and the two waits have time limits, so their timeouts
come; the lock screen and the user need not ever act. `DmsGlobalMutex!FairSpec`:
`try_lock_for` and `wait_for` have limits, hence weak fairness of a thread in
the lock's code; `waitMutex` is a plain mutex that others take and leave, hence
strong fairness of getting it; nobody has to end a section. `ScreenStateMachine!
FairSpec`: strong fairness of a call that goes on, because it waits for mutexes
that are left again and again, and of a task's deadline; nothing makes a thread
start a call. `WindowFocus` has no fairness and no liveness property: nothing in
the code promises when a client is told (see the hazards). `LifeCycleTaskQueue!
FairSpec`: the manager's thread and the scene board's main thread take their
jobs, and a thread that has left the lock hands its task over; nobody has to post,
expire or erase. `SessionLifecycle!FairSpec`: threads run on, one-way calls arrive
and AMS answers; nobody has to ask, time out, die or crash. `ScbClient!FairSpec`:
the thread of a call and that of a death go on, and the callback's wait has a
limit; weak fairness is enough for `oldScbPidsMutex_`, because every process
holds it a bounded number of times.

Deadlock is checked in the runs of the first four modules, except the two that
meet the real one (`fsm_liveness`, `fsm_deadlock`). In the last three, posts,
requests and processes are bounded and everything may come to rest, which is
not a fault: their configurations switch the check off, and their liveness
properties say that nothing is left undone.

## 5. Proofs

The theorems hold for any sets of threads, clients, users, reasons and requests,
any nesting and any of the bounds, from the modules' named assumptions only
(roles are disjoint, nobody is not somebody, bounds are numbers, requests are
among those the code accepts).

*Handshake.* `NeedCancelOnlyWhileCancellable` alone is not inductive: a
canceller in `CancelBeforeNotify` must know that it still holds `notifyMutex_`
and that the power thread is therefore not in its critical section, and
`NeedOffOnlyWhileBlocking` must know what the clients that read the flag may
still do. `HandshakeInv` adds who may be where at the same time and what the
locals of the power thread mean at each point. The proof has one lemma per
group of actions; the theorems `TypeCorrect`, `CancelDecidedUnderMutex`,
`RequestOnlyWhileBlocking`, `CancelRestoresAlways` follow from it.
`HandshakeImplementsScreenOff` proves `Spec => KeepsPromise`: under the
invariant every step is a step of `ScreenOff` or a stutter.
`CallsEndAfterTheirSteps` counts the steps a call has left at each place
(`StepsLeft`, twelve for a screen-off): every step of its own and every
notification brings it nearer to its end. `NobodyBlocks` adds that it can always take the
next one, or waits for `notifyMutex_` while the client that owns it
(`NotifyMutexOwned`) can.

*Global mutex.* `SerialModeOwns` needs `DropRemembers`: what a `DropLock`
remembers in `hasLock` is what its thread has to undo, and a thread in
`try_lock_for` is inside a section. `LockInv` is both with `TypeOK`. The step of
`ForceLock` is where it is used: with `hasLock` false nothing was unlocked and
nothing may be locked. `LockImplementsSerialRunMode` proves the refinement: an
unlock ends or pauses the one serial section.
The two mutexes are taken in both orders, and what resolves that is the time
limit of one of them: a thread waits without limit only for `waitMutex`, whose
owner is exactly the thread at the places where the code holds it
(`WaitMutexOwnsAlways`), and none of these waits without limit (`NobodyBlocks`).
`LockCodeIsLeft` bounds the way out of the lock's code by seven steps.

*Power state machine.* `ScreenStateMachineProofs` proves the module's safety
properties for any threads, requests and number of timer tasks. The machine's
mutex makes handlers exclude each other (`Exclusive`), so the argument is about
what bypasses it. A task of the scheduler assigns the state for a poster that
waits for it, and that poster is either the handler that holds the mutex or the
power thread outside every handler (`Waiting`, with `WaitingKept`); hence nobody
lowers the force flag between the point where a handler of the power thread is
called off and its `Check` (`CalledOff`), which is `CalledOffNeverTransfers`.
`JobsFit` ties what a call keeps in its locals to its event and the row it
found; the lemma `TableFacts` goes through the rows of the table once, and
`StopTimerFacts` says what `StopTimer` leaves of keys and tasks, on which
`TimeoutExcluded` and `ArmedHasTask` rest. From the assumptions it takes that
the callers' roles are disjoint and that `None` is neither a thread nor a state.
`OnlyTheCircleBlocks` says how far the deadlock of `fsm_deadlock` reaches. `Posted` is the
converse of `Waiting`: who waits for a task has one in the queue. So while a call is
in progress a timeout callback or some thread goes on (`MayStep`, the guards of
`CallStep`), or the threads are in the `Circle`: a caller holds the machine's
mutex and waits for the scheduler, whose thread waits for that mutex.
`NoCircle` proves that it needs a `SynchronizePowerStatus` and, on the other side, a
handler that sets the power of all screens, which is one of the AOD's requests or
a `SetScreenPowerForAll` with the reason of a pre-bright authentication: without
either side the machine has no deadlock at all. `CallsEndAfterTheirSteps` gives every
call of the machine a number of steps, 30 at most, that no other thread
increases.

*Window focus.* `FocusedFlagAlwaysAgrees`: `Agrees` is the property with the
shape of the group's record. Because a request may be made inside another and may
have moved the focus before it is refused, there is one lemma per operation that
says that its result agrees whatever it answers; the actions follow, and no
assumption on the constants is used. `OnlyTheFocusedIsTold` and
`TheFocusedIsTold` need more. While the focus moves, the group's two flags change
roles: what was held back from telling the focused session becomes what is held
back from telling that it lost the focus (`CarryBlock`, `TellsUnfocused`), so
`Told` of the old group is what lets the old client be told. `Answers` says of
every request that it leaves the focus alone or settles a new one (`Settled`),
even one that was refused after its dialog had moved the focus, and
`GiveFocusUpSettles` carries the flags through the nested request of the last
application. A session that leaves the foreground is excepted from `Told` (the
set `E`) until its own request has taken the focus from it (`LeavesForeground`).
`Known` is the strengthening that the states need: a session that is not there
but has the focus waits, so a client that connects need not be told.
`RequestAllAppSessionUnfocus` needs `HighestIsThere`: of finitely many
windows one is the highest, which is why `WindowsAssumption` says that they are
finite.
`AlwaysTyped` is `TypeOK` with the shape of the parts (`Typed`). It needs that the
requests, whose fallbacks are CHOOSEs, answer with sessions (`HighestIsThere`),
and that the queue of a flush, which `CollectProcessingSessions` orders by rank,
has a session at every position: `RanksAreAllThere` shows that in a finite
set under a total strict order, given as a function, every rank is taken, because
the ranks are injective and as many as the
sessions.
`FlushServesInTurn` says more of the same queue (`QueueIsSorted`): it holds exactly
those who ask (`Asking`), each once, and two of them in it stand in the order of
`Sooner`. A round takes the head away and resets its request alone, so what
is left of the queue is still what is left of the requests (`RoundServes`), even
after the focus has moved and the rounds only reset. `FlushLeavesNothing` is
the action property that follows for the last round. No run checks these two,
which speak of the proofs' own operators.
`FlushChangesTwiceOnlyPastDialog` bounds the counterexample of `focus_once`: a
flush that has moved the focus without counting it has given it to a dialog
(`UncountedIsDialog`, after one lemma per request on what its answer says of the
focus), so a flush that moves the focus a second time takes it from a dialog.
`KeyguardAlwaysKeepsFocus` proves the action property the same way: `Yields` says of
every request, and of the dialog's own inside it, that the keyguard loses the focus
to nobody below it, and `UnfocusOfAnother` that what another session gives up is
refused while the keyguard has it.

*Life cycle queue.* `RunsOnce` and `OverlapBounded` speak of jobs of several
threads. `Inv` adds that the queue is in the order of the posts (`Increasing`)
and that a task that was handed over is in one place only (`OnePlace`): being
started, in the handler's queue, or past its body. The front of the queue is
then never one that has run, because tasks are marked when they come to the
front and the queue only loses tasks at the front. `OverlapBounded` counts: a
step that adds a task in flight puts it at the front, and one that takes the
front off without a completion is counted in `takenOff`. The counting is done with
the facts of `FiniteSetTheorems`.
`QueueTakesTurns` proves `Spec => KeepsTurns`. In a queue in the order of the posts
the front is the least number (`FrontIsFirst`), so that appending, dropping an
expired front and taking one off are all either `Keeps` or `Passes`
(`EnqueueTurn`, `RemoveTurn`); `JobTurn` combines that with a body that begins in
the same step. The running flag is where the invariant is used: a task is
handed over in just the step that makes it the front. `NobodyIsOvertaken` is
`InOrder` of the promise, which is inductive along its steps alone.
`TheQueueIsServed` follows from `FrontWillComplete`: while tasks are queued, and
unless the session is gone or the front found no listener, one of the three threads
has a step to take that serves the queue.

*Session life cycle.* `OrderProtects` needs to know, for every job in the
handler's queue, which connections lie behind and before it (`Orderly`,
`PassedInTime`): a client connects once (`JoinsOnce`), so a job of a former
client that was posted before its successor's Connect also runs before it.
`ExpectedConnects` needs that from the reset of a session to the Connect of the
expected client the session stays as the reset left it (`KeptForConnect`): every
job that could revive it was checked against a pid that has just been erased.
`LaunchedIsKnown`, `CallersHaveWindows` tie AMS and the windows to that.
`QuietStatesAgree` speaks of states in which nothing is under way and holds
because of what is promised while something is (`QuietInv`). `Follows` says of
the session's own client, while no race was run: its window is as the last of its
requests says, wherever that request is (`LastRequest`: on the wire, checked, or
queued); and once the requests are carried out the session agrees with the window,
unless the client has been told to hide or destroy it (`Agrees`). That survives the
clients' steps because of `Traffic`: a client is silent before it is connected
and while its host is dead, calls Foreground only with a window that is not shown and
leaves only with one that is destroyed. It survives the scene board's because
of `HeldOrTold`, which makes a lost session's client one that has been told to
go, and of `Settled`, which keeps a job from finding a session between two
states of another.
`NoCreatorIsForgotten` is for the synchronous call a client begins with: while it
waits, its Connect is on the handler's queue, which nothing but its own turn or the
death of the scene board takes off.

*SCB clients.* `Inv` of `ScbClientProofs` says what a proxy can be that is not its
caller's any more: that of a process that is connecting (`Checked`, and
`CurrentConnected` before the first switch), which makes
its own switch mixed, or one fetched for a user, which is that of his only living
process (`Fetched`, `OnlyOne`, `ConnectedAreKnown`). `Agreement` is
`LastCallWins` with what holds while a hot switch is under way; `InPlace` is the
hot switch that finds its user current already; `CurrentAwaited` says that a
current process whose callback is done was given up.
`OneCallbackHoldsTheMutex` and `DeathCallbacksAdvance` are about the death callbacks:
one is in its critical section at most, a process that was told dead stays so,
and its callback goes through its stages forward, four at most.

*Only model-checked:* the seven liveness properties (fairness and ENABLED are out of
the prover's reach) and the two counterexamples. Every invariant, action
property and refinement that a passing run checks is a theorem. What can be proved
of the liveness properties is what they need besides fairness, and these are the
theorems without a run: in `ScreenOffHandshake`, `DmsGlobalMutex` and
`ScreenStateMachine` every step of a call brings it nearer to its end, and
there is always a thread that can take one; the life cycle queue, a client's
creation and a death callback have somebody or something in hand that serves
them. That the step is then taken is the fairness TLC assumes. No definition is
recursive, and no proof needs induction over data: where a CHOOSE must have
something to choose from, the argument counts instead.

## 6. Not modelled, and why

* Time: a time limit may pass at any moment after the wait began. This keeps
  every order the code can show and some that its delays make unlikely.
* Spurious wake-ups of the two handshake waits and of `safe_wait_for`: they
  would only end a wait early, as a notification does.
* `WaitAodOpNotify`, the SCREEN_INIT phase, dreams, one screen of several,
  extended screens: start-up and devices whose order of events the rest of the
  machine does not depend on.
* `TaskSequenceProcess`: nothing under `src/` creates one, so its callers, their
  threads and its timer are unknown; a model would be of an invented program.
* Fold sensors and policies, screen identifiers, virtual screens, display nodes:
  what decides their steps (sensor data, identifiers that the render service
  hands out, the end of an animation) is outside this repository. The display
  nodes of two users were tried together with `ScbClient`: the callbacks that end an
  animation multiply its states beyond what a run can visit.
* Dirty windows, layout, decoration, drawing, input dispatch: geometry computed
  from one snapshot on one thread, with little control to get wrong.
* The classic window and display servers, which serve products without a scene
  board; the client libraries, language bindings, tools and the previewer, which
  keep no state that other parts rely on, or convert data.
* The bodies of listeners and IPC to other processes.
