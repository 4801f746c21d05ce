----------------------- MODULE ScreenStateMachineProofs -----------------------
(***************************************************************************)
(* The safety properties of ScreenStateMachine, for any threads, requests  *)
(* and number of timer tasks.                                              *)
(*                                                                         *)
(* The argument: the machine's mutex makes its handlers exclude each       *)
(* other, so only what bypasses it matters.  A task of the scheduler       *)
(* assigns the state for a poster who waits for it, and that is either the *)
(* handler that holds the mutex or the power thread outside every handler  *)
(* (Waiting): none runs while a handler of the power thread goes on.       *)
(*                                                                         *)
(* The last parts are about progress: one circle of waits is possible and  *)
(* no other, and every call has a bounded number of steps.                 *)
(***************************************************************************)
EXTENDS ScreenStateMachine, SequenceTheorems, TLAPS

(* Where a thread owns the machine's mutex.                                *)
Inside == FsmPc \ {"Lock"}

ForAllEvent ==
  { "SET_SCREEN_POWER_FOR_ALL_POWER_ON", "SET_SCREEN_POWER_FOR_ALL_POWER_OFF",
    "SET_SCREEN_POWER_FOR_ALL_DOZE", "SET_SCREEN_POWER_FOR_ALL_DOZE_SUSPEND",
    "SET_SCREEN_POWER_FOR_ALL_FORCE_POWER_OFF" }
DisplayEvent ==
  { "SET_DISPLAY_STATE", "SET_DISPLAY_STATE_DOZE",
    "SET_DISPLAY_STATE_DOZE_SUSPEND" }

Task == [ by : Callers, do : { "ToTransition", "SetRS" },
          status : PowerStatus, state : TransitionState ]

(* TypeOK but for the mutex's owner, with the shape of queue and tasks.    *)
Typed ==
  /\ transState \in TransitionState /\ isForceTrans \in BOOLEAN
  /\ powerStatus \in PowerStatus /\ aodNotifyFlag \in AodStatus
  /\ mtx \in Handlers \cup {None}
  /\ queue \in Seq(Task)
  /\ armed \subseteq TimedState /\ firing \in TimedState \cup {None}
  /\ tasks \in [TimedState -> [Phase -> Nat]]
  /\ job \in [Handlers -> Job]
  /\ pc \in [Handlers -> FsmPc \cup CallPc]

Exclusive == \A t \in Handlers : mtx = t <=> pc[t] \in Inside

(* What a call carries fits its event, and its row fits the event.         *)
JobsFit ==
  \A t \in Handlers :
    /\ pc[t] \in FsmPc /\ job[t].info \in { "ForAll", "Screen" } =>
         job[t].arg \in PowerStatus
    /\ job[t].event \in ForAllEvent => job[t].info = "ForAll" /\ t # Sched
    /\ job[t].event \in DisplayEvent =>
         t = Power /\ job[t].then = "CheckStatus"
    /\ pc[t] = "SetFlag" => job[t].arg \in AodStatus
    /\ pc[t] \in FsmPc => job[t].then # "SetFlag"
    /\ pc[t] \in Inside =>
         job[t].row \in Transitions /\ job[t].row.event = job[t].event
    /\ pc[t] = "StartTimer" => job[t].row.timeout # "None"

(* The poster of a task waits for it, in a handler, or outside if it is    *)
(* the power thread or a synchronization; the scheduler's thread is busy   *)
(* with the call at the head of its queue.                                 *)
Waiting ==
  /\ \A i \in 1 .. Len(queue) :
       /\ queue[i].do = "ToTransition" =>
            \/ pc[queue[i].by] = "AwaitTask"
            \/ queue[i].by = Power /\ pc[Power] = "AwaitDone"
       /\ queue[i].do = "SetRS" => pc[queue[i].by] = "AwaitDone"
  /\ \A i, j \in 1 .. Len(queue) : queue[i].by = queue[j].by => i = j
  /\ pc[Sched] # "Idle" => queue # <<>> /\ Head(queue).do = "SetRS"
  /\ pc[Sched] \in FsmPc => job[Sched].then = "AwaitDone"

(* A handler that has called its transition off finds the force flag up.   *)
CalledOff ==
  \A t \in Handlers : job[t].calledOff =>
    /\ job[t].event \in DisplayEvent
    /\ pc[t] \in { "StartTimer", "Check", "Reset", "StopTarget", "CheckStatus" }
    /\ pc[t] \in { "StartTimer", "Check" } => isForceTrans

(* Without a fingerprint the flag is down outside the mutex and before it  *)
(* is left.                                                                *)
ForceHeld ==
  ~MayFingerprint /\ isForceTrans =>
    /\ mtx # None
    /\ \A t \in Handlers : pc[t] # "StopTarget"

Inv ==
  /\ Typed /\ Exclusive /\ JobsFit /\ Waiting /\ CalledOff /\ ForceHeld
  /\ TimeoutExcluded /\ ArmedHasTask
-----------------------------------------------------------------------------
(* The table: what it consists of, and which rows set a power state for    *)
(* all screens, set a display state and start a timeout.                   *)
LEMMA TableFacts ==
  ASSUME NEW r \in Transitions
  PROVE  /\ r \in TransitionRow
         /\ r.action = "DoSetScreenPowerForAll" => r.event \in ForAllEvent
         /\ r.action = "DoSetDisplayState" => r.event \in DisplayEvent
         /\ r.timeout # "None" => r.target # r.state /\ r.target \in TimedState
<1> DEFINE Fits(q) ==
      /\ q \in TransitionRow
      /\ q.action = "DoSetScreenPowerForAll" => q.event \in ForAllEvent
      /\ q.action = "DoSetDisplayState" => q.event \in DisplayEvent
      /\ q.timeout # "None" => q.target # q.state
<1>1. ASSUME NEW s \in TransitionState, NEW events \in SUBSET PowerEvent,
             NEW x \in TransitionState, NEW act \in PowerAction,
             NEW tmo \in TimeoutCallback,
             act = "DoSetScreenPowerForAll" => events \subseteq ForAllEvent,
             act = "DoSetDisplayState" => events \subseteq DisplayEvent,
             tmo # "None" => x # s,
             NEW q \in RowsT(s, events, x, act, tmo)
      PROVE  Fits(q)
  BY <1>1 DEF RowsT, TransitionRow
<1> HIDE DEF Fits
<1>2. ASSUME r \in FoldRows PROVE Fits(r)
  BY <1>1, <1>2, SMTT(60) DEF FoldRows, Rows, TransitionState,
         PowerEvent, PowerAction, TimeoutCallback, ForAllEvent, DisplayEvent,
         WakeUps, Suspends
<1>3. ASSUME r \in InitRows PROVE Fits(r)
  BY <1>1, <1>3, SMTT(60) DEF InitRows, Rows, TransitionState,
         PowerEvent, PowerAction, TimeoutCallback, ForAllEvent, DisplayEvent,
         WakeUps, Suspends
<1>4. ASSUME r \in OffRows PROVE Fits(r)
  BY <1>1, <1>4, SMTT(60) DEF OffRows, Rows, TransitionState,
         PowerEvent, PowerAction, TimeoutCallback, ForAllEvent, DisplayEvent,
         WakeUps, Suspends
<1>5. ASSUME r \in WaitOnRows PROVE Fits(r)
  BY <1>1, <1>5, SMTT(60) DEF WaitOnRows, Rows, TransitionState,
         PowerEvent, PowerAction, TimeoutCallback, ForAllEvent, DisplayEvent,
         WakeUps, Suspends
<1>6. ASSUME r \in OnRows PROVE Fits(r)
  BY <1>1, <1>6, SMTT(60) DEF OnRows, Rows, TransitionState,
         PowerEvent, PowerAction, TimeoutCallback, ForAllEvent, DisplayEvent,
         WakeUps, Suspends
<1>7. ASSUME r \in WaitLockScreenRows PROVE Fits(r)
  BY <1>1, <1>7, SMTT(60) DEF WaitLockScreenRows, Rows, TransitionState,
         PowerEvent, PowerAction, TimeoutCallback, ForAllEvent, DisplayEvent,
         WakeUps, Suspends
<1>8. ASSUME r \in WaitCtrlRows PROVE Fits(r)
  BY <1>1, <1>8, SMTT(60) DEF WaitCtrlRows, Rows, TransitionState,
         PowerEvent, PowerAction, TimeoutCallback, ForAllEvent, DisplayEvent,
         WakeUps, Suspends
<1>9. ASSUME r \in AodRows PROVE Fits(r)
  BY <1>1, <1>9, SMTT(60) DEF AodRows, Rows, TransitionState,
         PowerEvent, PowerAction, TimeoutCallback, ForAllEvent, DisplayEvent,
         WakeUps, Suspends
<1>10. ASSUME r \in AdvancedOnRows PROVE Fits(r)
  BY <1>1, <1>10, SMTT(60) DEF AdvancedOnRows, Rows, TransitionState,
         PowerEvent, PowerAction, TimeoutCallback, ForAllEvent, DisplayEvent,
         WakeUps, Suspends
<1>11. ASSUME r \in DozeRows PROVE Fits(r)
  BY <1>1, <1>11, SMTT(60) DEF DozeRows, Rows, TransitionState,
         PowerEvent, PowerAction, TimeoutCallback, ForAllEvent, DisplayEvent,
         WakeUps, Suspends
<1>12. ASSUME r \in ApDozeRows PROVE Fits(r)
  BY <1>1, <1>12, SMTT(60) DEF ApDozeRows, Rows, TransitionState,
         PowerEvent, PowerAction, TimeoutCallback, ForAllEvent, DisplayEvent,
         WakeUps, Suspends
<1>13. Fits(r)
  BY <1>2, <1>3, <1>4, <1>5, <1>6, <1>7, <1>8, <1>9, <1>10, <1>11,
     <1>12 DEF Transitions
<1>14. r.timeout # "None" => r.target \in TimedState
  BY DEF TimedState
<1> QED
  BY <1>13, <1>14 DEF Fits

(* What a thread starts from is a row and a job.                            *)
LEMMA NoRowFits == NoRow \in TransitionRow
BY DEF NoRow, TransitionRow, TransitionState, PowerEvent, PowerAction,
       TimeoutCallback

LEMMA NoJobFits ==
  /\ NoJob \in Job /\ NoJob.info = "monostate" /\ NoJob.then = "Idle"
  /\ NoJob.event \notin ForAllEvent \cup DisplayEvent /\ ~NoJob.calledOff
BY NoRowFits DEF NoJob, Job, Info, CallPc, PowerEvent, ForAllEvent, DisplayEvent

(* Jobs remain jobs when they get a row, an answer, or are called off.     *)
LEMMA JobUpdates ==
  ASSUME job \in [Handlers -> Job], NEW t \in Handlers
  PROVE  /\ \A r \in TransitionRow : [job EXCEPT ![t].row = r] \in [Handlers -> Job]
         /\ \A a \in AodStatus : [job EXCEPT ![t].arg = a] \in [Handlers -> Job]
         /\ [job EXCEPT ![t].calledOff = TRUE] \in [Handlers -> Job]
<1>1. ASSUME NEW r \in TransitionRow
      PROVE  [job EXCEPT ![t].row = r] \in [Handlers -> Job]
  <2>1. [job[t] EXCEPT !.row = r] \in Job
    BY DEF Job
  <2> QED
    BY <2>1
<1>2. ASSUME NEW a \in AodStatus
      PROVE  [job EXCEPT ![t].arg = a] \in [Handlers -> Job]
  <2>1. [job[t] EXCEPT !.arg = a] \in Job
    BY DEF Job
  <2> QED
    BY <2>1
<1>3. [job EXCEPT ![t].calledOff = TRUE] \in [Handlers -> Job]
  <2>1. [job[t] EXCEPT !.calledOff = TRUE] \in Job
    BY DEF Job
  <2> QED
    BY <2>1
<1> QED
  BY <1>1, <1>2, <1>3

(* The initial states.                                                     *)
LEMMA InitInv == Init => Inv
<1> SUFFICES ASSUME Init PROVE Inv
  OBVIOUS
<1> USE NoJobFits, ThreadsAssumption DEF Init
<1>1. Typed
  <2>1. /\ transState \in TransitionState /\ powerStatus \in PowerStatus
        /\ aodNotifyFlag \in AodStatus /\ isForceTrans \in BOOLEAN
    BY DEF PowerStatus, AodStatus, TransitionState
  <2>2. tasks \in [TimedState -> [Phase -> Nat]]
    OBVIOUS
  <2>3. job \in [Handlers -> Job] /\ pc \in [Handlers -> FsmPc \cup CallPc]
    BY DEF CallPc
  <2>4. queue \in Seq(Task)
    OBVIOUS
  <2> QED
    BY <2>1, <2>2, <2>3, <2>4 DEF Typed
<1>2. Exclusive
  BY DEF Exclusive, Inside, FsmPc
<1>3. JobsFit
  BY DEF JobsFit, Inside, FsmPc
<1>4. Waiting
  BY DEF Waiting, FsmPc, Handlers
<1>5. CalledOff /\ ForceHeld
  BY DEF CalledOff, ForceHeld
<1>6. TimeoutExcluded /\ ArmedHasTask
  BY DEF TimeoutExcluded, ArmedHasTask, FsmPc
<1> QED
  BY <1>1, <1>2, <1>3, <1>4, <1>5, <1>6 DEF Inv

(* A task is that of a caller.                                             *)
LEMMA TaskFacts ==
  ASSUME queue \in Seq(Task), NEW i \in 1 .. Len(queue)
  PROVE  /\ queue[i].by \in Callers /\ queue[i].state \in TransitionState
         /\ queue[i].do \in { "ToTransition", "SetRS" }
         /\ queue[i].status \in PowerStatus
<1>1. queue[i] \in Task
  BY ElementOfSeq
<1> QED
  BY <1>1 DEF Task

(* A step of a thread that does not wait for a task keeps Waiting.         *)
LEMMA WaitingKept ==
  ASSUME Waiting, queue \in Seq(Task), NEW t \in Handlers, UNCHANGED queue,
         pc[t] \notin { "AwaitTask", "AwaitDone" } \/ t = Sched,
         \A u \in Handlers \ {t} : pc'[u] = pc[u] /\ job'[u] = job[u],
         t = Sched =>
           \/ /\ pc[t] \in FsmPc
              /\ pc'[t] \in FsmPc => job'[t].then = job[t].then
           \/ /\ queue # <<>> /\ Head(queue).do = "SetRS"
              /\ pc'[t] \in FsmPc => job'[t].then = "AwaitDone"
  PROVE  Waiting'
<1>1. Sched \in Handlers /\ Sched \notin Callers /\ Power \in Callers
  BY ThreadsAssumption DEF Handlers, Callers
<1>2. \A i \in 1 .. Len(queue) :
        /\ queue[i].by \in Handlers \ {Sched}
        /\ queue[i].do \in { "ToTransition", "SetRS" }
  BY <1>1, TaskFacts DEF Handlers
<1>3. \A i \in 1 .. Len(queue) :
        pc[queue[i].by] \in { "AwaitTask", "AwaitDone" }
  BY <1>2 DEF Waiting
<1>4. \A i \in 1 .. Len(queue) : pc'[queue[i].by] = pc[queue[i].by]
  BY <1>2, <1>3
<1>5. \A i \in 1 .. Len(queue) :
        /\ queue[i].do = "ToTransition" =>
             \/ pc'[queue[i].by] = "AwaitTask"
             \/ queue[i].by = Power /\ pc'[Power] = "AwaitDone"
        /\ queue[i].do = "SetRS" => pc'[queue[i].by] = "AwaitDone"
  BY <1>4 DEF Waiting
<1>6. /\ pc'[Sched] # "Idle" => queue # <<>> /\ Head(queue).do = "SetRS"
      /\ pc'[Sched] \in FsmPc => job'[Sched].then = "AwaitDone"
  BY <1>1 DEF Waiting, FsmPc
<1> QED
  BY <1>5, <1>6 DEF Waiting

(* A call of the machine begins, with what fits its event.                 *)
LEMMA HandleInv ==
  ASSUME Inv, NEW t \in Handlers, NEW from \in CallPc \ {"AwaitDone"},
         NEW event \in PowerEvent, NEW info \in Info,
         NEW arg \in PowerStatus \cup DisplayState \cup AodStatus \cup {"UNKNOWN"},
         NEW apAod \in BOOLEAN, NEW then \in CallPc \ {"SetFlag"},
         Handle(t, from, event, info, arg, apAod, then), UNCHANGED callOnly,
         aodNotifyFlag' \in AodStatus,
         info \in { "ForAll", "Screen" } => arg \in PowerStatus,
         event \in ForAllEvent => info = "ForAll" /\ t # Sched,
         event \in DisplayEvent => t = Power /\ then = "CheckStatus",
         t = Sched => /\ queue # <<>> /\ Head(queue).do = "SetRS"
                      /\ then = "AwaitDone"
  PROVE  Inv'
<1> USE ThreadsAssumption DEF Inv, callOnly, timerVars, Handle, Goto
<1>1. PICK j \in Job :
        /\ job' = [job EXCEPT ![t] = j]
        /\ j.event = event /\ j.info = info /\ j.arg = arg /\ j.then = then
        /\ ~j.calledOff
  <2>1. [ event |-> event, info |-> info, arg |-> arg, apAod |-> apAod,
          row |-> NoRow, ret |-> FALSE, calledOff |-> FALSE, then |-> then ] \in Job
    BY NoRowFits DEF Job
  <2> QED
    BY <2>1
<1> HIDE DEF Handle
<1>2. pc[t] = from /\ pc' = [pc EXCEPT ![t] = "Lock"]
  BY DEF Handle
<1>3. Typed'
  BY <1>1, <1>2 DEF Typed, FsmPc, CallPc, Job
<1>4. Exclusive'
  BY <1>1, <1>2 DEF Exclusive, Inside, FsmPc, CallPc, Typed
<1>5. JobsFit'
  BY <1>1, <1>2 DEF JobsFit, Inside, FsmPc, CallPc, Typed
<1>6. Waiting'
  BY <1>1, <1>2, WaitingKept DEF FsmPc, CallPc, Typed
<1>7. CalledOff'
  BY <1>1, <1>2 DEF CalledOff, Typed
<1>8. ForceHeld'
  BY <1>1, <1>2 DEF ForceHeld
<1>9. TimeoutExcluded'
  BY <1>1, <1>2 DEF TimeoutExcluded, FsmPc, Typed
<1>10. ArmedHasTask'
  BY <1>1, <1>2 DEF ArmedHasTask, Live
<1> QED
  BY <1>3, <1>4, <1>5, <1>6, <1>7, <1>8, <1>9, <1>10 DEF Inv

(* A call is over without another one of the machine.                      *)
LEMMA ReturnInv ==
  ASSUME Inv, NEW t \in Callers, NEW from \in CallPc \ {"AwaitDone"},
         Return(t, from), UNCHANGED callOnly, aodNotifyFlag' \in AodStatus
  PROVE  Inv'
<1> USE NoJobFits, ThreadsAssumption DEF Inv, callOnly, timerVars, Return,
     Goto, Handlers
<1>1. Typed'
  BY DEF Typed, FsmPc, CallPc
<1>2. Exclusive'
  BY DEF Exclusive, Inside, FsmPc, CallPc, Typed
<1>3. JobsFit'
  BY DEF JobsFit, Inside, FsmPc, CallPc, Typed
<1>4. Waiting'
  BY WaitingKept DEF FsmPc, CallPc, Typed, Handlers
<1>5. CalledOff'
  BY DEF CalledOff, Typed
<1>6. ForceHeld'
  BY DEF ForceHeld
<1>7. TimeoutExcluded'
  BY DEF TimeoutExcluded, FsmPc, Typed
<1>8. ArmedHasTask'
  BY DEF ArmedHasTask, Live
<1> QED
  BY <1>1, <1>2, <1>3, <1>4, <1>5, <1>6, <1>7, <1>8 DEF Inv

(* The power call looks at the answer again.                               *)
LEMMA LookAgainInv ==
  ASSUME Inv, Goto(Power, "ReadFlag", "ReadFailure"),
         UNCHANGED <<callOnly, aodNotifyFlag, job>>
  PROVE  Inv'
<1> USE ThreadsAssumption DEF Inv, callOnly, timerVars, Goto, Handlers, Callers
<1>1. Typed'
  BY DEF Typed, FsmPc, CallPc
<1>2. Exclusive'
  BY DEF Exclusive, Inside, FsmPc, CallPc, Typed
<1>3. JobsFit'
  BY DEF JobsFit, Inside, FsmPc, CallPc, Typed
<1>4. Waiting'
  BY WaitingKept DEF FsmPc, CallPc, Typed
<1>5. CalledOff'
  BY DEF CalledOff, Typed
<1>6. ForceHeld'
  BY DEF ForceHeld, Typed
<1>7. TimeoutExcluded'
  BY DEF TimeoutExcluded, FsmPc, Typed
<1>8. ArmedHasTask'
  BY DEF ArmedHasTask, Live
<1> QED
  BY <1>1, <1>2, <1>3, <1>4, <1>5, <1>6, <1>7, <1>8 DEF Inv

(* The always-on display's answer is going to be kept for the power call.  *)
LEMMA KeepAnswerInv ==
  ASSUME Inv, NEW t \in Callers, NEW answer \in AodStatus,
         Goto(t, "Idle", "SetFlag"),
         job' = [job EXCEPT ![t].arg = answer],
         UNCHANGED <<callOnly, aodNotifyFlag>>
  PROVE  Inv'
<1> USE ThreadsAssumption DEF Inv, callOnly, timerVars, Goto, Handlers
<1>1. job' \in [Handlers -> Job]
  BY JobUpdates DEF Typed
<1>2. Typed'
  BY <1>1 DEF Typed, FsmPc, CallPc
<1>3. Exclusive'
  BY DEF Exclusive, Inside, FsmPc, CallPc, Typed
<1>4. JobsFit'
  BY DEF JobsFit, Inside, FsmPc, CallPc, Typed
<1>5. Waiting'
  BY WaitingKept DEF FsmPc, CallPc, Typed, Handlers
<1>6. CalledOff'
  BY DEF CalledOff, Typed
<1>7. ForceHeld'
  BY DEF ForceHeld
<1>8. TimeoutExcluded'
  BY DEF TimeoutExcluded, FsmPc, Typed
<1>9. ArmedHasTask'
  BY DEF ArmedHasTask, Live
<1> QED
  BY <1>2, <1>3, <1>4, <1>5, <1>6, <1>7, <1>8, <1>9 DEF Inv

(* A call takes the mutex and its row.                                     *)
LEMMA LockInv ==
  ASSUME Inv, NEW t \in Handlers, NEW r \in GetTransition(transState, job[t].event),
         mtx = None, mtx' = t, Goto(t, "Lock", "StopFrom"),
         job' = [job EXCEPT ![t].row = r],
         UNCHANGED <<transState, isForceTrans, powerStatus, aodNotifyFlag, queue,
                     timerVars>>
  PROVE  Inv'
<1> USE ThreadsAssumption DEF Inv, timerVars, Goto
<1>1. r \in Transitions /\ r \in TransitionRow /\ r.event = job[t].event
  BY TableFacts DEF GetTransition
<1>2. job' \in [Handlers -> Job]
  BY <1>1, JobUpdates DEF Typed
<1>3. Typed'
  BY <1>2 DEF Typed, FsmPc, CallPc
<1>4. Exclusive'
  BY DEF Exclusive, Inside, FsmPc, CallPc, Typed
<1>5. JobsFit'
  BY <1>1 DEF JobsFit, Inside, FsmPc, CallPc, Typed
<1>6. Waiting'
  BY WaitingKept DEF FsmPc, CallPc, Typed
<1>7. CalledOff'
  BY DEF CalledOff, Typed
<1>8. ForceHeld'
  BY DEF ForceHeld
<1>9. TimeoutExcluded'
  BY DEF TimeoutExcluded, FsmPc, Typed
<1>10. ArmedHasTask'
  BY DEF ArmedHasTask, Live
<1> QED
  BY <1>3, <1>4, <1>5, <1>6, <1>7, <1>8, <1>9, <1>10 DEF Inv

(* StopTimer rings for one state and loses no task.                        *)
LEMMA StopTimerFacts ==
  ASSUME Typed, NEW s \in TransitionState, StopTimer(s)
  PROVE  /\ firing = None /\ armed' = armed \ {s}
         /\ tasks' \in [TimedState -> [Phase -> Nat]]
         /\ \A u \in TimedState : Live(u) => Live(u)'
<1>1. \A u \in TimedState : tasks[u] \in [Phase -> Nat]
  BY DEF Typed
<1>2. \A u \in TimedState :
        /\ tasks'[u] \in [Phase -> Nat]
        /\ tasks'[u]["Queued"] = tasks[u]["Queued"]
        /\ tasks'[u]["Notified"] = tasks[u]["Notified"] + tasks[u]["Waiting"]
  BY <1>1 DEF StopTimer, Phase
<1>3. tasks' \in [TimedState -> [Phase -> Nat]]
  BY <1>2 DEF StopTimer
<1>4. ASSUME NEW u \in TimedState, Live(u) PROVE Live(u)'
  BY <1>1, <1>2, <1>4 DEF Live, Phase
<1> QED
  BY <1>3, <1>4 DEF StopTimer

(* A call goes on where it was made, after its handler or without one.     *)
LEMMA LeaveInv ==
  ASSUME Inv, NEW t \in Handlers, NEW from \in { "Lock", "Reset", "StopTarget" },
         Goto(t, from, job[t].then), mtx' = None,
         job' = IF job[t].then = "Idle" THEN [job EXCEPT ![t] = NoJob] ELSE job,
         from = "Lock" => mtx = None,
         isForceTrans' \in { FALSE, isForceTrans },
         from = "Reset" => ~isForceTrans',
         firing' = firing, armed' \subseteq armed,
         tasks' \in [TimedState -> [Phase -> Nat]],
         \A s \in TimedState : Live(s) => Live(s)',
         UNCHANGED <<transState, powerStatus, aodNotifyFlag, queue>>
  PROVE  Inv'
<1> USE NoJobFits, ThreadsAssumption DEF Inv, Goto
<1>1. job[t].then \in CallPc \ {"SetFlag"}
  BY DEF Typed, JobsFit, Job, FsmPc
<1>2. Typed'
  BY <1>1 DEF Typed, FsmPc, CallPc
<1>3. Exclusive'
  BY <1>1 DEF Exclusive, Inside, FsmPc, CallPc, Typed
<1>4. JobsFit'
  BY <1>1 DEF JobsFit, Inside, FsmPc, CallPc, Typed
<1>5. Waiting'
  BY <1>1, WaitingKept DEF FsmPc, CallPc, Typed
<1>6. CalledOff'
  <2>1. ASSUME NEW u \in Handlers, job'[u].calledOff, u # t
        PROVE  pc[u] \notin { "StartTimer", "Check" }
    BY <2>1 DEF Exclusive, Inside, FsmPc, Typed
  <2>2. ASSUME NEW u \in Handlers, job'[u].calledOff, u # t
        PROVE  /\ job'[u] = job[u] /\ pc'[u] = pc[u]
    BY <2>2 DEF Typed
  <2>3. ASSUME job'[t].calledOff
        PROVE  /\ job'[t] = job[t] /\ pc'[t] = job[t].then
               /\ job[t].event \in DisplayEvent /\ job[t].then = "CheckStatus"
    BY <2>3 DEF Typed, CalledOff, JobsFit
  <2> QED
    BY <2>1, <2>2, <2>3 DEF CalledOff
<1>7. ForceHeld'
  BY <1>1 DEF ForceHeld
<1>8. TimeoutExcluded'
  BY <1>1 DEF TimeoutExcluded, FsmPc, CallPc, Typed
<1>9. ArmedHasTask'
  BY <1>1 DEF ArmedHasTask, Typed
<1> QED
  BY <1>2, <1>3, <1>4, <1>5, <1>6, <1>7, <1>8, <1>9 DEF Inv

(* The handler shuts the timeout of the state out.                         *)
LEMMA StopFromInv ==
  ASSUME Inv, NEW t \in Handlers, StopFrom(t)
  PROVE  Inv'
<1> USE ThreadsAssumption DEF Inv, StopFrom, Goto
<1>1. job[t].row.state \in TransitionState
  BY DEF Typed, Job, TransitionRow
<1>2. /\ firing = None /\ armed' = armed \ {job[t].row.state}
      /\ tasks' \in [TimedState -> [Phase -> Nat]]
      /\ \A u \in TimedState : Live(u) => Live(u)'
  BY <1>1, StopTimerFacts
<1>3. Typed'
  BY <1>1, <1>2 DEF Typed, FsmPc, CallPc
<1>4. Exclusive'
  BY DEF Exclusive, Inside, FsmPc, CallPc, Typed
<1>5. JobsFit'
  BY DEF JobsFit, Inside, FsmPc, CallPc, Typed
<1>6. Waiting'
  BY WaitingKept DEF FsmPc, CallPc, Typed
<1>7. CalledOff'
  BY DEF CalledOff, Typed
<1>8. ForceHeld'
  BY DEF ForceHeld
<1>9. TimeoutExcluded'
  BY <1>1, <1>2 DEF TimeoutExcluded, FsmPc, Typed
<1>10. ArmedHasTask'
  BY <1>1, <1>2 DEF ArmedHasTask, Typed
<1> QED
  BY <1>3, <1>4, <1>5, <1>6, <1>7, <1>8, <1>9, <1>10 DEF Inv

(* An action that leaves the state alone.                                  *)
LEMMA ActInv ==
  ASSUME Inv, NEW t \in Handlers, Goto(t, "Action", AfterAction(t)),
         powerStatus' \in PowerStatus,
         UNCHANGED <<transState, isForceTrans, aodNotifyFlag, mtx, queue,
                     timerVars, job>>
  PROVE  Inv'
<1> USE ThreadsAssumption DEF Inv, timerVars, Goto, AfterAction
<1>1. Typed'
  BY DEF Typed, FsmPc, CallPc
<1>2. Exclusive'
  BY DEF Exclusive, Inside, FsmPc, CallPc, Typed
<1>3. JobsFit'
  BY DEF JobsFit, Inside, FsmPc, CallPc, Typed
<1>4. Waiting'
  BY WaitingKept DEF FsmPc, CallPc, Typed
<1>5. CalledOff'
  BY DEF CalledOff, Typed
<1>6. ForceHeld'
  BY DEF ForceHeld
<1>7. TimeoutExcluded'
  BY DEF TimeoutExcluded, FsmPc, Typed
<1>8. ArmedHasTask'
  BY DEF ArmedHasTask, Live
<1> QED
  BY <1>1, <1>2, <1>3, <1>4, <1>5, <1>6, <1>7, <1>8 DEF Inv

(* A screen-off is called off: the force flag is raised.                   *)
LEMMA CallOffInv ==
  ASSUME Inv, NEW t \in Handlers, Row(t, {"DoSetDisplayState"}),
         Goto(t, "Action", AfterAction(t)), ToTransition("SCREEN_ON", TRUE),
         job' = [job EXCEPT ![t].calledOff = TRUE],
         UNCHANGED <<powerStatus, aodNotifyFlag, mtx, queue, timerVars>>
  PROVE  Inv'
<1> USE ThreadsAssumption DEF Inv, timerVars, Goto, AfterAction,
     ToTransition
<1>1. job[t].event \in DisplayEvent
  BY TableFacts DEF Row, Goto, JobsFit, Inside, FsmPc
<1>2. job' \in [Handlers -> Job]
  BY JobUpdates DEF Typed
<1>3. Typed'
  BY <1>2 DEF Typed, FsmPc, CallPc, TransitionState
<1>4. Exclusive'
  BY DEF Exclusive, Inside, FsmPc, CallPc, Typed
<1>5. JobsFit'
  BY DEF JobsFit, Inside, FsmPc, CallPc, Typed
<1>6. Waiting'
  BY WaitingKept DEF FsmPc, CallPc, Typed
<1>7. CalledOff'
  BY <1>1 DEF CalledOff, Typed
<1>8. ForceHeld'
  BY DEF ForceHeld, Exclusive, Inside, FsmPc, Typed
<1>9. TimeoutExcluded'
  BY DEF TimeoutExcluded, FsmPc, Typed
<1>10. ArmedHasTask'
  BY DEF ArmedHasTask, Live
<1> QED
  BY <1>3, <1>4, <1>5, <1>6, <1>7, <1>8, <1>9, <1>10 DEF Inv

(* The result of a call is the only thing its action may change of it.     *)
LEMMA AnswerFits ==
  ASSUME job \in [Handlers -> Job], NEW t \in Handlers, NEW ret \in BOOLEAN,
         job' \in { job, [job EXCEPT ![t].ret = ret] }
  PROVE  \E j \in Job :
           /\ job' = [job EXCEPT ![t] = j]
           /\ j.event = job[t].event /\ j.info = job[t].info
           /\ j.arg = job[t].arg /\ j.row = job[t].row
           /\ j.then = job[t].then /\ j.calledOff = job[t].calledOff
<1>1. job = [job EXCEPT ![t] = job[t]]
  OBVIOUS
<1>2. [job[t] EXCEPT !.ret = ret] \in Job
  BY DEF Job
<1>3. [job EXCEPT ![t].ret = ret] = [job EXCEPT ![t] = [job[t] EXCEPT !.ret = ret]]
  OBVIOUS
<1>4. CASE job' = job
  BY <1>1, <1>4
<1>5. CASE job' = [job EXCEPT ![t].ret = ret]
  BY <1>2, <1>3, <1>5 DEF Job
<1> QED
  BY <1>4, <1>5

(* A fingerprint forces SCREEN_ON, in a handler or outside.                *)
LEMMA FingerprintInv ==
  ASSUME Inv, NEW t \in Callers, NEW from \in { "Idle", "Action" }, MayFingerprint,
         Goto(t, from, IF from = "Idle" THEN "Idle" ELSE AfterAction(t)),
         ToTransition("SCREEN_ON", TRUE), NEW ret \in BOOLEAN,
         job' \in { job, [job EXCEPT ![t].ret = ret] },
         UNCHANGED <<powerStatus, aodNotifyFlag, mtx, queue, timerVars>>
  PROVE  Inv'
<1> USE ThreadsAssumption DEF Inv, timerVars, Goto, AfterAction,
     ToTransition
<1>1. PICK j \in Job :
        /\ job' = [job EXCEPT ![t] = j]
        /\ j.event = job[t].event /\ j.info = job[t].info /\ j.arg = job[t].arg
        /\ j.row = job[t].row /\ j.then = job[t].then
        /\ j.calledOff = job[t].calledOff
  BY AnswerFits DEF Typed, Handlers
<1>2. Typed'
  BY <1>1 DEF Typed, FsmPc, CallPc, TransitionState, Handlers
<1>3. Exclusive'
  BY <1>1 DEF Exclusive, Inside, FsmPc, CallPc, Typed, Handlers
<1>4. JobsFit'
  BY <1>1 DEF JobsFit, Inside, FsmPc, CallPc, Typed
<1>5. Waiting'
  BY <1>1, WaitingKept DEF FsmPc, CallPc, Typed, Handlers
<1>6. CalledOff'
  BY <1>1 DEF CalledOff, Typed
<1>7. ForceHeld'
  BY <1>1 DEF ForceHeld
<1>8. TimeoutExcluded'
  BY <1>1 DEF TimeoutExcluded, FsmPc, Typed
<1>9. ArmedHasTask'
  BY <1>1 DEF ArmedHasTask, Live
<1> QED
  BY <1>2, <1>3, <1>4, <1>5, <1>6, <1>7, <1>8, <1>9 DEF Inv

(* A caller posts a task and waits for it.                                 *)
LEMMA PostInv ==
  ASSUME Inv, NEW t \in Callers, NEW task \in Task, task.by = t,
         NEW from \in { "Idle", "Action" }, queue' = Append(queue, task),
         Goto(t, from, IF from = "Idle" THEN "AwaitDone" ELSE "AwaitTask"),
         task.do = "ToTransition" => from = "Action" \/ t = Power,
         task.do = "SetRS" => from = "Idle", NEW ret \in BOOLEAN,
         job' \in { job, [job EXCEPT ![t].ret = ret] },
         UNCHANGED <<transState, isForceTrans, powerStatus, aodNotifyFlag, mtx,
                     timerVars>>
  PROVE  Inv'
<1> USE ThreadsAssumption DEF Inv, timerVars, Goto
<1>1. PICK j \in Job :
        /\ job' = [job EXCEPT ![t] = j]
        /\ j.event = job[t].event /\ j.info = job[t].info /\ j.arg = job[t].arg
        /\ j.row = job[t].row /\ j.then = job[t].then
        /\ j.calledOff = job[t].calledOff
  BY AnswerFits DEF Typed, Handlers
<1>2. Typed'
  BY <1>1 DEF Typed, FsmPc, CallPc, Handlers
<1>3. Exclusive'
  BY <1>1 DEF Exclusive, Inside, FsmPc, CallPc, Typed, Handlers
<1>4. JobsFit'
  BY <1>1 DEF JobsFit, Inside, FsmPc, CallPc, Typed
<1>5. Waiting'
  <2>1. /\ Len(queue') = Len(queue) + 1 /\ queue'[Len(queue) + 1] = task
        /\ \A i \in 1 .. Len(queue) : queue'[i] = queue[i]
    BY AppendProperties DEF Typed
  <2>2. /\ \A u \in Handlers \ {t} : pc'[u] = pc[u] /\ job'[u] = job[u]
        /\ pc'[t] = IF from = "Idle" THEN "AwaitDone" ELSE "AwaitTask"
    BY <1>1 DEF Typed, Handlers
  <2>3. \A i \in 1 .. Len(queue) :
          queue[i].by \in Callers /\ queue[i].do \in { "ToTransition", "SetRS" }
    BY TaskFacts DEF Typed
  <2>5. \A i \in 1 .. Len(queue) : queue[i].by # t
    BY <2>3 DEF Waiting
  <2>4. queue # <<>> => Head(queue') = Head(queue)
    BY DEF Typed
  <2> QED
    BY <2>1, <2>2, <2>3, <2>4, <2>5 DEF Waiting, Handlers, Typed
<1>6. CalledOff'
  BY <1>1 DEF CalledOff, Typed
<1>7. ForceHeld'
  BY <1>1 DEF ForceHeld
<1>8. TimeoutExcluded'
  BY <1>1 DEF TimeoutExcluded, FsmPc, Typed
<1>9. ArmedHasTask'
  BY <1>1 DEF ArmedHasTask, Live
<1> QED
  BY <1>2, <1>3, <1>4, <1>5, <1>6, <1>7, <1>8, <1>9 DEF Inv

(* The timeout of the target starts, which is not the state left.          *)
LEMMA StartTargetTimerInv ==
  ASSUME Inv, NEW t \in Handlers, StartTargetTimer(t)
  PROVE  Inv'
<1> USE ThreadsAssumption DEF Inv, StartTargetTimer, StartTimer, Goto
<1>1. job[t].row.target \in TimedState /\ job[t].row.target # job[t].row.state
  BY TableFacts DEF Goto, JobsFit, Inside, FsmPc
<1>2. /\ tasks' \in [TimedState -> [Phase -> Nat]]
      /\ \A u \in TimedState : Live(u) => Live(u)'
      /\ Live(job[t].row.target)'
  <2> DEFINE s == job[t].row.target
  <2>1. "Queued" \in Phase /\ tasks \in [TimedState -> [Phase -> Nat]] /\ s \in TimedState
    BY <1>1 DEF Typed, Phase
  <2>2. tasks' = [tasks EXCEPT ![s]["Queued"] = @ + 1]
    OBVIOUS
  <2> HIDE DEF s
  <2>3. /\ tasks' \in [TimedState -> [Phase -> Nat]] /\ tasks'[s]["Queued"] > 0
        /\ \A u \in TimedState, p \in Phase : tasks[u][p] > 0 => tasks'[u][p] > 0
    BY <2>1, <2>2
  <2>4. QED BY <2>1, <2>3 DEF Live, s
<1>3. Typed'
  BY <1>1, <1>2 DEF Typed, FsmPc, CallPc
<1>4. Exclusive'
  BY DEF Exclusive, Inside, FsmPc, CallPc, Typed
<1>5. JobsFit'
  BY DEF JobsFit, Inside, FsmPc, CallPc, Typed
<1>6. Waiting'
  BY WaitingKept DEF FsmPc, CallPc, Typed
<1>7. CalledOff'
  BY DEF CalledOff, Typed
<1>8. ForceHeld'
  BY DEF ForceHeld
<1>9. TimeoutExcluded'
  BY <1>1, <1>2 DEF TimeoutExcluded, Exclusive, Inside, FsmPc, Typed
<1>10. ArmedHasTask'
  BY <1>1, <1>2 DEF ArmedHasTask, Typed
<1> QED
  BY <1>3, <1>4, <1>5, <1>6, <1>7, <1>8, <1>9, <1>10 DEF Inv

(* A handler whose transition was called off sees the force flag.          *)
LEMMA CheckInv ==
  ASSUME Inv, NEW t \in Handlers, Check(t)
  PROVE  Inv'
<1> USE ThreadsAssumption DEF Inv, Check, timerVars, Goto
<1>1. Typed'
  BY DEF Typed, FsmPc, CallPc
<1>2. Exclusive'
  BY DEF Exclusive, Inside, FsmPc, CallPc, Typed
<1>3. JobsFit'
  BY DEF JobsFit, Inside, FsmPc, CallPc, Typed
<1>4. Waiting'
  BY WaitingKept DEF FsmPc, CallPc, Typed
<1>5. CalledOff'
  BY DEF CalledOff, Typed
<1>6. ForceHeld'
  BY DEF ForceHeld
<1>7. TimeoutExcluded'
  BY DEF TimeoutExcluded, FsmPc, Typed
<1>8. ArmedHasTask'
  BY DEF ArmedHasTask, Live
<1> QED
  BY <1>1, <1>2, <1>3, <1>4, <1>5, <1>6, <1>7, <1>8 DEF Inv

(* The state becomes the row's target.                                     *)
LEMMA TransferStateInv ==
  ASSUME Inv, NEW t \in Handlers, TransferState(t)
  PROVE  Inv'
<1> USE ThreadsAssumption DEF Inv, TransferState, timerVars, Goto
<1>1. Typed'
  BY DEF Typed, FsmPc, CallPc, Job, TransitionRow
<1>2. Exclusive'
  BY DEF Exclusive, Inside, FsmPc, CallPc, Typed
<1>3. JobsFit'
  BY DEF JobsFit, Inside, FsmPc, CallPc, Typed
<1>4. Waiting'
  BY WaitingKept DEF FsmPc, CallPc, Typed
<1>5. CalledOff'
  BY DEF CalledOff, Typed
<1>6. ForceHeld'
  BY DEF ForceHeld
<1>7. TimeoutExcluded'
  BY DEF TimeoutExcluded, FsmPc, Typed
<1>8. ArmedHasTask'
  BY DEF ArmedHasTask, Live
<1> QED
  BY <1>1, <1>2, <1>3, <1>4, <1>5, <1>6, <1>7, <1>8 DEF Inv

(* The force flag is lowered, and the timeout of the target is stopped.    *)
LEMMA LowerInv ==
  ASSUME Inv, NEW t \in Handlers, ~isForceTrans', Goto(t, "Reset", "StopTarget"),
         isForceTrans' \in BOOLEAN,
         UNCHANGED <<transState, powerStatus, aodNotifyFlag, mtx, queue,
                     timerVars, job>>
  PROVE  Inv'
<1> USE ThreadsAssumption DEF Inv, timerVars, Goto
<1>1. Typed'
  BY DEF Typed, FsmPc, CallPc
<1>2. Exclusive'
  BY DEF Exclusive, Inside, FsmPc, CallPc, Typed
<1>3. JobsFit'
  BY DEF JobsFit, Inside, FsmPc, CallPc, Typed
<1>4. Waiting'
  BY WaitingKept DEF FsmPc, CallPc, Typed
<1>5. CalledOff'
  BY DEF CalledOff, Exclusive, Inside, FsmPc, Typed
<1>6. ForceHeld'
  BY DEF ForceHeld
<1>7. TimeoutExcluded'
  BY DEF TimeoutExcluded, FsmPc, Typed
<1>8. ArmedHasTask'
  BY DEF ArmedHasTask, Live
<1> QED
  BY <1>1, <1>2, <1>3, <1>4, <1>5, <1>6, <1>7, <1>8 DEF Inv

(* The scheduler assigns the state: its poster does not check meanwhile.   *)
LEMMA SchedToTransitionInv ==
  ASSUME Inv, SchedToTransition
  PROVE  Inv'
<1> USE ThreadsAssumption DEF Inv, SchedToTransition, ToTransition,
     timerVars
<1>1. /\ queue # <<>> /\ 1 \in 1 .. Len(queue) /\ Head(queue) = queue[1]
      /\ Len(queue') = Len(queue) - 1
      /\ \A i \in 1 .. Len(queue') : queue'[i] = queue[i + 1]
      /\ queue' \in Seq(Task)
  BY HeadTailProperties DEF Typed
<1> DEFINE p == queue[1].by
<1>2. p \in Callers /\ queue[1].state \in TransitionState
  BY <1>1, TaskFacts DEF Typed

<1>3. pc[Sched] = "Idle" /\ pc' = [pc EXCEPT ![p] = Resume(p)]
  BY <1>1
<1>4. \/ pc[p] = "AwaitTask" /\ Resume(p) = AfterAction(p)
      \/ p = Power /\ pc[p] = "AwaitDone" /\ Resume(p) = "Idle"
  BY <1>1 DEF Waiting, Resume
<1>5. AfterAction(p) \in { "Check", "StartTimer" }
  BY DEF AfterAction
<1> HIDE DEF p
<1>6. Typed'
  <2>1. Resume(p) \in FsmPc \cup CallPc
    BY <1>4, <1>5 DEF FsmPc, CallPc
  <2>2. pc' \in [Handlers -> FsmPc \cup CallPc]
    BY <1>3, <2>1 DEF Typed
  <2>3. transState' \in TransitionState /\ isForceTrans' \in BOOLEAN
    BY <1>1, <1>2
  <2> QED
    BY <1>1, <2>2, <2>3 DEF Typed
<1>7. Exclusive'
  BY <1>1, <1>2, <1>3, <1>4, <1>5 DEF Exclusive, Inside, FsmPc, CallPc,
       Typed, Handlers
<1>8. JobsFit'
  BY <1>1, <1>2, <1>3, <1>4, <1>5 DEF JobsFit, Inside, FsmPc, CallPc, Typed,
       AfterAction, Handlers
<1>9. Waiting'
  <2>1. \A i \in 1 .. Len(queue') :
          /\ i + 1 \in 1 .. Len(queue) /\ queue'[i] = queue[i + 1]
          /\ queue'[i].by # p /\ queue'[i].by \in Callers
          /\ queue'[i].do \in { "ToTransition", "SetRS" }
    <3>1. ASSUME NEW i \in 1 .. Len(queue')
          PROVE  i + 1 \in 1 .. Len(queue) /\ queue'[i] = queue[i + 1]
      BY <1>1 DEF Typed
    <3>2. \A i \in 1 .. Len(queue') : queue[i + 1].by # p
      BY <1>1, <3>1 DEF Waiting, p
    <3> QED
      BY <3>1, <3>2, TaskFacts DEF Typed
  <2>2. \A u \in Callers \ {p} : pc'[u] = pc[u]
    BY <1>3 DEF Typed, Handlers
  <2>3. \A i \in 1 .. Len(queue') : pc'[queue'[i].by] = pc[queue[i + 1].by]
    BY <2>1, <2>2
  <2>4. pc'[Sched] = "Idle"
    BY <1>2, <1>3 DEF Typed, Handlers
  <2>5. \A i, j \in 1 .. Len(queue') : queue'[i].by = queue'[j].by => i = j
    BY <2>1 DEF Waiting
  <2>6. ASSUME NEW i \in 1 .. Len(queue')
        PROVE  /\ queue'[i].do = "ToTransition" =>
                    \/ pc'[queue'[i].by] = "AwaitTask"
                    \/ queue'[i].by = Power /\ pc'[Power] = "AwaitDone"
               /\ queue'[i].do = "SetRS" => pc'[queue'[i].by] = "AwaitDone"
    <3> DEFINE k == i + 1
    <3>1. /\ k \in 1 .. Len(queue) /\ queue'[i] = queue[k]
          /\ pc'[queue'[i].by] = pc[queue[k].by]
      BY <2>1, <2>3
    <3> HIDE DEF k
    <3> QED
      BY <3>1 DEF Waiting
  <2> QED
    BY <2>4, <2>5, <2>6 DEF Waiting, FsmPc
<1>10. CalledOff'
  <2>1. ASSUME NEW t \in Handlers, job[t].calledOff PROVE t # p
    BY <1>4, <2>1 DEF CalledOff
  <2>2. ASSUME NEW t \in Handlers, job[t].calledOff
        PROVE  pc[t] \notin { "StartTimer", "Check" }
    <3>1. CASE pc[p] = "AwaitTask"
      BY <1>2, <2>1, <2>2, <3>1 DEF Exclusive, Inside, FsmPc, Handlers
    <3>2. CASE p = Power /\ pc[p] = "AwaitDone"
      BY <2>1, <2>2, <3>2 DEF CalledOff, JobsFit
    <3> QED
      BY <1>4, <3>1, <3>2
  <2>3. \A t \in Handlers \ {p} : pc'[t] = pc[t]
    BY <1>3 DEF Typed
  <2> QED
    BY <2>1, <2>2, <2>3 DEF CalledOff
<1>11. ForceHeld'
  BY <1>1, <1>2, <1>3, <1>4, <1>5 DEF ForceHeld
<1>12. TimeoutExcluded'
  BY <1>1, <1>2, <1>3, <1>4, <1>5 DEF TimeoutExcluded, FsmPc, Typed
<1>13. ArmedHasTask'
  BY <1>1, <1>2, <1>3, <1>4, <1>5 DEF ArmedHasTask, Live
<1> QED
  BY <1>6, <1>7, <1>8, <1>9, <1>10, <1>11, <1>12, <1>13 DEF Inv

(* A call that the scheduler made is over.                                 *)
LEMMA SchedSetRSDoneInv ==
  ASSUME Inv, SchedSetRSDone
  PROVE  Inv'
<1> USE NoJobFits, ThreadsAssumption DEF Inv, SchedSetRSDone, timerVars
<1>0. queue # <<>> /\ Head(queue).do = "SetRS"
  BY DEF Waiting
<1>1. /\ queue # <<>> /\ 1 \in 1 .. Len(queue) /\ Head(queue) = queue[1]
      /\ Len(queue') = Len(queue) - 1
      /\ \A i \in 1 .. Len(queue') : queue'[i] = queue[i + 1]
      /\ queue' \in Seq(Task)
  BY <1>0, HeadTailProperties DEF Typed
<1> DEFINE p == queue[1].by
<1>2. p \in Callers /\ queue[1].state \in TransitionState
  BY <1>1, TaskFacts DEF Typed
<1>3. pc' = [pc EXCEPT ![Sched] = "Idle", ![p] = "Idle"] /\ p # Sched
  BY <1>1, <1>2
<1>4. pc[p] = "AwaitDone" /\ pc[Sched] = "AwaitDone"
  BY <1>0, <1>1 DEF Waiting
<1> HIDE DEF p
<1>6. Typed'
  <2>1. pc' \in [Handlers -> FsmPc \cup CallPc] /\ job' \in [Handlers -> Job]
    BY <1>3 DEF Typed, CallPc
  <2> QED
    BY <1>1, <2>1 DEF Typed
<1>7. Exclusive'
  BY <1>1, <1>2, <1>3, <1>4 DEF Exclusive, Inside, FsmPc, CallPc, Typed,
       Handlers
<1>8. JobsFit'
  BY <1>1, <1>2, <1>3, <1>4 DEF JobsFit, Inside, FsmPc, CallPc, Typed,
       Handlers
<1>9. Waiting'
  <2>1. \A i \in 1 .. Len(queue') :
          /\ i + 1 \in 1 .. Len(queue) /\ queue'[i] = queue[i + 1]
          /\ queue'[i].by # p /\ queue'[i].by \in Callers
          /\ queue'[i].do \in { "ToTransition", "SetRS" }
    <3>1. ASSUME NEW i \in 1 .. Len(queue')
          PROVE  i + 1 \in 1 .. Len(queue) /\ queue'[i] = queue[i + 1]
      BY <1>1 DEF Typed
    <3>2. \A i \in 1 .. Len(queue') : queue[i + 1].by # p
      BY <1>1, <3>1 DEF Waiting, p
    <3> QED
      BY <3>1, <3>2, TaskFacts DEF Typed
  <2>2. \A u \in Callers \ {p} : pc'[u] = pc[u]
    BY <1>3 DEF Typed, Handlers
  <2>3. \A i \in 1 .. Len(queue') : pc'[queue'[i].by] = pc[queue[i + 1].by]
    BY <2>1, <2>2
  <2>4. pc'[Sched] = "Idle"
    BY <1>2, <1>3 DEF Typed, Handlers
  <2>5. \A i, j \in 1 .. Len(queue') : queue'[i].by = queue'[j].by => i = j
    BY <2>1 DEF Waiting
  <2>6. ASSUME NEW i \in 1 .. Len(queue')
        PROVE  /\ queue'[i].do = "ToTransition" =>
                    \/ pc'[queue'[i].by] = "AwaitTask"
                    \/ queue'[i].by = Power /\ pc'[Power] = "AwaitDone"
               /\ queue'[i].do = "SetRS" => pc'[queue'[i].by] = "AwaitDone"
    <3> DEFINE k == i + 1
    <3>1. /\ k \in 1 .. Len(queue) /\ queue'[i] = queue[k]
          /\ pc'[queue'[i].by] = pc[queue[k].by]
      BY <2>1, <2>3
    <3> HIDE DEF k
    <3> QED
      BY <3>1 DEF Waiting
  <2> QED
    BY <2>4, <2>5, <2>6 DEF Waiting, FsmPc
<1>10. CalledOff'
  BY <1>1, <1>2, <1>3, <1>4 DEF CalledOff, Typed, Handlers
<1>11. ForceHeld'
  BY <1>1, <1>2, <1>3, <1>4 DEF ForceHeld, Typed, Handlers
<1>12. TimeoutExcluded'
  BY <1>1, <1>2, <1>3, <1>4 DEF TimeoutExcluded, FsmPc, Typed
<1>13. ArmedHasTask'
  BY <1>1, <1>2, <1>3, <1>4 DEF ArmedHasTask, Live
<1> QED
  BY <1>6, <1>7, <1>8, <1>9, <1>10, <1>11, <1>12, <1>13 DEF Inv

(* What the steps of the timer tasks do to their numbers.                  *)
LEMMA MoveTaskFacts ==
  ASSUME Typed, NEW s \in TimedState, tasks[s]["Queued"] > 0,
         tasks' = MoveTask(s, "Queued", "Waiting")
  PROVE  /\ tasks' \in [TimedState -> [Phase -> Nat]]
         /\ \A u \in TimedState : Live(u) => Live(u)'
<1>1. \A u \in TimedState, p \in Phase : tasks[u][p] \in Nat
  BY DEF Typed
<1> DEFINE f == [tasks[s] EXCEPT !["Queued"] = tasks[s]["Queued"] - 1,
                                 !["Waiting"] = tasks[s]["Waiting"] + 1]
<1>2. tasks' = [tasks EXCEPT ![s] = f]
  BY DEF MoveTask
<1>3. /\ tasks[s] \in [Phase -> Nat] /\ tasks[s]["Queued"] - 1 \in Nat
      /\ tasks[s]["Waiting"] + 1 \in Nat /\ tasks[s]["Waiting"] + 1 > 0
  BY <1>1 DEF Phase, Typed
<1>4. f \in [Phase -> Nat] /\ f["Waiting"] = tasks[s]["Waiting"] + 1
  BY <1>3 DEF Phase
<1> HIDE DEF f
<1> QED
  BY <1>2, <1>3, <1>4 DEF Live, Typed, Phase

LEMMA DropTaskFacts ==
  ASSUME Typed, NEW s \in TimedState, NEW p \in Phase, tasks[s][p] > 0,
         tasks' = DropTask(s, p)
  PROVE  /\ tasks' \in [TimedState -> [Phase -> Nat]]
         /\ \A u \in TimedState \ {s} : Live(u) => Live(u)'
<1>1. tasks[s] \in [Phase -> Nat] /\ tasks[s][p] - 1 \in Nat
  BY DEF Typed
<1>2. tasks' = [tasks EXCEPT ![s] = [tasks[s] EXCEPT ![p] = tasks[s][p] - 1]]
  BY DEF DropTask
<1>3. [tasks[s] EXCEPT ![p] = tasks[s][p] - 1] \in [Phase -> Nat]
  BY <1>1
<1> QED
  BY <1>2, <1>3 DEF Live, Typed

(* A timer task starts to wait.                                            *)
LEMMA TaskStartInv ==
  ASSUME Inv, NEW s \in TimedState, TaskStart(s)
  PROVE  Inv'
<1> USE ThreadsAssumption DEF Inv, TaskStart, timerOnly
<1>1. /\ tasks' \in [TimedState -> [Phase -> Nat]]
      /\ \A u \in TimedState : Live(u) => Live(u)'
  BY MoveTaskFacts
<1>2. Typed'
  BY <1>1 DEF Typed, FsmPc, CallPc
<1>3. Exclusive'
  BY DEF Exclusive, Inside, FsmPc, CallPc, Typed
<1>4. JobsFit'
  BY DEF JobsFit, Inside, FsmPc, CallPc, Typed
<1>5. Waiting'
  BY DEF Waiting
<1>6. CalledOff'
  BY DEF CalledOff, Typed
<1>7. ForceHeld'
  BY DEF ForceHeld
<1>8. TimeoutExcluded'
  BY DEF TimeoutExcluded, FsmPc, Typed
<1>9. ArmedHasTask'
  BY <1>1 DEF ArmedHasTask, Typed
<1> QED
  BY <1>2, <1>3, <1>4, <1>5, <1>6, <1>7, <1>8, <1>9 DEF Inv

(* The time is up: the callback runs if the state still has its key.      *)
LEMMA TaskTimeoutInv ==
  ASSUME Inv, NEW s \in TimedState, TaskTimeout(s)
  PROVE  Inv'
<1> USE ThreadsAssumption DEF Inv, TaskTimeout, timerOnly
<1>1. /\ tasks' \in [TimedState -> [Phase -> Nat]]
      /\ \A u \in TimedState \ {s} : Live(u) => Live(u)'
  BY DropTaskFacts DEF Phase
<1>2. None \notin TimedState
  BY TableFacts DEF TimedState, TransitionRow
<1>3. Typed'
  BY <1>1 DEF Typed, FsmPc, CallPc
<1>4. Exclusive'
  BY DEF Exclusive, Inside, FsmPc, CallPc, Typed
<1>5. JobsFit'
  BY DEF JobsFit, Inside, FsmPc, CallPc, Typed
<1>6. Waiting'
  BY DEF Waiting
<1>7. CalledOff'
  BY DEF CalledOff, Typed
<1>8. ForceHeld'
  BY DEF ForceHeld
<1>9. TimeoutExcluded'
  BY DEF TimeoutExcluded, FsmPc, Typed
<1>10. ArmedHasTask'
  BY <1>1, <1>2 DEF ArmedHasTask, Typed
<1> QED
  BY <1>3, <1>4, <1>5, <1>6, <1>7, <1>8, <1>9, <1>10 DEF Inv

(* A task that was woken erases its key.                                   *)
LEMMA TaskCancelledInv ==
  ASSUME Inv, NEW s \in TimedState, TaskCancelled(s)
  PROVE  Inv'
<1> USE ThreadsAssumption DEF Inv, TaskCancelled, timerOnly
<1>1. /\ tasks' \in [TimedState -> [Phase -> Nat]]
      /\ \A u \in TimedState \ {s} : Live(u) => Live(u)'
  BY DropTaskFacts DEF Phase
<1>2. Typed'
  BY <1>1 DEF Typed, FsmPc, CallPc
<1>3. Exclusive'
  BY DEF Exclusive, Inside, FsmPc, CallPc, Typed
<1>4. JobsFit'
  BY DEF JobsFit, Inside, FsmPc, CallPc, Typed
<1>5. Waiting'
  BY DEF Waiting
<1>6. CalledOff'
  BY DEF CalledOff, Typed
<1>7. ForceHeld'
  BY DEF ForceHeld
<1>8. TimeoutExcluded'
  BY DEF TimeoutExcluded, FsmPc, Typed
<1>9. ArmedHasTask'
  BY <1>1 DEF ArmedHasTask, Typed
<1> QED
  BY <1>2, <1>3, <1>4, <1>5, <1>6, <1>7, <1>8, <1>9 DEF Inv

(* A callback assigns the state, under the mutex of the timers alone.      *)
LEMMA TimeoutCallbackDoneInv ==
  ASSUME Inv, NEW s \in TimedState, TimeoutCallbackDone(s)
  PROVE  Inv'
<1> USE ThreadsAssumption DEF Inv, TimeoutCallbackDone, Callback, timerOnly
<1>1. Typed'
  BY DEF Typed, TransitionState
<1>2. Exclusive'
  BY DEF Exclusive, Inside, FsmPc, CallPc, Typed
<1>3. JobsFit'
  BY DEF JobsFit, Inside, FsmPc, CallPc, Typed
<1>4. Waiting'
  BY DEF Waiting
<1>5. CalledOff'
  BY DEF CalledOff, Typed
<1>6. ForceHeld'
  BY DEF ForceHeld
<1>7. TimeoutExcluded'
  BY DEF TimeoutExcluded, FsmPc, Typed, Job, TransitionRow
<1>8. ArmedHasTask'
  BY DEF ArmedHasTask, Live, Typed
<1> QED
  BY <1>1, <1>2, <1>3, <1>4, <1>5, <1>6, <1>7, <1>8 DEF Inv

-----------------------------------------------------------------------------
(* The conversions give states, events and panel states.                   *)
LEMMA Conversions ==
  /\ \A status \in PowerStatus, apAod \in BOOLEAN :
       ConvertPowerStatus2ScreenState(status, apAod) \in TransitionState
  /\ \A status \in PowerStatus :
       ConvertScreenStateEvent(status)
         \in PowerEvent \ (ForAllEvent \cup DisplayEvent)
  /\ \A d \in DisplayState : DisplayStateEvent(d) \in DisplayEvent
  /\ \A state \in PowerState, reason \in PowerStateChangeReason :
       GetPowerStatus(state, reason) \in PowerStatus
  /\ DisplayEvent \subseteq PowerEvent /\ ForAllEvent \subseteq PowerEvent
  /\ DisplayEvent \cap ForAllEvent = {}
<1>1. \A status \in PowerStatus, apAod \in BOOLEAN :
       ConvertPowerStatus2ScreenState(status, apAod) \in TransitionState
  BY DEF ConvertPowerStatus2ScreenState, TransitionState, PowerStatus
<1>2. \A status \in PowerStatus :
       ConvertScreenStateEvent(status)
         \in PowerEvent \ (ForAllEvent \cup DisplayEvent)
  BY DEF ConvertScreenStateEvent, PowerStatus, PowerEvent, ForAllEvent,
         DisplayEvent
<1>3. \A d \in DisplayState : DisplayStateEvent(d) \in DisplayEvent
  BY DEF DisplayStateEvent, DisplayEvent
<1>4. \A state \in PowerState, reason \in PowerStateChangeReason :
       GetPowerStatus(state, reason) \in PowerStatus
  BY DEF GetPowerStatus, PowerState, PowerStatus
<1>5. DisplayEvent \subseteq PowerEvent /\ ForAllEvent \subseteq PowerEvent
  BY DEF DisplayEvent, ForAllEvent, PowerEvent
<1>6. DisplayEvent \cap ForAllEvent = {}
  BY DEF DisplayEvent, ForAllEvent
<1> QED
  BY <1>1, <1>2, <1>3, <1>4, <1>5, <1>6

(* Events of calls that set neither a display state nor all screens.       *)
LEMMA PlainEvents ==
  { "WAKEUP_BEGIN_ADVANCED", "WAKEUP_BEGIN_PRE_BRIGHT", "WAKEUP_BEGIN",
    "SUSPEND_BEGIN_PRE_BRIGHT", "SUSPEND_BEGIN", "SYNC_POWER_ON",
    "DMS_POWER_CB_END", "AOD_ENTER_SUCCESS", "AOD_ENTER_FAIL",
    "FOLD_SCREEN_SET_POWER" } \subseteq PowerEvent \ (ForAllEvent \cup DisplayEvent)
BY DEF PowerEvent, ForAllEvent, DisplayEvent

(* The steps that go on with a call.                                       *)
LEMMA ActionInv == ASSUME Inv, NEW t \in Handlers, Action(t) PROVE Inv'
<1> USE DEF Action
<1>1. CASE ActNeutral(t)
  <2>1. powerStatus' \in PowerStatus
    BY <1>1 DEF ActNeutral, Inv, Typed
  <2> QED
    BY <1>1, <2>1, ActInv DEF ActNeutral
<1>2. CASE ActSetDisplayState(t)
  <2>1. CASE UNCHANGED <<transState, isForceTrans, job>>
    <3>1. powerStatus' \in PowerStatus
      BY <1>2 DEF ActSetDisplayState, Inv, Typed
    <3> QED
      BY <1>2, <2>1, <3>1, ActInv DEF ActSetDisplayState
  <2>2. CASE /\ ToTransition("SCREEN_ON", TRUE)
             /\ job' = [job EXCEPT ![t].calledOff = TRUE]
    BY <1>2, <2>2, CallOffInv DEF ActSetDisplayState
  <2> QED
    BY <1>2, <2>1, <2>2 DEF ActSetDisplayState
<1>3. CASE ActSetScreenPower(t)
  <2>1. powerStatus' \in PowerStatus
    BY <1>3 DEF ActSetScreenPower, Inv, Typed, JobsFit, Goto, FsmPc
  <2> QED
    BY <1>3, <2>1, ActInv DEF ActSetScreenPower
<1>4. CASE ActSetScreenPowerForAll(t)
  <2>1. job[t].event \in ForAllEvent
    BY <1>4, TableFacts
    DEF ActSetScreenPowerForAll, SetScreenPower, Row, Goto, Inv, JobsFit,
        Inside, FsmPc
  <2>2. t \in Callers /\ job[t].arg \in PowerStatus
    BY <1>4, <2>1
    DEF ActSetScreenPowerForAll, SetScreenPower, Goto, Inv, JobsFit, Handlers,
        FsmPc
  <2>3. PICK ret \in BOOLEAN : job' = [job EXCEPT ![t].ret = ret]
    BY <1>4 DEF ActSetScreenPowerForAll
  <2>4. CASE /\ MayFingerprint /\ ToTransition("SCREEN_ON", TRUE)
             /\ Goto(t, "Action", AfterAction(t)) /\ UNCHANGED queue
    <3>1. Goto(t, "Action", IF "Action" = "Idle" THEN "Idle" ELSE AfterAction(t))
      BY <2>4
    <3> QED
      BY <1>4, <2>2, <2>3, <2>4, <3>1, FingerprintInv
      DEF ActSetScreenPowerForAll
  <2> DEFINE task == [ by |-> t, do |-> "ToTransition", status |-> job[t].arg,
                       state |-> ConvertPowerStatus2ScreenState(job[t].arg,
                                                                job[t].apAod) ]
  <2>5. CASE /\ queue' = Append(queue, task) /\ Goto(t, "Action", "AwaitTask")
             /\ UNCHANGED <<transState, isForceTrans>>
    <3>1. task \in Task
      BY <2>2, Conversions DEF Task, Inv, Typed, Job
    <3>2. task.by = t /\ task.do = "ToTransition"
      OBVIOUS
    <3>3. Goto(t, "Action", IF "Action" = "Idle" THEN "AwaitDone" ELSE "AwaitTask")
      BY <2>5
    <3> HIDE DEF task
    <3> QED
      BY <1>4, <2>2, <2>3, <2>5, <3>1, <3>2, <3>3, PostInv
      DEF ActSetScreenPowerForAll
  <2> QED
    BY <1>4, <2>4, <2>5 DEF ActSetScreenPowerForAll, SetScreenPower
<1> QED
  BY <1>1, <1>2, <1>3, <1>4

LEMMA FsmStepInv == ASSUME Inv, NEW t \in Handlers, FsmStep(t) PROVE Inv'
<1> USE ThreadsAssumption
<1>1. CASE Lock(t)
  <2>1. CASE \E r \in GetTransition(transState, job[t].event) :
               /\ mtx' = t /\ Goto(t, "Lock", "StopFrom")
               /\ job' = [job EXCEPT ![t].row = r]
    BY <1>1, <2>1, LockInv DEF Lock
  <2>2. CASE /\ Goto(t, "Lock", job[t].then) /\ UNCHANGED mtx
             /\ job' = IF job[t].then = "Idle" THEN [job EXCEPT ![t] = NoJob]
                                               ELSE job
    <3>1. /\ mtx = None /\ mtx' = None /\ isForceTrans' = isForceTrans
          /\ firing' = firing /\ armed' \subseteq armed /\ tasks' = tasks
          /\ UNCHANGED <<transState, powerStatus, aodNotifyFlag, queue>>
      BY <1>1, <2>2 DEF Lock, timerVars
    <3>2. tasks' \in [TimedState -> [Phase -> Nat]]
      BY <3>1 DEF Inv, Typed
    <3>3. \A s \in TimedState : Live(s) => Live(s)'
      BY <3>1 DEF Live
    <3> QED
      BY <2>2, <3>1, <3>2, <3>3, LeaveInv
  <2> QED
    BY <1>1, <2>1, <2>2 DEF Lock
<1>2. CASE Reset(t)
  <2>1. CASE Goto(t, "Reset", "StopTarget") /\ UNCHANGED <<mtx, job>>
    BY <1>2, <2>1, LowerInv DEF Reset
  <2>2. CASE Unlock(t, "Reset")
    <3>1. /\ isForceTrans' = FALSE
          /\ firing' = firing /\ armed' \subseteq armed /\ tasks' = tasks
          /\ UNCHANGED <<transState, powerStatus, aodNotifyFlag, queue>>
      BY <1>2 DEF Reset, timerVars
    <3>2. tasks' \in [TimedState -> [Phase -> Nat]]
      BY <3>1 DEF Inv, Typed
    <3>3. \A s \in TimedState : Live(s) => Live(s)'
      BY <3>1 DEF Live
    <3> QED
      BY <2>2, <3>1, <3>2, <3>3, LeaveInv DEF Unlock
  <2> QED
    BY <1>2, <2>1, <2>2 DEF Reset
<1>3. CASE StopTarget(t)
  <2>1. job[t].row.target \in TransitionState
    BY DEF Inv, Typed, Job, TransitionRow
  <2>2. /\ firing = None /\ armed' = armed \ {job[t].row.target}
        /\ tasks' \in [TimedState -> [Phase -> Nat]]
        /\ \A s \in TimedState : Live(s) => Live(s)'
    BY <1>3, <2>1, StopTimerFacts DEF StopTarget, Inv
  <2> QED
    BY <1>3, <2>2, LeaveInv DEF StopTarget, Unlock
<1> QED
  BY <1>1, <1>2, <1>3, StopFromInv, ActionInv, StartTargetTimerInv, CheckInv,
     TransferStateInv DEF FsmStep

(* The calls of the power service.                                         *)
LEMMA PowerCallInv == ASSUME Inv, PowerCall PROVE Inv'
<1> USE ThreadsAssumption, RequestsAssumption, PlainEvents, Conversions
<1>1. /\ Power \in Callers /\ Power \in Handlers /\ Power # Sched
      /\ aodNotifyFlag \in AodStatus /\ "UNKNOWN" \in AodStatus
      /\ "Idle" \in CallPc \ { "AwaitDone", "SetFlag" }
      /\ "CheckStatus" \in CallPc \ { "AwaitDone", "SetFlag" }
      /\ { "Reason", "DisplayState", "ForAll" } \subseteq Info
  BY DEF Callers, Handlers, CallPc, AodStatus, Info, Inv, Typed
<1>2. ASSUME NEW reason \in Reasons, WakeUpBegin(reason) PROVE Inv'
  BY <1>1, <1>2, HandleInv DEF WakeUpBegin
<1>3. ASSUME NEW reason \in Reasons, SuspendBegin(reason) PROVE Inv'
  BY <1>1, <1>3, HandleInv DEF SuspendBegin
<1>4. CASE SyncScreenPowerState
  BY <1>1, <1>4, HandleInv DEF SyncScreenPowerState
<1>5. ASSUME NEW state \in DisplayRequests, SetDisplayState(state) PROVE Inv'
  <2>1. state \in DisplayState /\ DisplayStateEvent(state) \in DisplayEvent
    BY DEF DisplayState
  <2> QED
    BY <1>1, <1>5, <2>1, HandleInv DEF SetDisplayState
<1>6. ASSUME NEW state \in PowerRequests, NEW reason \in Reasons,
             SetScreenPowerForAll(state, reason)
      PROVE  Inv'
  <2> DEFINE status == GetPowerStatus(state, reason)
  <2>1. status \in PowerStatus
    OBVIOUS
  <2>2. ASSUME NEW event \in { "SET_SCREEN_POWER_FOR_ALL_POWER_ON",
                               "SET_SCREEN_POWER_FOR_ALL_POWER_OFF" },
               Handle(Power, "Idle", event, "ForAll", status, FALSE, "Idle"),
               UNCHANGED <<callOnly, aodNotifyFlag>>
        PROVE  Inv'
    <3>1. event \in PowerEvent \ DisplayEvent
      BY DEF PowerEvent, DisplayEvent
    <3> QED
      BY <1>1, <2>1, <2>2, <3>1, HandleInv
  <2>3. ASSUME SetScreenPower(Power, "Idle", "Idle", "AwaitDone", status, FALSE),
               UNCHANGED <<powerStatus, aodNotifyFlag, mtx, timerVars, job>>
        PROVE  Inv'
    <3>1. FALSE \in BOOLEAN /\ job' \in { job, [job EXCEPT ![Power].ret = FALSE] }
      BY <2>3
    <3>2. CASE /\ MayFingerprint /\ ToTransition("SCREEN_ON", TRUE)
               /\ Goto(Power, "Idle", "Idle") /\ UNCHANGED queue
      BY <1>1, <2>3, <3>1, <3>2, FingerprintInv
    <3> DEFINE task == [ by |-> Power, do |-> "ToTransition", status |-> status,
                         state |-> ConvertPowerStatus2ScreenState(status, FALSE) ]
    <3>3. CASE /\ queue' = Append(queue, task) /\ Goto(Power, "Idle", "AwaitDone")
               /\ UNCHANGED <<transState, isForceTrans>>
      <4>1. task \in Task /\ task.by = Power /\ task.do = "ToTransition"
        BY <1>1, <2>1 DEF Task
      <4> HIDE DEF task
      <4> QED
        BY <1>1, <2>3, <3>1, <3>3, <4>1, PostInv
    <3> QED
      BY <2>3, <3>2, <3>3 DEF SetScreenPower
  <2> HIDE DEF status
  <2> QED
    BY <1>6, <2>2, <2>3 DEF SetScreenPowerForAll, status
<1> QED
  BY <1>2, <1>3, <1>4, <1>5, <1>6 DEF PowerCall

(* The calls of the others.                                                *)
LEMMA OtherCallInv == ASSUME Inv, OtherCall PROVE Inv'
<1> USE ThreadsAssumption, RequestsAssumption, PlainEvents, Conversions
<1>1. /\ Syncs \cup Aods \cup Folds \subseteq Callers /\ Callers \subseteq Handlers
      /\ Sched \notin Callers /\ Power \notin Syncs \cup Aods \cup Folds
      /\ aodNotifyFlag \in AodStatus
      /\ { "Idle", "AodRetry" } \subseteq CallPc \ { "AwaitDone", "SetFlag" }
      /\ { "monostate", "ForAll", "Callback" } \subseteq Info
  BY DEF Callers, Handlers, CallPc, AodStatus, Info, Inv, Typed
<1>2. ASSUME NEW t \in Syncs, NEW state \in SyncRequests,
             SynchronizePowerStatus(t, state)
      PROVE  Inv'
  <2> DEFINE task == [ by |-> t, do |-> "SetRS",
                       status |-> GetPowerStatus(state, "NORMAL"),
                       state |-> "SCREEN_ON" ]
  <2>1. /\ task \in Task /\ task.by = t /\ task.do = "SetRS"
        /\ "NORMAL" \in PowerStateChangeReason
    BY <1>1 DEF Task, TransitionState, PowerStateChangeReason
  <2>2. FALSE \in BOOLEAN /\ job' \in { job, [job EXCEPT ![t].ret = FALSE] }
    BY <1>2 DEF SynchronizePowerStatus
  <2>3. /\ queue' = Append(queue, task) /\ Goto(t, "Idle", "AwaitDone")
        /\ UNCHANGED <<transState, isForceTrans, powerStatus, aodNotifyFlag, mtx,
                       timerVars>>
    BY <1>2 DEF SynchronizePowerStatus
  <2> HIDE DEF task
  <2> QED
    BY <1>1, <2>1, <2>2, <2>3, PostInv
<1>3. ASSUME NEW t \in Aods, NEW answer \in AodStatus \ {"UNKNOWN"},
             NotifyAodOpCompletion(t, answer)
      PROVE  Inv'
  <2>1. CASE /\ Goto(t, "Idle", "SetFlag") /\ job' = [job EXCEPT ![t].arg = answer]
    BY <1>1, <1>3, <2>1, KeepAnswerInv DEF NotifyAodOpCompletion
  <2>2. CASE Handle(t, "Idle", AodEvent(answer), "monostate", "UNKNOWN", FALSE,
                    "Idle")
    BY <1>1, <1>3, <2>2, HandleInv DEF NotifyAodOpCompletion, AodEvent
  <2> QED
    BY <1>3, <2>1, <2>2 DEF NotifyAodOpCompletion
<1>4. ASSUME NEW t \in Aods, NEW state \in AodRequests,
             SetPowerStateForAod(t, state)
      PROVE  Inv'
  <2>1. GetPowerStatus(state, "NORMAL") \in PowerStatus
    BY DEF PowerState, PowerStateChangeReason
  <2>2. PICK event \in ForAllEvent, then \in { "Idle", "AodRetry" } :
          Handle(t, "Idle", event, "ForAll", GetPowerStatus(state, "NORMAL"),
                 TRUE, then)
    BY <1>4 DEF SetPowerStateForAod, ForAllEvent
  <2> QED
    BY <1>1, <1>4, <2>1, <2>2, HandleInv DEF SetPowerStateForAod
<1>5. ASSUME NEW t \in Folds, FoldScreenSetPower(t) PROVE Inv'
  BY <1>1, <1>5, HandleInv DEF FoldScreenSetPower
<1> QED
  BY <1>2, <1>3, <1>4, <1>5 DEF OtherCall

(* The steps between a caller's calls of the machine, and the scheduler's. *)
LEMMA CallStepInv == ASSUME Inv, NEW t \in Handlers, CallStep(t) PROVE Inv'
<1> USE ThreadsAssumption, PlainEvents, Conversions
<1>1. /\ Aods \cup {Power} \subseteq Callers /\ Callers \subseteq Handlers
      /\ Sched \notin Callers /\ Sched \in Handlers
      /\ aodNotifyFlag \in AodStatus
      /\ { "Idle", "CheckStatus", "ReadFlag", "ReadFailure", "AodRetry" }
           \subseteq CallPc \ { "AwaitDone", "SetFlag" }
      /\ "SetFlag" \in CallPc \ {"AwaitDone"}
      /\ "AwaitDone" \in CallPc \ {"SetFlag"}
      /\ { "DisplayState", "ForAll", "Screen" } \subseteq Info
      /\ \A u \in Handlers : job[u].arg \in
           PowerStatus \cup DisplayState \cup AodStatus \cup {"UNKNOWN"}
  BY DEF Callers, Handlers, CallPc, AodStatus, Info, Inv, Typed, Job
<1>2. CASE CheckStatus
  BY <1>1, <1>2, HandleInv, ReturnInv DEF CheckStatus
<1>3. CASE ReadFlag
  BY <1>1, <1>3, HandleInv, LookAgainInv DEF ReadFlag
<1>4. CASE t \in Aods /\ SetFlag(t)
  <2>1. aodNotifyFlag' \in AodStatus
    BY <1>1, <1>4 DEF SetFlag, Return, Goto, Inv, JobsFit
  <2> QED
    BY <1>1, <1>4, <2>1, ReturnInv DEF SetFlag
<1>5. CASE t \in Aods /\ AodRetry(t)
  <2>1. /\ "SET_SCREEN_POWER_FOR_ALL_FORCE_POWER_OFF" \in ForAllEvent
        /\ "OFF" \in PowerStatus
    BY DEF ForAllEvent, PowerStatus
  <2> QED
    BY <1>1, <1>5, <2>1, HandleInv, ReturnInv DEF AodRetry
<1>6. CASE SchedSetRS
  <2>1. Head(queue).status \in PowerStatus
    <3>1. Head(queue) = queue[1] /\ 1 \in 1 .. Len(queue)
      BY <1>6 DEF SchedSetRS, Inv, Typed
    <3> QED
      BY <3>1, TaskFacts DEF Inv, Typed
  <2> QED
    BY <1>1, <1>6, <2>1, HandleInv DEF SchedSetRS
<1>7. CASE ReadFailure
  BY <1>1, <1>7, HandleInv, ReturnInv DEF ReadFailure
<1> QED
  BY <1>2, <1>3, <1>4, <1>5, <1>6, <1>7, FsmStepInv, SchedToTransitionInv,
     SchedSetRSDoneInv DEF CallStep, SchedStep

(* Nothing happens.                                                        *)
LEMMA StutterInv == ASSUME Inv, UNCHANGED vars PROVE Inv'
BY DEF Inv, vars, timerVars, Typed, Exclusive, JobsFit, Waiting, CalledOff,
       ForceHeld, TimeoutExcluded, ArmedHasTask, Live

LEMMA NextInv == Inv /\ [Next]_vars => Inv'
BY PowerCallInv, OtherCallInv, CallStepInv, TaskStartInv, TaskTimeoutInv,
   TaskCancelledInv, TimeoutCallbackDoneInv, StutterInv DEF Next, TimerStep

(* The invariant holds.                                                    *)
THEOREM Invariant == Spec => []Inv
BY InitInv, NextInv, PTL DEF Spec

(* Every variable has its type, and only a thread in the machine's code    *)
(* owns its mutex.                                                         *)
THEOREM TypeCorrect == Spec => []TypeOK
<1>1. Inv => TypeOK
  <2> SUFFICES ASSUME Inv PROVE TypeOK
    OBVIOUS
  <2>1. \A i \in 1 .. Len(queue) : queue[i] \in Task
    BY ElementOfSeq DEF Inv, Typed
  <2> QED
    BY <2>1 DEF Inv, Typed, Exclusive, Inside, TypeOK, Task
<1> QED
  BY <1>1, Invariant, PTL

(* From StopFrom on no timeout of the state that the handler leaves is     *)
(* pending or running.                                                     *)
THEOREM NoTimeoutMeanwhile == Spec => []TimeoutExcluded
BY Invariant, PTL DEF Inv

(* A pending timeout has a task that will look at it.                      *)
THEOREM TimeoutsAreLookedAt == Spec => []ArmedHasTask
BY Invariant, PTL DEF Inv

(* A display change that was called off transfers nothing.                 *)
THEOREM CallingOffHolds == Spec => []CalledOffNeverTransfers
<1>1. Inv => CalledOffNeverTransfers
  BY DEF Inv, CalledOff, CalledOffNeverTransfers
<1> QED
  BY <1>1, Invariant, PTL

(* Without a fingerprint a forced transition is consumed by the handler    *)
(* that forced it.                                                         *)
THEOREM ForceStaysInside == Spec => []ForceIsConsumed
<1>1. Inv => ForceIsConsumed
  BY DEF Inv, ForceHeld, ForceIsConsumed
<1> QED
  BY <1>1, Invariant, PTL
-----------------------------------------------------------------------------
(* A step in the machine as the caller sees it: where t goes, and that its *)
(* call stays what it is until it is over.                                 *)
JobKept(t) ==
  /\ \A u \in Handlers \ {t} : job'[u] = job[u]
  /\ job'[t].then = job[t].then
  /\ job'[t].event = job[t].event \/ job'[t] = NoJob

Moves(t) ==
  \/ Goto(t, "Lock", "StopFrom") \/ Goto(t, "Lock", job[t].then)
  \/ Goto(t, "StopFrom", "Action")
  \/ Goto(t, "Action", AfterAction(t))
  \/ Goto(t, "Action", "AwaitTask") /\ ActSetScreenPowerForAll(t)
  \/ Goto(t, "StartTimer", "Check")
  \/ Goto(t, "Check", "Transfer") \/ Goto(t, "Check", "Reset")
  \/ Goto(t, "Transfer", "Reset")
  \/ Goto(t, "Reset", "StopTarget") \/ Goto(t, "Reset", job[t].then)
  \/ Goto(t, "StopTarget", job[t].then)

LEMMA JobChanges ==
  ASSUME Typed, NEW t \in Handlers,
         \/ UNCHANGED job
         \/ \E r : job' = [job EXCEPT ![t].row = r]
         \/ job' = [job EXCEPT ![t].calledOff = TRUE]
         \/ \E ret : job' = [job EXCEPT ![t].ret = ret]
         \/ job[t].then = "Idle" /\ job' = [job EXCEPT ![t] = NoJob]
  PROVE  JobKept(t)
<1>1. job[t] \in Job /\ NoJob.then = "Idle"
  BY DEF Typed, NoJob
<1>2. CASE UNCHANGED job
  BY <1>2 DEF JobKept
<1>3. ASSUME NEW r, job' = [job EXCEPT ![t].row = r] PROVE JobKept(t)
  <2>1. job'[t].then = job[t].then /\ job'[t].event = job[t].event
    BY <1>1, <1>3 DEF Typed, Job
  <2> QED
    BY <1>3, <2>1 DEF JobKept, Typed
<1>4. CASE job' = [job EXCEPT ![t].calledOff = TRUE]
  <2>1. job'[t].then = job[t].then /\ job'[t].event = job[t].event
    BY <1>1, <1>4 DEF Typed, Job
  <2> QED
    BY <1>4, <2>1 DEF JobKept, Typed
<1>5. ASSUME NEW ret, job' = [job EXCEPT ![t].ret = ret] PROVE JobKept(t)
  <2>1. job'[t].then = job[t].then /\ job'[t].event = job[t].event
    BY <1>1, <1>5 DEF Typed, Job
  <2> QED
    BY <1>5, <2>1 DEF JobKept, Typed
<1>6. CASE job[t].then = "Idle" /\ job' = [job EXCEPT ![t] = NoJob]
  BY <1>1, <1>6 DEF JobKept, Typed
<1> QED
  BY <1>2, <1>3, <1>4, <1>5, <1>6

(* What Goto and Handle do to the places and the locals.                   *)
LEMMA GotoAt ==
  ASSUME Typed, NEW t \in Handlers, NEW from, NEW to, Goto(t, from, to)
  PROVE  /\ pc[t] = from /\ pc'[t] = to
         /\ \A u \in Handlers : u # t => pc'[u] = pc[u]
BY DEF Typed, Goto

LEMMA HandleAt ==
  ASSUME Typed, NEW t \in Handlers, NEW from, NEW event, NEW info,
         NEW arg, NEW apAod, NEW then,
         Handle(t, from, event, info, arg, apAod, then)
  PROVE  /\ pc[t] = from /\ pc'[t] = "Lock"
         /\ \A u \in Handlers : u # t => pc'[u] = pc[u] /\ job'[u] = job[u]
         /\ job'[t].event = event /\ job'[t].then = then
BY DEF Typed, Handle, Goto

LEMMA ReturnAt ==
  ASSUME Typed, NEW t \in Handlers, NEW from, Return(t, from)
  PROVE  /\ Goto(t, from, "Idle") /\ job'[t] = NoJob
         /\ \A u \in Handlers : u # t => job'[u] = job[u]
BY DEF Typed, Return

LEMMA FsmStepMoves ==
  ASSUME Typed, NEW t \in Handlers, FsmStep(t)
  PROVE  Moves(t) /\ JobKept(t)
<1>1. CASE Lock(t)
  BY <1>1, JobChanges DEF Lock, Moves
<1>2. CASE Action(t)
  <2>1. CASE ActNeutral(t)
    BY <2>1, JobChanges DEF ActNeutral, Moves
  <2>2. CASE ActSetDisplayState(t)
    BY <2>2, JobChanges DEF ActSetDisplayState, Moves
  <2>3. CASE ActSetScreenPower(t)
    BY <2>3, JobChanges DEF ActSetScreenPower, Moves
  <2>4. CASE ActSetScreenPowerForAll(t)
    <3>1. Goto(t, "Action", AfterAction(t)) \/ Goto(t, "Action", "AwaitTask")
      BY <2>4 DEF ActSetScreenPowerForAll, SetScreenPower
    <3>2. \E ret : job' = [job EXCEPT ![t].ret = ret]
      BY <2>4 DEF ActSetScreenPowerForAll
    <3> QED
      BY <2>4, <3>1, <3>2, JobChanges DEF Moves
  <2> QED
    BY <1>2, <2>1, <2>2, <2>3, <2>4 DEF Action
<1>3. CASE StopFrom(t) \/ StartTargetTimer(t) \/ TransferState(t)
  BY <1>3, JobChanges DEF StopFrom, StartTargetTimer, TransferState, Moves
<1>4. CASE Check(t)
  <2>1. UNCHANGED job /\ (Goto(t, "Check", "Transfer") \/ Goto(t, "Check", "Reset"))
    BY <1>4 DEF Check
  <2> QED
    BY <2>1, JobChanges DEF Moves
<1>5. CASE Reset(t) \/ StopTarget(t)
  BY <1>5, JobChanges DEF Reset, StopTarget, Unlock, Moves
<1> QED
  BY <1>1, <1>2, <1>3, <1>4, <1>5 DEF FsmStep
-----------------------------------------------------------------------------
(* Who can be stuck.  A handler keeps the machine's mutex while it waits   *)
(* for the timer's mutex or for a task of the scheduler, so a call might   *)
(* never return.                                                           *)

(* The guards of CallStep: what u waits for has happened.                  *)
MayStep(u) ==
  CASE pc[u] = "Lock" -> mtx = None
    [] pc[u] \in { "StopFrom", "StartTimer", "StopTarget" } -> firing = None
    [] pc[u] = "AwaitTask" -> FALSE
    [] pc[u] = "AwaitDone" -> u = Sched
    [] pc[u] = "Idle" -> u = Sched /\ queue # <<>>
    [] OTHER -> TRUE

(* While a call is in progress somebody goes on: a timeout callback, which *)
(* waits for nothing, or a thread; unless the threads wait in the circle.  *)
SomebodyGoesOn ==
  (\E t \in Callers : pc[t] # "Idle") =>
    firing # None \/ Circle \/ \E u \in Handlers : MayStep(u)

AwaitsTask(t) == pc[t] = "AwaitTask" \/ (t # Sched /\ pc[t] = "AwaitDone")

(* The converse of Waiting: who waits for a task has one in the queue.     *)
Posted ==
  /\ \A t \in Callers : job[t].then # "AwaitDone"
  /\ \A t \in Handlers :
       AwaitsTask(t) => \E i \in 1 .. Len(queue) : queue[i].by = t

LEMMA PostedKept ==
  ASSUME Posted, UNCHANGED queue,
         \A t \in Callers : job'[t].then # "AwaitDone",
         \A t \in Handlers : pc'[t] = pc[t] \/ ~AwaitsTask(t)'
  PROVE  Posted'
BY DEF Posted, AwaitsTask

(* A call of the machine begins.                                           *)
LEMMA HandlePosted ==
  ASSUME Inv, Posted, NEW t \in Handlers, NEW from, NEW event, NEW info,
         NEW arg, NEW apAod, NEW then, then # "AwaitDone" \/ t = Sched,
         Handle(t, from, event, info, arg, apAod, then), UNCHANGED queue
  PROVE  Posted'
<1>1. \A u \in Handlers : pc'[u] = pc[u] \/ pc'[u] = "Lock"
  BY DEF Inv, Typed, Handle, Goto
<1>2. \A u \in Callers : job'[u].then # "AwaitDone"
  BY ThreadsAssumption DEF Inv, Typed, Handle, Posted, Handlers
<1> QED
  BY <1>1, <1>2, PostedKept DEF AwaitsTask

(* A thread goes on that waits for no task, and posts none.                *)
LEMMA GoOnPosted ==
  ASSUME Inv, Posted, NEW t \in Handlers, UNCHANGED queue, NEW from, NEW to,
         Goto(t, from, to),
         to # "AwaitTask", t # Sched => to # "AwaitDone",
         \A u \in Handlers : job'[u].then = job[u].then \/ job'[u] = NoJob
  PROVE  Posted'
<1>1. \A u \in Handlers : pc'[u] = pc[u] \/ ~AwaitsTask(u)'
  BY DEF Inv, Typed, AwaitsTask, Goto
<1>2. \A u \in Callers : job'[u].then # "AwaitDone"
  BY DEF Posted, Handlers, NoJob
<1> QED
  BY <1>1, <1>2, PostedKept

(* A caller posts a task.                                                  *)
LEMMA PostPosted ==
  ASSUME Inv, Posted, NEW t \in Callers, NEW task, task.by = t,
         queue' = Append(queue, task), NEW from, NEW to, Goto(t, from, to),
         \A u \in Handlers : job'[u].then = job[u].then
  PROVE  Posted'
<1>1. /\ Len(queue') = Len(queue) + 1 /\ queue'[Len(queue) + 1] = task
      /\ \A i \in 1 .. Len(queue) : queue'[i] = queue[i]
      /\ Len(queue) \in Nat
  BY DEF Inv, Typed
<1>2. \A u \in Handlers \ {t} : pc'[u] = pc[u]
  BY DEF Inv, Typed, Goto
<1>3. ASSUME NEW u \in Handlers, AwaitsTask(u)'
      PROVE  \E i \in 1 .. Len(queue') : queue'[i].by = u
  <2>1. CASE u = t
    BY <1>1, <2>1
  <2>2. CASE u # t
    <3>1. PICK i \in 1 .. Len(queue) : queue[i].by = u
      BY <1>2, <1>3, <2>2 DEF Posted, AwaitsTask
    <3> QED
      BY <1>1, <3>1
  <2> QED
    BY <2>1, <2>2
<1> QED
  BY <1>3 DEF Posted, Handlers

(* The scheduler is done with its first task, whose poster goes on.        *)
LEMMA DonePosted ==
  ASSUME Inv, Posted, queue # <<>>, queue' = Tail(queue), NEW to,
         to # "AwaitTask", to # "AwaitDone",
         pc'[Head(queue).by] = to, pc'[Sched] = "Idle",
         \A u \in Handlers \ { Head(queue).by, Sched } : pc'[u] = pc[u],
         \A u \in Callers : job'[u] = job[u]
  PROVE  Posted'
<1>1. /\ 1 \in 1 .. Len(queue) /\ Head(queue) = queue[1]
      /\ Len(queue') = Len(queue) - 1
      /\ \A i \in 1 .. Len(queue') : queue'[i] = queue[i + 1]
      /\ Len(queue) \in Nat
  BY HeadTailProperties DEF Inv, Typed
<1>2. ASSUME NEW u \in Handlers, AwaitsTask(u)'
      PROVE  \E i \in 1 .. Len(queue') : queue'[i].by = u
  <2>1. u # Head(queue).by /\ u # Sched
    BY <1>2 DEF AwaitsTask
  <2>2. PICK i \in 1 .. Len(queue) : queue[i].by = u
    BY <1>2, <2>1 DEF Posted, AwaitsTask
  <2>3. i # 1
    BY <1>1, <2>1, <2>2
  <2>4. i - 1 \in 1 .. Len(queue') /\ queue'[i - 1] = queue[i]
    BY <1>1, <2>2, <2>3
  <2> QED
    BY <2>2, <2>4
<1> QED
  BY <1>2 DEF Posted

(* DoSetScreenPowerForAll posts a task or goes on without one.             *)
LEMMA PostsOrNot ==
  ASSUME NEW t, NEW from, NEW done, NEW await, NEW status, NEW apAod,
         SetScreenPower(t, from, done, await, status, apAod)
  PROVE  \/ queue' = queue /\ Goto(t, from, done)
         \/ \E task : /\ task.by = t /\ task.do = "ToTransition"
                      /\ queue' = Append(queue, task) /\ Goto(t, from, await)
<1>1. CASE queue' = queue /\ Goto(t, from, done)
  BY <1>1
<1>2. CASE /\ queue' = Append(queue, [ by |-> t, do |-> "ToTransition", status |-> status,
                   state |-> ConvertPowerStatus2ScreenState(status, apAod) ])
           /\ Goto(t, from, await)
  <2> DEFINE task == [ by |-> t, do |-> "ToTransition", status |-> status,
                       state |-> ConvertPowerStatus2ScreenState(status, apAod) ]
  <2>1. task.by = t /\ task.do = "ToTransition" /\ queue' = Append(queue, task)
    BY <1>2
  <2> HIDE DEF task
  <2> QED
    BY <1>2, <2>1
<1> QED
  BY <1>1, <1>2 DEF SetScreenPower

(* Where a handler goes on, inside the machine and when it leaves it.      *)
LEMMA ThenPosted ==
  ASSUME Inv, Posted, NEW t \in Handlers
  PROVE  /\ job[t].then # "AwaitTask"
         /\ t # Sched => job[t].then # "AwaitDone"
         /\ AfterAction(t) # "AwaitTask" /\ AfterAction(t) # "AwaitDone"
<1>1. job[t].then # "AwaitTask"
  BY DEF Inv, Typed, Job, CallPc
<1>2. t # Sched => job[t].then # "AwaitDone"
  BY DEF Posted, Handlers
<1>3. AfterAction(t) # "AwaitTask" /\ AfterAction(t) # "AwaitDone"
  BY DEF AfterAction
<1> QED
  BY <1>1, <1>2, <1>3

LEMMA FsmStepPosted ==
  ASSUME Inv, Posted, NEW t \in Handlers, FsmStep(t)
  PROVE  Posted'
<1>1. Moves(t) /\ JobKept(t)
  BY FsmStepMoves DEF Inv
<1>2. \A u \in Handlers : job'[u].then = job[u].then
  BY <1>1 DEF JobKept
<1>3. ~ActSetScreenPowerForAll(t) => queue' = queue
  <2>1. CASE Action(t)
    BY <2>1 DEF Action, ActNeutral, ActSetDisplayState, ActSetScreenPower
  <2>2. CASE ~Action(t)
    BY <2>2 DEF FsmStep, Lock, StopFrom, StartTargetTimer, Check, TransferState, Reset,
         StopTarget
  <2> QED
    BY <2>1, <2>2
<1>4. CASE ~ActSetScreenPowerForAll(t)
  <2>1. queue' = queue
    BY <1>3, <1>4
  <2>2. ASSUME NEW from, NEW to, Goto(t, from, to),
               to \in { "StopFrom", "Action", "Check", "Transfer", "Reset", "StopTarget" }
        PROVE  Posted'
    <3>1. to # "AwaitTask" /\ to # "AwaitDone"
      BY <2>2
    <3> QED
      BY <1>2, <2>1, <2>2, <3>1, GoOnPosted
  <2>3. ASSUME NEW from, Goto(t, from, job[t].then) PROVE Posted'
    BY <1>2, <2>1, <2>3, ThenPosted, GoOnPosted
  <2>4. ASSUME NEW from, Goto(t, from, AfterAction(t)) PROVE Posted'
    BY <1>2, <2>1, <2>4, ThenPosted, GoOnPosted
  <2> QED
    BY <1>1, <1>4, <2>2, <2>3, <2>4 DEF Moves
<1>5. CASE ActSetScreenPowerForAll(t)
  <2>1. t \in Callers
    <3>1. job[t].row \in Transitions /\ job[t].row.event = job[t].event
      BY <1>5 DEF ActSetScreenPowerForAll, SetScreenPower, Goto, Inv, JobsFit, Inside,
           FsmPc
    <3>2. job[t].event \in ForAllEvent
      BY <1>5, <3>1, TableFacts DEF ActSetScreenPowerForAll, Row
    <3> QED
      BY <3>2 DEF Inv, JobsFit, Handlers
  <2>2. CASE queue' = queue /\ Goto(t, "Action", AfterAction(t))
    BY <1>2, <2>2, ThenPosted, GoOnPosted
  <2>3. ASSUME NEW task, task.by = t, queue' = Append(queue, task),
               Goto(t, "Action", "AwaitTask")
        PROVE  Posted'
    BY <1>2, <2>1, <2>3, PostPosted
  <2>4. \/ queue' = queue /\ Goto(t, "Action", AfterAction(t))
        \/ \E task : /\ task.by = t /\ queue' = Append(queue, task)
                     /\ Goto(t, "Action", "AwaitTask")
    BY <1>5, PostsOrNot DEF ActSetScreenPowerForAll
  <2> QED
    BY <2>2, <2>3, <2>4
<1> QED
  BY <1>4, <1>5

LEMMA PowerCallPosted == ASSUME Inv, Posted, PowerCall PROVE Posted'
<1> USE ThreadsAssumption
<1>1. Power \in Callers /\ Power \in Handlers
  BY DEF Callers, Handlers
<1>2. ASSUME NEW reason \in Reasons, WakeUpBegin(reason) \/ SuspendBegin(reason)
      PROVE  Posted'
  BY <1>1, <1>2, HandlePosted DEF WakeUpBegin, SuspendBegin, callOnly
<1>3. CASE SyncScreenPowerState
  BY <1>1, <1>3, HandlePosted DEF SyncScreenPowerState, callOnly
<1>4. ASSUME NEW state \in DisplayRequests, SetDisplayState(state)
      PROVE  Posted'
  <2>1. UNCHANGED queue
    BY <1>4 DEF SetDisplayState, callOnly
  <2>2. PICK event, arg, apAod :
          Handle(Power, "Idle", event, "DisplayState", arg, apAod, "CheckStatus")
    BY <1>4 DEF SetDisplayState
  <2> QED
    BY <1>1, <2>1, <2>2, HandlePosted
<1>5. ASSUME NEW state \in PowerRequests, NEW reason \in Reasons,
             SetScreenPowerForAll(state, reason)
      PROVE  Posted'
  <2>1. ASSUME NEW event, NEW status, UNCHANGED callOnly,
               Handle(Power, "Idle", event, "ForAll", status, FALSE, "Idle")
        PROVE  Posted'
    BY <1>1, <2>1, HandlePosted DEF callOnly
  <2>2. ASSUME NEW status, UNCHANGED job,
               SetScreenPower(Power, "Idle", "Idle", "AwaitDone", status, FALSE)
        PROVE  Posted'
    <3>1. CASE UNCHANGED queue /\ Goto(Power, "Idle", "Idle")
      BY <1>1, <2>2, <3>1, GoOnPosted
    <3>2. ASSUME NEW task, task.by = Power, queue' = Append(queue, task),
                 Goto(Power, "Idle", "AwaitDone")
          PROVE  Posted'
      BY <1>1, <2>2, <3>2, PostPosted
    <3> QED
      BY <2>2, <3>1, <3>2, PostsOrNot
  <2> QED
    BY <1>5, <2>1, <2>2 DEF SetScreenPowerForAll
<1> QED
  BY <1>2, <1>3, <1>4, <1>5 DEF PowerCall

LEMMA OtherCallPosted == ASSUME Inv, Posted, OtherCall PROVE Posted'
<1>1. Syncs \cup Aods \cup Folds \subseteq Callers /\ Callers \subseteq Handlers
  BY DEF Callers, Handlers
<1>2. ASSUME NEW t \in Syncs, NEW state \in SyncRequests,
             SynchronizePowerStatus(t, state)
      PROVE  Posted'
  <2>1. PICK task : task.by = t /\ queue' = Append(queue, task)
    BY <1>2 DEF SynchronizePowerStatus
  <2>2. Goto(t, "Idle", "AwaitDone") /\ UNCHANGED job
    BY <1>2 DEF SynchronizePowerStatus
  <2> QED
    BY <1>1, <2>1, <2>2, PostPosted
<1>3. ASSUME NEW t \in Aods, NEW answer, NotifyAodOpCompletion(t, answer)
      PROVE  Posted'
  <2>1. CASE Goto(t, "Idle", "SetFlag") /\ job' = [job EXCEPT ![t].arg = answer]
    <3>1. \A u \in Handlers : job'[u].then = job[u].then
      BY <2>1 DEF Inv, Typed, Job
    <3>2. UNCHANGED queue
      BY <1>3 DEF NotifyAodOpCompletion, callOnly
    <3> QED
      BY <1>1, <2>1, <3>1, <3>2, GoOnPosted
  <2>2. CASE Handle(t, "Idle", AodEvent(answer), "monostate", "UNKNOWN", FALSE, "Idle")
    BY <1>1, <1>3, <2>2, HandlePosted DEF NotifyAodOpCompletion, callOnly
  <2> QED
    BY <1>3, <2>1, <2>2 DEF NotifyAodOpCompletion
<1>4. ASSUME NEW t \in Aods, NEW state \in AodRequests, SetPowerStateForAod(t, state)
      PROVE  Posted'
  <2>1. PICK event, status, then :
          /\ then \in { "AodRetry", "Idle" }
          /\ Handle(t, "Idle", event, "ForAll", status, TRUE, then)
    BY <1>4 DEF SetPowerStateForAod
  <2>2. UNCHANGED queue /\ then # "AwaitDone"
    BY <1>4, <2>1 DEF SetPowerStateForAod, callOnly
  <2> QED
    BY <1>1, <2>1, <2>2, HandlePosted
<1>5. ASSUME NEW t \in Folds, FoldScreenSetPower(t)
      PROVE  Posted'
  BY <1>1, <1>5, HandlePosted DEF FoldScreenSetPower, callOnly
<1> QED
  BY <1>2, <1>3, <1>4, <1>5 DEF OtherCall

LEMMA CallStepPosted ==
  ASSUME Inv, Posted, NEW t \in Handlers, CallStep(t)
  PROVE  Posted'
<1> USE ThreadsAssumption
<1>1. /\ Power \in Callers /\ Power \in Handlers /\ Sched \in Handlers
      /\ Sched \notin Callers /\ Aods \subseteq Handlers
  BY DEF Callers, Handlers
<1>2. ASSUME NEW u \in Handlers, NEW from, Return(u, from), UNCHANGED queue
      PROVE  Posted'
  <2>1. \A v \in Handlers : job'[v].then = job[v].then \/ job'[v] = NoJob
    BY <1>2, ReturnAt DEF Inv
  <2>2. Goto(u, from, "Idle")
    BY <1>2 DEF Return
  <2> QED
    BY <1>2, <2>1, <2>2, GoOnPosted
<1>3. CASE CheckStatus \/ ReadFlag \/ ReadFailure
  <2>1. UNCHANGED queue
    BY <1>3 DEF CheckStatus, ReadFlag, ReadFailure, callOnly
  <2>2. \/ Return(Power, "CheckStatus") \/ Return(Power, "ReadFailure")
        \/ Goto(Power, "ReadFlag", "ReadFailure") /\ UNCHANGED job
        \/ \E event, arg : Handle(Power, "CheckStatus", event, "DisplayState", arg,
                                 FALSE, "ReadFlag")
        \/ \E from, event, arg : Handle(Power, from, event, "DisplayState", arg,
                                       FALSE, "Idle")
    BY <1>3 DEF CheckStatus, ReadFlag, ReadFailure
  <2>3. ASSUME NEW from, NEW event, NEW arg, NEW then, then # "AwaitDone",
               Handle(Power, from, event, "DisplayState", arg, FALSE, then)
        PROVE  Posted'
    BY <1>1, <2>1, <2>3, HandlePosted
  <2>4. CASE Goto(Power, "ReadFlag", "ReadFailure") /\ UNCHANGED job
    BY <1>1, <2>1, <2>4, GoOnPosted
  <2> QED
    BY <1>1, <1>2, <2>1, <2>2, <2>3, <2>4
<1>4. CASE t \in Aods /\ (SetFlag(t) \/ AodRetry(t))
  <2>1. UNCHANGED queue
    BY <1>4 DEF SetFlag, AodRetry, callOnly
  <2>2. \/ Return(t, "SetFlag") \/ Return(t, "AodRetry")
        \/ \E event, arg, apAod :
             Handle(t, "AodRetry", event, "ForAll", arg, apAod, "Idle")
    BY <1>4 DEF SetFlag, AodRetry
  <2>3. ASSUME NEW event, NEW arg, NEW apAod,
               Handle(t, "AodRetry", event, "ForAll", arg, apAod, "Idle")
        PROVE  Posted'
    BY <2>1, <2>3, HandlePosted
  <2> QED
    BY <1>2, <2>1, <2>2, <2>3
<1>5. CASE SchedToTransition
  <2> DEFINE p == Head(queue).by
  <2>1. p \in Callers
    BY <1>5, HeadTailProperties, TaskFacts DEF SchedToTransition, Inv, Typed
  <2>2. pc' = [pc EXCEPT ![p] = Resume(p)] /\ pc[Sched] = "Idle" /\ UNCHANGED job
    BY <1>5 DEF SchedToTransition
  <2>3. Resume(p) # "AwaitTask" /\ Resume(p) # "AwaitDone"
    BY <2>1, ThenPosted DEF Resume, Handlers
  <2>4. queue # <<>> /\ queue' = Tail(queue)
    BY <1>5 DEF SchedToTransition
  <2> HIDE DEF p
  <2>5. /\ pc'[p] = Resume(p) /\ pc'[Sched] = "Idle"
        /\ \A u \in Handlers \ {p, Sched} : pc'[u] = pc[u]
    BY <1>1, <2>1, <2>2 DEF Inv, Typed, Handlers
  <2> QED
    BY <2>2, <2>3, <2>4, <2>5, DonePosted DEF p
<1>6. CASE SchedSetRS
  BY <1>1, <1>6, HandlePosted DEF SchedSetRS, callOnly
<1>7. CASE SchedSetRSDone
  <2> DEFINE p == Head(queue).by
  <2>1. queue # <<>> /\ queue' = Tail(queue)
    BY <1>7 DEF SchedSetRSDone, Inv, Waiting
  <2>2. p \in Callers
    BY <2>1, HeadTailProperties, TaskFacts DEF Inv, Typed
  <2>3. /\ pc' = [pc EXCEPT ![Sched] = "Idle", ![p] = "Idle"]
        /\ job' = [job EXCEPT ![Sched] = NoJob]
    BY <1>7 DEF SchedSetRSDone
  <2> HIDE DEF p
  <2>4. /\ pc'[p] = "Idle" /\ pc'[Sched] = "Idle"
        /\ \A u \in Handlers \ {p, Sched} : pc'[u] = pc[u]
        /\ \A u \in Callers : job'[u] = job[u]
    BY <1>1, <2>2, <2>3 DEF Inv, Typed, Handlers
  <2> QED
    BY <2>1, <2>4, DonePosted DEF p
<1> QED
  BY <1>3, <1>4, <1>5, <1>6, <1>7, FsmStepPosted DEF CallStep, SchedStep

LEMMA NextPosted == Inv /\ Posted /\ [Next]_vars => Posted'
<1> SUFFICES ASSUME Inv, Posted, [Next]_vars PROVE Posted'
  OBVIOUS
<1>1. ASSUME NEW s \in TimedState, TimerStep(s) PROVE Posted'
  BY <1>1 DEF TimerStep, TaskStart, TaskTimeout, TaskCancelled, TimeoutCallbackDone,
       timerOnly, Posted, AwaitsTask
<1>2. CASE UNCHANGED vars
  BY <1>2 DEF vars, Posted, AwaitsTask
<1> QED
  BY <1>1, <1>2, PowerCallPosted, OtherCallPosted, CallStepPosted DEF Next

(* While a call is in progress somebody goes on, unless a handler that     *)
(* waits for the scheduler and the scheduler that waits for its mutex are  *)
(* in a circle: nothing else in the machine, its timer or its scheduler    *)
(* ever blocks for good.                                                   *)
THEOREM OnlyTheCircleBlocks == Spec => []SomebodyGoesOn
<1>1. Init => Posted
  BY DEF Init, Posted, AwaitsTask, NoJob, Handlers
<1>2. Inv /\ Posted => SomebodyGoesOn
  <2> SUFFICES ASSUME Inv, Posted, NEW t \in Callers, pc[t] # "Idle", firing = None,
                      ~Circle, \A u \in Handlers : ~MayStep(u)
               PROVE  FALSE
    BY DEF SomebodyGoesOn
  <2> USE ThreadsAssumption
  <2>1. /\ Sched \in Handlers /\ Sched \notin Callers /\ t \in Handlers /\ t # Sched
        /\ \A u \in Handlers : u # Sched => u \in Callers
    BY DEF Handlers
  <2>2. ASSUME NEW u \in Handlers, AwaitsTask(u)
        PROVE  pc[Sched] = "Lock" /\ mtx # None
    <3>1. queue # <<>> /\ u # Sched
      <4>1. PICK i \in 1 .. Len(queue) : queue[i].by = u
        BY <2>2 DEF Posted
      <4> QED
        BY <2>1, <4>1, TaskFacts DEF Inv, Typed
    <3>2. pc[Sched] # "AwaitTask"
      <4>1. ~ \E i \in 1 .. Len(queue) : queue[i].by = Sched
        BY <2>1, TaskFacts DEF Inv, Typed
      <4>2. pc[Sched] = "AwaitTask" => AwaitsTask(Sched)
        BY DEF AwaitsTask
      <4> QED
        BY <2>1, <4>1, <4>2 DEF Posted
    <3> QED
      BY <2>1, <3>1, <3>2 DEF MayStep
  <2>3. PICK u \in Handlers : mtx = u
    <3>1. CASE AwaitsTask(t)
      BY <2>1, <2>2, <3>1 DEF Inv, Typed
    <3>2. CASE ~AwaitsTask(t)
      BY <2>1, <3>2 DEF MayStep, AwaitsTask, Inv, Typed
    <3> QED
      BY <3>1, <3>2
  <2>4. pc[u] = "AwaitTask"
    <3>1. pc[u] \in Inside
      BY <2>3 DEF Inv, Exclusive
    <3> QED
      BY <3>1 DEF MayStep, Inside, FsmPc
  <2>5. pc[Sched] = "Lock"
    BY <2>2, <2>4 DEF AwaitsTask
  <2> QED
    BY <2>1, <2>3, <2>4, <2>5 DEF Circle
<1> QED
  BY <1>1, <1>2, NextPosted, Invariant, PTL DEF Spec

(* The circle takes a synchronization, whose task calls the machine, and   *)
(* a handler that sets the power of all screens.                           *)
AuthReason ==
  { "PRE_BRIGHT_AUTH_SUCCESS", "PRE_BRIGHT_AUTH_FAIL_SCREEN_ON",
    "PRE_BRIGHT_AUTH_FAIL_SCREEN_OFF" }

NoSyncTask == \A i \in 1 .. Len(queue) : queue[i].do = "ToTransition"

NoForAllCall ==
  \A t \in Handlers :
    /\ job[t].event \notin ForAllEvent /\ job[t].then # "AodRetry"
    /\ pc[t] \notin { "AwaitTask", "AodRetry" }

(* What a step does to the queue.                                          *)
LEMMA QueueSteps ==
  ASSUME Inv, [Next]_vars, Syncs = {}
  PROVE  \/ queue' = queue
         \/ queue # <<>> /\ queue' = Tail(queue)
         \/ \E task : task.do = "ToTransition" /\ queue' = Append(queue, task)
<1> DEFINE Shape ==
      \/ queue' = queue
      \/ queue # <<>> /\ queue' = Tail(queue)
      \/ \E task : task.do = "ToTransition" /\ queue' = Append(queue, task)
<1>0. ASSUME NEW t, NEW from, NEW done, NEW await, NEW status, NEW apAod,
             SetScreenPower(t, from, done, await, status, apAod)
      PROVE  Shape
  BY <1>0, PostsOrNot
<1>1. CASE PowerCall
  <2>1. ASSUME NEW state, NEW reason, SetScreenPowerForAll(state, reason) PROVE Shape
    <3>1. \/ queue' = queue
          \/ \E status : SetScreenPower(Power, "Idle", "Idle", "AwaitDone", status, FALSE)
      BY <2>1 DEF SetScreenPowerForAll, callOnly
    <3> QED
      BY <1>0, <3>1
  <2>2. ASSUME NEW reason, WakeUpBegin(reason) \/ SuspendBegin(reason) PROVE queue' = queue
    BY <2>2 DEF WakeUpBegin, SuspendBegin, callOnly
  <2>3. CASE SyncScreenPowerState
    BY <2>3 DEF SyncScreenPowerState, callOnly
  <2>4. ASSUME NEW state, SetDisplayState(state) PROVE queue' = queue
    BY <2>4 DEF SetDisplayState, callOnly
  <2> QED
    BY <1>1, <2>1, <2>2, <2>3, <2>4 DEF PowerCall
<1>2. CASE OtherCall
  <2>1. ASSUME NEW t, NEW answer, NotifyAodOpCompletion(t, answer) PROVE queue' = queue
    BY <2>1 DEF NotifyAodOpCompletion, callOnly
  <2>2. ASSUME NEW t, NEW state, SetPowerStateForAod(t, state) PROVE queue' = queue
    BY <2>2 DEF SetPowerStateForAod, callOnly
  <2>3. ASSUME NEW t, FoldScreenSetPower(t) PROVE queue' = queue
    BY <2>3 DEF FoldScreenSetPower, callOnly
  <2> QED
    BY <1>2, <2>1, <2>2, <2>3 DEF OtherCall
<1>3. ASSUME NEW t \in Handlers, FsmStep(t) PROVE Shape
  <2>1. CASE Action(t)
    <3>1. CASE ActSetScreenPowerForAll(t)
      <4>1. \E status, apAod :
              SetScreenPower(t, "Action", AfterAction(t), "AwaitTask", status, apAod)
        BY <3>1 DEF ActSetScreenPowerForAll
      <4> QED
        BY <1>0, <4>1
    <3> QED
      BY <2>1, <3>1 DEF Action, ActNeutral, ActSetDisplayState, ActSetScreenPower
  <2> QED
    BY <1>3, <2>1 DEF FsmStep, Lock, StopFrom, StartTargetTimer, Check, TransferState,
         Reset, StopTarget
<1>4. ASSUME NEW t \in Handlers, CallStep(t), ~FsmStep(t) PROVE Shape
  <2>1. CASE CheckStatus \/ ReadFlag \/ ReadFailure
    BY <2>1 DEF CheckStatus, ReadFlag, ReadFailure, callOnly
  <2>2. CASE SetFlag(t) \/ AodRetry(t)
    BY <2>2 DEF SetFlag, AodRetry, callOnly
  <2>3. CASE SchedToTransition
    BY <2>3 DEF SchedToTransition
  <2>4. CASE SchedSetRS
    BY <2>4 DEF SchedSetRS, callOnly
  <2>5. CASE SchedSetRSDone
    BY <2>5 DEF SchedSetRSDone, Inv, Waiting
  <2> QED
    BY <1>4, <2>1, <2>2, <2>3, <2>4, <2>5 DEF CallStep, SchedStep
<1>5. ASSUME NEW s \in TimedState, TimerStep(s) PROVE queue' = queue
  BY <1>5 DEF TimerStep, TaskStart, TaskTimeout, TaskCancelled, TimeoutCallbackDone,
       timerOnly
<1>6. CASE UNCHANGED vars
  BY <1>6 DEF vars
<1> QED
  BY <1>1, <1>2, <1>3, <1>4, <1>5, <1>6 DEF Next

LEMMA NextNoSyncTask ==
  ASSUME Syncs = {}, Inv, NoSyncTask, [Next]_vars
  PROVE  NoSyncTask'
<1>1. CASE queue' = queue
  BY <1>1 DEF NoSyncTask
<1>2. CASE queue # <<>> /\ queue' = Tail(queue)
  <2>1. /\ Len(queue') = Len(queue) - 1 /\ Len(queue) \in Nat
        /\ \A i \in 1 .. Len(queue') : queue'[i] = queue[i + 1]
    BY <1>2, HeadTailProperties DEF Inv, Typed
  <2> QED
    BY <2>1 DEF NoSyncTask
<1>3. ASSUME NEW task, task.do = "ToTransition", queue' = Append(queue, task)
      PROVE  NoSyncTask'
  <2>1. /\ Len(queue') = Len(queue) + 1 /\ queue'[Len(queue) + 1] = task
        /\ \A i \in 1 .. Len(queue) : queue'[i] = queue[i]
        /\ Len(queue) \in Nat
    BY <1>3 DEF Inv, Typed
  <2> QED
    BY <1>3, <2>1 DEF NoSyncTask
<1> QED
  BY <1>1, <1>2, <1>3, QueueSteps

(* A call of the machine begins with another event.                        *)
LEMMA HandleNoForAll ==
  ASSUME Inv, NoForAllCall, NEW t \in Handlers, NEW from, NEW event, NEW info,
         NEW arg, NEW apAod, NEW then, event \notin ForAllEvent, then # "AodRetry",
         Handle(t, from, event, info, arg, apAod, then)
  PROVE  NoForAllCall'
<1>1. /\ pc'[t] = "Lock"
      /\ \A u \in Handlers : u # t => pc'[u] = pc[u] /\ job'[u] = job[u]
      /\ job'[t].event = event /\ job'[t].then = then
  BY HandleAt DEF Inv
<1> QED
  BY <1>1 DEF NoForAllCall

(* A thread goes on.                                                       *)
LEMMA GoOnNoForAll ==
  ASSUME Inv, NoForAllCall, NEW t \in Handlers, NEW from, NEW to,
         to # "AwaitTask", to # "AodRetry", Goto(t, from, to),
         \A u \in Handlers :
           \/ job'[u].event = job[u].event /\ job'[u].then = job[u].then
           \/ job'[u] = NoJob
  PROVE  NoForAllCall'
<1>1. NoJob.event \notin ForAllEvent /\ NoJob.then # "AodRetry"
  BY DEF NoJob, ForAllEvent
<1>2. pc'[t] = to /\ \A u \in Handlers : u # t => pc'[u] = pc[u]
  BY GotoAt DEF Inv
<1> QED
  BY <1>1, <1>2 DEF NoForAllCall

LEMMA FsmStepNoForAll ==
  ASSUME Inv, NoForAllCall, NEW t \in Handlers, FsmStep(t)
  PROVE  NoForAllCall'
<1>1. job[t].then # "AwaitTask" /\ job[t].then # "AodRetry"
  BY DEF Inv, Typed, Job, CallPc, NoForAllCall
<1>2. AfterAction(t) # "AwaitTask" /\ AfterAction(t) # "AodRetry"
  BY DEF AfterAction
<1>3. Moves(t) /\ JobKept(t)
  BY FsmStepMoves DEF Inv
<1>4. \A u \in Handlers :
        \/ job'[u].event = job[u].event /\ job'[u].then = job[u].then
        \/ job'[u] = NoJob
  BY <1>3 DEF JobKept
<1>5. ~ActSetScreenPowerForAll(t)
  <2> SUFFICES ASSUME ActSetScreenPowerForAll(t) PROVE FALSE
    OBVIOUS
  <2>1. job[t].row \in Transitions /\ job[t].row.event = job[t].event
    BY DEF ActSetScreenPowerForAll, SetScreenPower, Goto, Inv, JobsFit, Inside, FsmPc
  <2> QED
    BY <2>1, TableFacts DEF ActSetScreenPowerForAll, Row, NoForAllCall
<1>6. ASSUME NEW from, NEW to, Goto(t, from, to),
             to \in { "StopFrom", "Action", "Check", "Transfer", "Reset", "StopTarget" }
      PROVE  NoForAllCall'
  <2>1. to # "AwaitTask" /\ to # "AodRetry"
    BY <1>6
  <2> QED
    BY <1>4, <1>6, <2>1, GoOnNoForAll
<1>7. ASSUME NEW from, Goto(t, from, job[t].then) PROVE NoForAllCall'
  BY <1>1, <1>4, <1>7, GoOnNoForAll
<1>8. ASSUME NEW from, Goto(t, from, AfterAction(t)) PROVE NoForAllCall'
  BY <1>2, <1>4, <1>8, GoOnNoForAll
<1> QED
  BY <1>3, <1>5, <1>6, <1>7, <1>8 DEF Moves

LEMMA NextNoForAll ==
  ASSUME AodRequests = {}, Reasons \cap AuthReason = {}, Inv, NoForAllCall,
         [Next]_vars
  PROVE  NoForAllCall'
<1> USE ThreadsAssumption
<1>1. Callers \subseteq Handlers /\ Sched \in Handlers /\ Sched \notin Callers
  BY DEF Handlers
<1>2. Power \in Callers /\ Syncs \cup Aods \cup Folds \subseteq Callers
  BY DEF Callers
<1>3. CASE PowerCall
  <2>1. ASSUME NEW state \in DisplayRequests, SetDisplayState(state)
        PROVE  NoForAllCall'
    <3>1. DisplayStateEvent(state) \notin ForAllEvent
      BY DEF DisplayStateEvent, ForAllEvent
    <3> QED
      BY <1>1, <1>2, <2>1, <3>1, HandleNoForAll DEF SetDisplayState
  <2>2. ASSUME NEW state \in PowerRequests, NEW reason \in Reasons,
               SetScreenPowerForAll(state, reason)
        PROVE  NoForAllCall'
    <3>1. \E status : SetScreenPower(Power, "Idle", "Idle", "AwaitDone", status, FALSE)
      BY <2>2 DEF SetScreenPowerForAll, AuthReason
    <3>2. UNCHANGED job
      BY <2>2 DEF SetScreenPowerForAll, AuthReason
    <3>3. Goto(Power, "Idle", "Idle") \/ Goto(Power, "Idle", "AwaitDone")
      BY <3>1, PostsOrNot
    <3> QED
      BY <1>1, <1>2, <3>2, <3>3, GoOnNoForAll
  <2>3. ASSUME NEW reason \in Reasons, WakeUpBegin(reason) \/ SuspendBegin(reason)
        PROVE  NoForAllCall'
    BY <1>1, <1>2, <2>3, HandleNoForAll DEF WakeUpBegin, SuspendBegin, ForAllEvent
  <2>4. CASE SyncScreenPowerState
    BY <1>1, <1>2, <2>4, HandleNoForAll DEF SyncScreenPowerState, ForAllEvent
  <2> QED
    BY <1>3, <2>1, <2>2, <2>3, <2>4 DEF PowerCall
<1>4. CASE OtherCall
  <2>1. ASSUME NEW t \in Syncs, NEW state, SynchronizePowerStatus(t, state)
        PROVE  NoForAllCall'
    BY <1>1, <1>2, <2>1, GoOnNoForAll DEF SynchronizePowerStatus
  <2>2. ASSUME NEW t \in Aods, NEW answer, NotifyAodOpCompletion(t, answer)
        PROVE  NoForAllCall'
    <3>1. AodEvent(answer) \notin ForAllEvent
      BY DEF AodEvent, ForAllEvent
    <3>2. CASE Goto(t, "Idle", "SetFlag") /\ job' = [job EXCEPT ![t].arg = answer]
      <4>1. \A u \in Handlers :
              job'[u].event = job[u].event /\ job'[u].then = job[u].then
        BY <3>2 DEF Inv, Typed, Job
      <4> QED
        BY <1>1, <1>2, <3>2, <4>1, GoOnNoForAll
    <3>3. CASE Handle(t, "Idle", AodEvent(answer), "monostate", "UNKNOWN", FALSE, "Idle")
      BY <1>1, <1>2, <3>1, <3>3, HandleNoForAll
    <3> QED
      BY <2>2, <3>2, <3>3 DEF NotifyAodOpCompletion
  <2>3. ASSUME NEW t \in Folds, FoldScreenSetPower(t) PROVE NoForAllCall'
    BY <1>1, <1>2, <2>3, HandleNoForAll DEF FoldScreenSetPower, ForAllEvent
  <2> QED
    BY <1>4, <2>1, <2>2, <2>3 DEF OtherCall
<1>5. ASSUME NEW t \in Handlers, CallStep(t), ~FsmStep(t) PROVE NoForAllCall'
  <2>1. ASSUME NEW u \in Handlers, NEW from, Return(u, from) PROVE NoForAllCall'
    <3>1. \A v \in Handlers : job'[v] = job[v] \/ job'[v] = NoJob
      BY <2>1, ReturnAt DEF Inv
    <3>2. Goto(u, from, "Idle")
      BY <2>1 DEF Return
    <3> QED
      BY <3>1, <3>2, GoOnNoForAll
  <2>2. CASE CheckStatus \/ ReadFlag \/ ReadFailure
    <3>1. \/ Return(Power, "CheckStatus") \/ Return(Power, "ReadFailure")
          \/ Goto(Power, "ReadFlag", "ReadFailure") /\ UNCHANGED job
          \/ \E event, arg : /\ event \notin ForAllEvent
                            /\ Handle(Power, "CheckStatus", event, "DisplayState", arg,
                                      FALSE, "ReadFlag")
          \/ \E from, event, arg : /\ event \notin ForAllEvent
                                  /\ Handle(Power, from, event, "DisplayState",
                                            arg, FALSE, "Idle")
      BY <2>2 DEF CheckStatus, ReadFlag, ReadFailure, ForAllEvent
    <3>2. ASSUME NEW from, NEW event, NEW arg, NEW then, then # "AodRetry",
                 event \notin ForAllEvent,
                 Handle(Power, from, event, "DisplayState", arg, FALSE, then)
          PROVE  NoForAllCall'
      BY <1>1, <1>2, <3>2, HandleNoForAll
    <3>3. CASE Goto(Power, "ReadFlag", "ReadFailure") /\ UNCHANGED job
      BY <1>1, <1>2, <3>3, GoOnNoForAll
    <3> QED
      BY <1>1, <1>2, <2>1, <3>1, <3>2, <3>3
  <2>3. CASE t \in Aods /\ SetFlag(t)
    BY <2>1, <2>3 DEF SetFlag
  <2>4. ~(t \in Aods /\ AodRetry(t))
    BY DEF AodRetry, Return, Handle, Goto, NoForAllCall
  <2>5. CASE SchedToTransition
    <3>1. Head(queue).by \in Handlers
      BY <1>1, <2>5, HeadTailProperties, TaskFacts DEF SchedToTransition, Inv, Typed
    <3>2. Resume(Head(queue).by) = "Idle"
      BY <3>1 DEF Resume, NoForAllCall
    <3>3. pc' = [pc EXCEPT ![Head(queue).by] = "Idle"] /\ UNCHANGED job
      BY <2>5, <3>2 DEF SchedToTransition
    <3> QED
      BY <3>1, <3>3 DEF NoForAllCall, Inv, Typed
  <2>6. CASE SchedSetRS
    <3>1. ConvertScreenStateEvent(Head(queue).status) \notin ForAllEvent
      BY DEF ConvertScreenStateEvent, ForAllEvent
    <3>2. PICK event, arg : /\ event \notin ForAllEvent
                           /\ Handle(Sched, "Idle", event, "Screen", arg, FALSE, "AwaitDone")
      BY <2>6, <3>1 DEF SchedSetRS
    <3> QED
      BY <1>1, <3>2, HandleNoForAll
  <2>7. CASE SchedSetRSDone
    <3>1. \A u \in Handlers : pc'[u] = pc[u] \/ pc'[u] = "Idle"
      BY <2>7 DEF SchedSetRSDone, Inv, Typed
    <3>2. \A u \in Handlers : job'[u] = job[u] \/ job'[u] = NoJob
      BY <2>7 DEF SchedSetRSDone, Inv, Typed
    <3> QED
      BY <3>1, <3>2 DEF NoForAllCall, NoJob, ForAllEvent
  <2> QED
    BY <1>5, <2>2, <2>3, <2>4, <2>5, <2>6, <2>7 DEF CallStep, SchedStep
<1>6. ASSUME NEW s \in TimedState, TimerStep(s) PROVE UNCHANGED <<pc, job>>
  BY <1>6 DEF TimerStep, TaskStart, TaskTimeout, TaskCancelled, TimeoutCallbackDone,
       timerOnly
<1>7. CASE UNCHANGED <<pc, job>>
  BY <1>7 DEF NoForAllCall
<1> QED
  BY <1>3, <1>4, <1>5, <1>6, <1>7, FsmStepNoForAll DEF Next, vars

(* Without synchronizations, or without always-on displays that set the    *)
(* power state and pre-bright authentications, there is no circle: then    *)
(* somebody goes on as long as a call is in progress.                      *)
THEOREM NoCircle ==
  ASSUME Syncs = {} \/ (AodRequests = {} /\ Reasons \cap AuthReason = {})
  PROVE  Spec => []~Circle
<1>1. CASE Syncs = {}
  <2>1. Init => NoSyncTask
    BY DEF Init, NoSyncTask
  <2>2. Inv /\ NoSyncTask /\ [Next]_vars => NoSyncTask'
    BY <1>1, NextNoSyncTask
  <2>3. Inv /\ NoSyncTask => ~Circle
    <3> SUFFICES ASSUME Inv, NoSyncTask, Circle PROVE FALSE
      OBVIOUS
    <3>1. queue # <<>> /\ Head(queue).do = "SetRS"
      BY DEF Circle, Inv, Waiting
    <3>2. 1 \in 1 .. Len(queue) /\ Head(queue) = queue[1]
      BY <3>1, HeadTailProperties DEF Inv, Typed
    <3> QED
      BY <3>1, <3>2 DEF NoSyncTask
  <2> QED
    BY <2>1, <2>2, <2>3, Invariant, PTL DEF Spec
<1>2. CASE AodRequests = {} /\ Reasons \cap AuthReason = {}
  <2>1. Init => NoForAllCall
    BY DEF Init, NoForAllCall, NoJob, ForAllEvent
  <2>2. Inv /\ NoForAllCall /\ [Next]_vars => NoForAllCall'
    BY <1>2, NextNoForAll
  <2>3. NoForAllCall => ~Circle
    BY DEF Circle, NoForAllCall, Handlers
  <2> QED
    BY <2>1, <2>2, <2>3, Invariant, PTL DEF Spec
<1> QED
  BY <1>1, <1>2
-----------------------------------------------------------------------------
(* Nobody goes round in circles.  The places of a call, by the number of   *)
(* steps that may still follow; a handler's are followed by its caller's.  *)
Rank == [p \in FsmPc \cup CallPc |->
  CASE p = "CheckStatus" -> 21 [] p = "ReadFlag" -> 11
    [] p \in { "ReadFailure", "AodRetry" } -> 10 [] p = "Lock" -> 9 [] p = "StopFrom" -> 8
    [] p = "Action" -> 7 [] p = "AwaitTask" -> 6 [] p = "StartTimer" -> 5
    [] p = "Check" -> 4 [] p = "Transfer" -> 3 [] p = "Reset" -> 2
    [] p = "Idle" -> 0 [] OTHER -> 1]

StepsLeft(t) == Rank[pc[t]] + IF pc[t] \in FsmPc THEN Rank[job[t].then] ELSE 0

CallAdvances(t) ==
  pc[t] # "Idle" =>
    IF pc'[t] = pc[t] THEN StepsLeft(t)' = StepsLeft(t) ELSE StepsLeft(t)' < StepsLeft(t)

CallsAdvance == \A t \in Handlers : CallAdvances(t)

LEMMA Ranks ==
  /\ Rank["Lock"] = 9 /\ Rank["StopFrom"] = 8 /\ Rank["Action"] = 7
  /\ Rank["AwaitTask"] = 6 /\ Rank["StartTimer"] = 5 /\ Rank["Check"] = 4
  /\ Rank["Transfer"] = 3 /\ Rank["Reset"] = 2 /\ Rank["StopTarget"] = 1
  /\ Rank["CheckStatus"] = 21 /\ Rank["ReadFlag"] = 11
  /\ Rank["ReadFailure"] = 10 /\ Rank["AodRetry"] = 10
  /\ Rank["SetFlag"] = 1 /\ Rank["AwaitDone"] = 1 /\ Rank["Idle"] = 0
BY DEF Rank, FsmPc, CallPc

LEMMA RanksAreNumbers == \A p \in FsmPc \cup CallPc : Rank[p] \in 0 .. 21
BY Ranks DEF FsmPc, CallPc

(* A step of t leaves the others where they are.                           *)
LEMMA OneAdvances ==
  ASSUME Typed, NEW t \in Handlers, CallAdvances(t),
         \A u \in Handlers : u # t => pc'[u] = pc[u] /\ job'[u] = job[u]
  PROVE  CallsAdvance
BY DEF CallsAdvance, CallAdvances, StepsLeft

LEMMA HandleAdvances ==
  ASSUME Typed, NEW t \in Handlers, NEW from, NEW event, NEW info, NEW arg, NEW apAod,
         NEW then, Handle(t, from, event, info, arg, apAod, then),
         \/ from = "Idle"
         \/ from = "CheckStatus" /\ then = "ReadFlag"
         \/ from \in { "ReadFlag", "ReadFailure", "AodRetry" } /\ then = "Idle"
  PROVE  CallsAdvance
<1>1. /\ pc[t] = from /\ pc'[t] = "Lock" /\ job'[t].then = then
      /\ \A u \in Handlers : u # t => pc'[u] = pc[u] /\ job'[u] = job[u]
  BY DEF Handle, Goto, Typed
<1>2. CallAdvances(t)
  <2>1. CASE from = "Idle"
    BY <1>1, <2>1 DEF CallAdvances
  <2>2. CASE from = "CheckStatus"
    <3>1. StepsLeft(t) = 21 /\ StepsLeft(t)' = 20
      BY <1>1, <2>2, Ranks DEF StepsLeft, FsmPc
    <3> QED
      BY <1>1, <2>2, <3>1 DEF CallAdvances
  <2>3. CASE from \in { "ReadFlag", "ReadFailure", "AodRetry" }
    <3>1. StepsLeft(t) \in { 10, 11 } /\ StepsLeft(t)' = 9
      BY <1>1, <2>3, Ranks DEF StepsLeft, FsmPc
    <3> QED
      BY <1>1, <2>3, <3>1 DEF CallAdvances
  <2> QED
    BY <2>1, <2>2, <2>3
<1> QED
  BY <1>1, <1>2, OneAdvances

LEMMA ReturnAdvances ==
  ASSUME Typed, NEW t \in Handlers, NEW from \in CallPc, from # "Idle", Return(t, from)
  PROVE  CallsAdvance
<1>1. /\ pc[t] = from /\ pc'[t] = "Idle"
      /\ \A u \in Handlers : u # t => pc'[u] = pc[u] /\ job'[u] = job[u]
  BY DEF Return, Goto, Typed
<1>2. StepsLeft(t) > 0 /\ StepsLeft(t)' = 0
  BY <1>1, Ranks DEF StepsLeft, CallPc, FsmPc
<1> QED
  BY <1>1, <1>2, OneAdvances DEF CallAdvances

(* A step in the machine goes on in the machine, or back to the caller.    *)
LEMMA FsmStepGoes ==
  ASSUME Typed, NEW t \in Handlers, FsmStep(t)
  PROVE  /\ \A u \in Handlers : u # t => pc'[u] = pc[u] /\ job'[u] = job[u]
         /\ job'[t].then = job[t].then
         /\ pc[t] \in FsmPc
         /\ \/ pc'[t] \in FsmPc /\ Rank[pc'[t]] < Rank[pc[t]]
            \/ pc'[t] = job[t].then
<1> DEFINE Goes == /\ pc[t] \in FsmPc
                   /\ \/ pc'[t] \in FsmPc /\ Rank[pc'[t]] < Rank[pc[t]]
                      \/ pc'[t] = job[t].then
<1>1. Moves(t) /\ JobKept(t)
  BY FsmStepMoves
<1>2. ASSUME NEW from \in FsmPc, NEW to \in FsmPc, Rank[to] < Rank[from],
             Goto(t, from, to)
      PROVE  Goes
  BY <1>2, GotoAt
<1>3. ASSUME NEW from \in FsmPc, Goto(t, from, job[t].then) PROVE Goes
  <2>1. pc[t] = from /\ pc'[t] = job[t].then
    BY <1>3 DEF Goto, Typed
  <2> QED
    BY <2>1
<1>4. /\ { "Lock", "StopFrom", "Action", "AwaitTask", "StartTimer", "Check", "Transfer",
            "Reset", "StopTarget" } \subseteq FsmPc
      /\ Rank["StopFrom"] < Rank["Lock"] /\ Rank["Action"] < Rank["StopFrom"]
      /\ Rank["AwaitTask"] < Rank["Action"] /\ Rank["StartTimer"] < Rank["Action"]
      /\ Rank["Check"] < Rank["Action"] /\ Rank["Check"] < Rank["StartTimer"]
      /\ Rank["Transfer"] < Rank["Check"] /\ Rank["Reset"] < Rank["Check"]
      /\ Rank["Reset"] < Rank["Transfer"] /\ Rank["StopTarget"] < Rank["Reset"]
  BY Ranks DEF FsmPc
<1>5. AfterAction(t) = "Check" \/ AfterAction(t) = "StartTimer"
  BY DEF AfterAction
<1>6. Goes
  <2>1. CASE Goto(t, "Action", "Check") \/ Goto(t, "Action", "StartTimer")
    BY <1>2, <1>4, <2>1
  <2>2. CASE Goto(t, "Lock", job[t].then) \/ Goto(t, "Reset", job[t].then)
               \/ Goto(t, "StopTarget", job[t].then)
    BY <1>3, <1>4, <2>2
  <2>3. CASE Goto(t, "Lock", "StopFrom") \/ Goto(t, "StopFrom", "Action")
               \/ Goto(t, "Action", "AwaitTask") \/ Goto(t, "StartTimer", "Check")
    BY <1>2, <1>4, <2>3
  <2>4. CASE Goto(t, "Check", "Transfer") \/ Goto(t, "Check", "Reset")
               \/ Goto(t, "Transfer", "Reset") \/ Goto(t, "Reset", "StopTarget")
    BY <1>2, <1>4, <2>4
  <2> HIDE DEF Goes
  <2> QED
    BY <1>1, <1>5, <2>1, <2>2, <2>3, <2>4 DEF Moves
<1>7. \A u \in Handlers : u # t => pc'[u] = pc[u]
  BY <1>1 DEF Moves, Goto, Typed
<1> QED
  BY <1>1, <1>6, <1>7 DEF JobKept

LEMMA FsmStepAdvances ==
  ASSUME Typed, NEW t \in Handlers, FsmStep(t)
  PROVE  CallsAdvance
<1>1. /\ job[t].then \in CallPc /\ job[t].then \notin FsmPc
      /\ Rank[job[t].then] \in Nat
  <2>1. job[t].then \in CallPc
    BY DEF Typed, Job
  <2>2. CallPc \cap FsmPc = {}
    BY DEF CallPc, FsmPc
  <2> QED
    BY <2>1, <2>2, RanksAreNumbers
<1>2. \A p \in FsmPc : Rank[p] \in Nat /\ Rank[p] > 0
  BY Ranks DEF FsmPc
<1>3. StepsLeft(t) = Rank[pc[t]] + Rank[job[t].then]
  BY FsmStepGoes DEF StepsLeft
<1>4. StepsLeft(t)' < StepsLeft(t) /\ pc'[t] # pc[t]
  <2>1. CASE pc'[t] = job[t].then
    <3>1. StepsLeft(t)' = Rank[job[t].then]
      BY <1>1, <2>1 DEF StepsLeft
    <3>2. Rank[pc[t]] \in Nat /\ Rank[pc[t]] > 0 /\ pc'[t] # pc[t]
      BY <1>1, <1>2, <2>1, FsmStepGoes
    <3> QED
      BY <1>1, <1>3, <3>1, <3>2
  <2>2. CASE pc'[t] \in FsmPc /\ Rank[pc'[t]] < Rank[pc[t]]
    <3>1. StepsLeft(t)' = Rank[pc'[t]] + Rank[job[t].then]
      BY <2>2, FsmStepGoes DEF StepsLeft
    <3>2. Rank[pc[t]] \in Nat /\ Rank[pc'[t]] \in Nat
      BY <1>2, <2>2, FsmStepGoes
    <3> QED
      BY <1>1, <1>3, <2>2, <3>1, <3>2
  <2> QED
    BY <2>1, <2>2, FsmStepGoes
<1>5. CallAdvances(t)
  BY <1>4 DEF CallAdvances
<1> QED
  BY <1>5, FsmStepGoes, OneAdvances

(* A task of the scheduler ends the wait of its poster.                    *)
LEMMA SchedStepAdvances ==
  ASSUME Inv, SchedStep
  PROVE  CallsAdvance
<1> USE ThreadsAssumption
<1>0. Typed /\ Sched \in Handlers
  BY DEF Inv, Handlers
<1>1. CASE SchedSetRS
  BY <1>0, <1>1, HandleAdvances DEF SchedSetRS
<1>2. SchedToTransition \/ SchedSetRSDone =>
        \E by \in Callers :
          /\ by = Head(queue).by /\ by \in Handlers /\ by # Sched
          /\ 1 \in 1 .. Len(queue) /\ Head(queue) = queue[1]
  <2>1. pc[Sched] # "Idle" => queue # <<>>
    BY DEF Inv, Waiting
  <2>2. queue # <<>> => /\ Head(queue).by \in Callers
                        /\ 1 \in 1 .. Len(queue) /\ Head(queue) = queue[1]
    BY HeadTailProperties, TaskFacts DEF Inv, Typed
  <2> QED
    BY <2>1, <2>2 DEF SchedToTransition, SchedSetRSDone, Handlers
<1>3. CASE SchedToTransition
  <2>1. PICK by \in Callers :
          /\ by = Head(queue).by /\ by \in Handlers /\ by # Sched
          /\ 1 \in 1 .. Len(queue) /\ Head(queue) = queue[1]
    BY <1>2, <1>3
  <2>2. /\ \A u \in Handlers : u # by => pc'[u] = pc[u]
        /\ pc'[by] = Resume(by) /\ job' = job
    BY <1>0, <1>3, <2>1 DEF SchedToTransition, Typed
  <2>3. pc[by] \in { "AwaitTask", "AwaitDone" }
    BY <1>3, <2>1 DEF Inv, Waiting, SchedToTransition
  <2>4. CASE pc[by] = "AwaitTask"
    <3>1. pc'[by] = "Check" \/ pc'[by] = "StartTimer"
      BY <2>2, <2>4 DEF Resume, AfterAction
    <3>2. Rank[job[by].then] \in Nat
      <4>1. job[by].then \in CallPc
        BY <1>0, <2>1 DEF Typed, Job
      <4> QED
        BY <4>1, RanksAreNumbers
    <3>3. StepsLeft(by) = 6 + Rank[job[by].then]
      BY <2>4, Ranks DEF StepsLeft, FsmPc
    <3>4. pc'[by] = "Check" => StepsLeft(by)' = 4 + Rank[job[by].then]
      BY <2>2, Ranks DEF StepsLeft, FsmPc
    <3>5. pc'[by] = "StartTimer" => StepsLeft(by)' = 5 + Rank[job[by].then]
      BY <2>2, Ranks DEF StepsLeft, FsmPc
    <3>6. StepsLeft(by)' < StepsLeft(by) /\ pc'[by] # pc[by]
      BY <2>4, <3>1, <3>2, <3>3, <3>4, <3>5
    <3>7. CallAdvances(by)
      BY <3>6 DEF CallAdvances
    <3> QED
      BY <1>0, <2>1, <2>2, <3>7, OneAdvances
  <2>5. CASE pc[by] = "AwaitDone"
    <3>1. pc'[by] = "Idle"
      BY <2>2, <2>5 DEF Resume
    <3>2. StepsLeft(by) = 1
      BY <2>5, Ranks DEF StepsLeft, FsmPc
    <3>3. StepsLeft(by)' = 0
      BY <3>1, Ranks DEF StepsLeft, FsmPc
    <3>4. CallAdvances(by)
      BY <2>5, <3>1, <3>2, <3>3 DEF CallAdvances
    <3> QED
      BY <1>0, <2>1, <2>2, <3>4, OneAdvances
  <2> QED
    BY <2>3, <2>4, <2>5
<1>4. CASE SchedSetRSDone
  <2>1. PICK by \in Callers :
          /\ by = Head(queue).by /\ by \in Handlers /\ by # Sched
          /\ 1 \in 1 .. Len(queue) /\ Head(queue) = queue[1]
    BY <1>2, <1>4
  <2>2. /\ \A u \in Handlers : u \notin { by, Sched } => pc'[u] = pc[u] /\ job'[u] = job[u]
        /\ pc'[by] = "Idle" /\ pc'[Sched] = "Idle" /\ pc[Sched] = "AwaitDone"
    BY <1>0, <1>4, <2>1 DEF SchedSetRSDone, Typed
  <2>3. pc[by] = "AwaitDone"
    BY <1>4, <2>1 DEF Inv, Waiting, SchedSetRSDone
  <2>4. \A u \in { by, Sched } : StepsLeft(u) = 1
    BY <2>2, <2>3, Ranks DEF StepsLeft, FsmPc
  <2>5. \A u \in { by, Sched } : StepsLeft(u)' = 0
    BY <2>2, Ranks DEF StepsLeft, FsmPc
  <2>6. \A u \in { by, Sched } : CallAdvances(u)
    BY <2>2, <2>3, <2>4, <2>5 DEF CallAdvances
  <2>7. \A u \in Handlers : u \notin { by, Sched } => CallAdvances(u)
    BY <2>2 DEF CallAdvances, StepsLeft
  <2> QED
    BY <2>6, <2>7 DEF CallsAdvance
<1> QED
  BY <1>1, <1>3, <1>4 DEF SchedStep

LEMMA NextCallsAdvance == Inv /\ [Next]_vars => [CallsAdvance]_vars
<1> SUFFICES ASSUME Inv, Next PROVE CallsAdvance
  OBVIOUS
<1> USE ThreadsAssumption
<1>0. Typed
  BY DEF Inv
<1>1. Callers \subseteq Handlers
  BY DEF Handlers
<1>2. Power \in Callers /\ Syncs \cup Aods \cup Folds \subseteq Callers
  BY DEF Callers
<1>3. ASSUME NEW t \in Handlers, pc[t] = "Idle",
             \A u \in Handlers : u # t => pc'[u] = pc[u] /\ job'[u] = job[u]
      PROVE  CallsAdvance
  BY <1>0, <1>3, OneAdvances DEF CallAdvances
<1>4. CASE PowerCall
  <2>1. ASSUME NEW state, SetDisplayState(state) PROVE CallsAdvance
    BY <1>0, <1>1, <1>2, <2>1, HandleAdvances DEF SetDisplayState
  <2>2. ASSUME NEW state, NEW reason, SetScreenPowerForAll(state, reason)
        PROVE  CallsAdvance
    <3>1. /\ pc[Power] = "Idle"
          /\ \A u \in Handlers : u # Power => pc'[u] = pc[u] /\ job'[u] = job[u]
      BY <1>0, <2>2 DEF SetScreenPowerForAll, SetScreenPower, Handle, Goto, Typed
    <3> QED
      BY <1>1, <1>2, <1>3, <3>1
  <2>3. ASSUME NEW reason, WakeUpBegin(reason) \/ SuspendBegin(reason) PROVE CallsAdvance
    BY <1>0, <1>1, <1>2, <2>3, HandleAdvances DEF WakeUpBegin, SuspendBegin
  <2>4. CASE SyncScreenPowerState
    BY <1>0, <1>1, <1>2, <2>4, HandleAdvances DEF SyncScreenPowerState
  <2> QED
    BY <1>4, <2>1, <2>2, <2>3, <2>4 DEF PowerCall
<1>5. CASE OtherCall
  <2>1. ASSUME NEW t \in Syncs, NEW state, SynchronizePowerStatus(t, state)
        PROVE  CallsAdvance
    <3>1. /\ pc[t] = "Idle"
          /\ \A u \in Handlers : u # t => pc'[u] = pc[u] /\ job'[u] = job[u]
      BY <1>0, <2>1 DEF SynchronizePowerStatus, Goto, Typed
    <3> QED
      BY <1>1, <1>2, <1>3, <3>1
  <2>2. ASSUME NEW t \in Aods, NEW answer, NotifyAodOpCompletion(t, answer)
        PROVE  CallsAdvance
    <3>1. /\ pc[t] = "Idle"
          /\ \A u \in Handlers : u # t => pc'[u] = pc[u] /\ job'[u] = job[u]
      BY <1>0, <2>2 DEF NotifyAodOpCompletion, Handle, Goto, Typed
    <3> QED
      BY <1>1, <1>2, <1>3, <3>1
  <2>3. ASSUME NEW t \in Aods, NEW state, SetPowerStateForAod(t, state)
        PROVE  CallsAdvance
    BY <1>0, <1>1, <1>2, <2>3, HandleAdvances DEF SetPowerStateForAod
  <2>4. ASSUME NEW t \in Folds, FoldScreenSetPower(t) PROVE CallsAdvance
    BY <1>0, <1>1, <1>2, <2>4, HandleAdvances DEF FoldScreenSetPower
  <2> QED
    BY <1>5, <2>1, <2>2, <2>3, <2>4 DEF OtherCall
<1>6. ASSUME NEW t \in Handlers, CallStep(t) PROVE CallsAdvance
  <2>1. CASE FsmStep(t)
    BY <1>0, <2>1, FsmStepAdvances
  <2>2. CASE CheckStatus \/ ReadFlag \/ ReadFailure
    <3>1. ASSUME Goto(Power, "ReadFlag", "ReadFailure"), UNCHANGED job
          PROVE  CallsAdvance
      <4>1. Power \in Handlers
        BY <1>1, <1>2
      <4>2. /\ pc[Power] = "ReadFlag" /\ pc'[Power] = "ReadFailure"
            /\ \A u \in Handlers : u # Power => pc'[u] = pc[u] /\ job'[u] = job[u]
        BY <1>0, <3>1, <4>1 DEF Goto, Typed
      <4>3. StepsLeft(Power) = 11 /\ StepsLeft(Power)' = 10
        BY <4>2, Ranks DEF StepsLeft, FsmPc
      <4>4. CallAdvances(Power)
        BY <4>2, <4>3 DEF CallAdvances
      <4> QED
        BY <1>0, <4>1, <4>2, <4>4, OneAdvances
    <3> QED
      BY <1>0, <1>1, <1>2, <2>2, <3>1, HandleAdvances, ReturnAdvances
      DEF CheckStatus, ReadFlag, ReadFailure, CallPc
  <2>3. CASE t \in Aods /\ (SetFlag(t) \/ AodRetry(t))
    BY <1>0, <2>3, HandleAdvances, ReturnAdvances DEF SetFlag, AodRetry, CallPc
  <2>4. CASE SchedStep
    BY <2>4, SchedStepAdvances
  <2> QED
    BY <1>6, <2>1, <2>2, <2>3, <2>4 DEF CallStep
<1>7. ASSUME NEW s \in TimedState, TimerStep(s) PROVE CallsAdvance
  <2>1. UNCHANGED <<pc, job>>
    BY <1>7 DEF TimerStep, TaskStart, TaskTimeout, TaskCancelled, TimeoutCallbackDone,
         timerOnly
  <2> QED
    BY <2>1 DEF CallsAdvance, CallAdvances, StepsLeft
<1> QED
  BY <1>4, <1>5, <1>6, <1>7 DEF Next

(* Whatever the others do, a call of the machine has its steps before it   *)
(* and never goes back: it takes at most 30 of them, the longest being     *)
(* SetDisplayState with the end of the power callback and the answer of    *)
(* the always-on display, each of which goes through the machine.          *)
THEOREM CallsEndAfterTheirSteps == Spec => [][CallsAdvance]_vars
BY NextCallsAdvance, Invariant, PTL DEF Spec
=============================================================================
