-------------------------- MODULE LifeCycleTaskQueue --------------------------
(***************************************************************************)
(* The life cycle task queue of one session: requests to start and to stop *)
(* its ability run one after the other.  Only the front of the queue runs. *)
(* Its body runs on the scene session manager's thread and asks SceneBoard *)
(* on the JS main thread; when SceneBoard's callback returns, a job that   *)
(* names only the TYPE of the task comes back and takes the front off.     *)
(*                                                                         *)
(* Tasks are numbered in the order they are posted.  A task that has run   *)
(* for longer than LIFE_CYCLE_TASK_EXPIRED_TIME_LIMIT is taken off by the  *)
(* next post, and the destruction of the session empties the queue: the    *)
(* completions of such tasks are still on their way.                       *)
(***************************************************************************)
EXTENDS Naturals, Sequences, FiniteSets, Functions

CONSTANTS
  MaxQueue,       \* MAX_LIFE_CYCLE_TASK_IN_QUEUE
  MaxPosts,       \* bound: tasks ever posted
  MaxVisibility   \* bound: calls of ChangeUIAbilityVisibilityBySCB

ASSUME BoundsAssumption ==
  MaxQueue \in Nat \ {0} /\ MaxPosts \in Nat /\ MaxVisibility \in Nat

VARIABLES
  kind,          \* what each posted task asks for
  queue,         \* lifeCycleTaskQueue_
  running,       \* the tasks whose running flag is set
  starting,      \* set running, lock released, not yet handed to PostTask
  handler,       \* the jobs of the scene session manager's thread
  mainThread,    \* the tasks whose JS callback is posted
  isTerminating, \* Session::isTerminating_
  listening,     \* the terminate and exception listeners are registered
  erased,        \* the session is out of sceneSessionMap_
  visibility,    \* calls of ChangeUIAbilityVisibilityBySCB so far
  begun,         \* history: the tasks whose body has run
  deaf,          \* history: the tasks that found no listener
  takenOff       \* history: how often the queue lost its front otherwise
                 \* than by a completion

vars == <<kind, queue, running, starting, handler, mainThread, isTerminating,
          listening, erased, visibility, begun, deaf, takenOff>>

Kinds == { "PendingSessionActivation", "TerminateSession", "TerminateSessionNew",
           "NotifySessionException" }
Type(t) == IF kind[t] = "PendingSessionActivation" THEN "START" ELSE "STOP"
Posted == 1 .. Len(kind)

Run(t) == [ do |-> "Run", task |-> t ]
Remove(t) == [ do |-> "Remove", task |-> t ]

(* The tasks that have been started and whose completion is still to come. *)
InFlight == starting \cup { j.task : j \in Range(handler) } \cup Range(mainThread)

Init ==
  /\ kind = <<>> /\ queue = <<>> /\ handler = <<>> /\ mainThread = <<>>
  /\ running = {} /\ starting = {} /\ begun = {} /\ deaf = {}
  /\ isTerminating = FALSE /\ listening = FALSE /\ erased = FALSE
  /\ visibility = 0 /\ takenOff = 0
-----------------------------------------------------------------------------
(* PostLifeCycleTask, its critical section.  Time is not modelled: the     *)
(* front, which is running, may have run for longer than the limit at any  *)
(* post.  The front that remains is started when it is not running         *)
(* already: a new one alone in the queue, or the next after an expired one. *)
WithoutExpired(expired) == IF expired THEN Tail(queue) ELSE queue

(* Mutant: the started task is the new one, whatever is at the front.      *)
ToStartNew(q) == { q[Len(q)] } \ running

(* Mutant: the running flag of the front is not looked at.                 *)
ToStartAgain(q) == { Head(q) }

(* Mutant: only a task that finds the queue empty is started.              *)
ToStartAlone(q) == IF queue = <<>> THEN { Head(q) } ELSE {}

(* Mutant: the size is compared after the new task is in.                  *)
FullTooLate(expired) == Len(WithoutExpired(expired)) > MaxQueue

Full(expired) == Len(WithoutExpired(expired)) = MaxQueue

(* The task a post starts, of the queue it leaves.                         *)
ToStart(q) == { Head(q) } \ running

Enqueue(k, expired) ==
  LET new == Len(kind) + 1
      q == Append(WithoutExpired(expired), new)
  IN /\ new <= MaxPosts
     /\ expired => queue # <<>>
     /\ kind' = Append(kind, k)
     /\ takenOff' = IF expired THEN takenOff + 1 ELSE takenOff
     /\ IF Full(expired)
          THEN queue' = WithoutExpired(expired) /\ UNCHANGED running
          ELSE queue' = q /\ running' = running \cup ToStart(q)

(* On a thread of its own (a client's call, the JS main thread) the front  *)
(* is handed over after the lock is released.                              *)
PostLifeCycleTask(k, expired) ==
  /\ Enqueue(k, expired)
  /\ starting' = IF Full(expired) THEN starting ELSE starting \cup ToStart(queue')
  /\ UNCHANGED <<handler, mainThread, isTerminating, listening, erased,
                 visibility, begun, deaf>>

(* On the manager's own thread PostTask runs the task at once, before the  *)
(* jobs that wait.  SceneSession::TerminateSession is only ever a client's *)
(* call.                                                                   *)
RunAtOnce(tasks, jobs) ==
  IF tasks = {} THEN jobs ELSE <<Run(CHOOSE t \in tasks : TRUE)>> \o jobs

PostFromHandler(k, expired) ==
  /\ k # "TerminateSession"
  /\ Enqueue(k, expired)
  /\ handler' = IF Full(expired) THEN handler ELSE RunAtOnce(ToStart(queue'), handler)
  /\ UNCHANGED <<starting, mainThread, isTerminating, listening, erased,
                 visibility, begun, deaf>>

(* The PostTask after the critical section.                                *)
HandOver(t) ==
  /\ t \in starting
  /\ starting' = starting \ {t}
  /\ handler' = Append(handler, Run(t))
  /\ UNCHANGED <<kind, queue, running, mainThread, isTerminating, listening,
                 erased, visibility, begun, deaf, takenOff>>
-----------------------------------------------------------------------------
(* RemoveLifeCycleTask(type): the front goes if it is of that type,        *)
(* whichever task it is, and the next one starts.                          *)
Matches(type) == queue # <<>> /\ Type(Head(queue)) = type

(* The task that is next when the front goes.                              *)
Successor(type) == IF Matches(type) /\ Len(queue) > 1 THEN { queue[2] } ELSE {}

(* Mutant: the next task is not marked running.                            *)
RemoveFrontUnmarked(type) ==
  /\ queue' = IF Matches(type) THEN Tail(queue) ELSE queue
  /\ UNCHANGED running

RemoveFront(type) ==
  /\ queue' = IF Matches(type) THEN Tail(queue) ELSE queue
  /\ running' = running \cup Successor(type)

RemoveLifeCycleTask(type, jobs) ==
  /\ RemoveFront(type)
  /\ handler' = RunAtOnce(Successor(type), jobs)

(* The manager looks the session up, and does nothing once it is gone.     *)
RemoveById(t) ==
  IF erased
    THEN handler' = Tail(handler) /\ UNCHANGED <<queue, running>>
    ELSE RemoveLifeCycleTask(Type(t), Tail(handler))

(* RemoveLifeCycleTaskByPersistentId, posted when a JS callback returns.   *)
RemoveLifeCycleTaskByPersistentId ==
  /\ handler # <<>> /\ Head(handler).do = "Remove"
  /\ RemoveById(Head(handler).task)
  /\ UNCHANGED <<kind, starting, mainThread, isTerminating, listening, erased,
                 visibility, begun, deaf, takenOff>>

(* ChangeUIAbilityVisibilityBySCB: SceneBoard shows or hides the ability   *)
(* from its own thread, and that ends a START as well.                     *)
ChangeUIAbilityVisibilityBySCB ==
  /\ visibility < MaxVisibility
  /\ visibility' = visibility + 1
  /\ RemoveFront("START")
  /\ starting' = starting \cup Successor("START")
  /\ takenOff' = IF Matches("START") THEN takenOff + 1 ELSE takenOff
  /\ UNCHANGED <<kind, handler, mainThread, isTerminating, listening, erased,
                 begun, deaf>>
-----------------------------------------------------------------------------
(* The bodies.  t asks SceneBoard if somebody listens; when the JS session *)
(* that should pass it on is destroyed already, t ends in its place.       *)
Ask(t) ==
  \/ /\ handler' = Tail(handler)
     /\ IF listening \/ Type(t) = "START"
          THEN mainThread' = Append(mainThread, t) /\ UNCHANGED deaf
          ELSE deaf' = deaf \cup {t} /\ UNCHANGED mainThread
     /\ UNCHANGED <<queue, running>>
  \/ RemoveById(t) /\ UNCHANGED <<mainThread, deaf>>

(* Mutant: the early return forgets RemoveLifeCycleTask.                   *)
EndWithoutRemoving(t) ==
  /\ handler' = Tail(handler)
  /\ UNCHANGED <<queue, running, mainThread, isTerminating, deaf>>

(* t ends where it is, before it asks anybody.                             *)
EndAtOnce(t) ==
  /\ RemoveLifeCycleTask(Type(t), Tail(handler))
  /\ UNCHANGED <<mainThread, isTerminating, deaf>>

Begin(t) ==
  /\ handler # <<>> /\ Head(handler) = Run(t)
  /\ begun' = begun \cup {t}
  /\ UNCHANGED <<kind, starting, listening, erased, visibility, takenOff>>

PendingSessionActivation(t) ==
  /\ Begin(t) /\ kind[t] = "PendingSessionActivation"
  /\ Ask(t)
  /\ UNCHANGED isTerminating

(* SceneSession::TerminateSession: not a second time, and not without the  *)
(* ability's session info.  (TerminateSessionTotal, which sets the flag    *)
(* outside the queue, is called by tests alone.)                           *)
TerminateSession(t) ==
  /\ Begin(t) /\ kind[t] = "TerminateSession"
  /\ \/ EndAtOnce(t)
     \/ ~isTerminating /\ isTerminating' = TRUE /\ Ask(t)

(* Session::TerminateSessionNew and Session::Clear: whatever is under way. *)
TerminateSessionNew(t) ==
  /\ Begin(t) /\ kind[t] = "TerminateSessionNew"
  /\ isTerminating' = TRUE
  /\ Ask(t)

(* NotifySessionExceptionInner: unless the info is missing, or a client    *)
(* sent it whose identity token is not the session's.                      *)
NotifySessionException(t) ==
  /\ Begin(t) /\ kind[t] = "NotifySessionException"
  /\ \/ EndAtOnce(t)
     \/ isTerminating' = TRUE /\ Ask(t)

(* The JS callback, or any of the returns before it.                       *)
JsCallback ==
  /\ mainThread # <<>>
  /\ mainThread' = Tail(mainThread)
  /\ handler' = Append(handler, Remove(Head(mainThread)))
  /\ UNCHANGED <<kind, queue, running, starting, isTerminating, listening, erased,
                 visibility, begun, deaf, takenOff>>
-----------------------------------------------------------------------------
(* SetTerminateSessionListener and its like, once SceneBoard has a JS      *)
(* session.                                                                *)
SetListeners ==
  /\ ~listening
  /\ listening' = TRUE
  /\ UNCHANGED <<kind, queue, running, starting, handler, mainThread, isTerminating,
                 erased, visibility, begun, deaf, takenOff>>

(* Session::Foreground, or DisconnectTask of a session that stays.         *)
ResetTerminating ==
  /\ isTerminating
  /\ isTerminating' = FALSE
  /\ UNCHANGED <<kind, queue, running, starting, handler, mainThread, listening,
                 erased, visibility, begun, deaf, takenOff>>

(* EraseSceneSessionMapById at the end of a destruction; the session       *)
(* object lives on in whoever holds a reference.                           *)
EraseSceneSessionMapById ==
  /\ ~erased
  /\ erased' = TRUE
  /\ isTerminating' = FALSE
  /\ queue' = <<>>
  /\ takenOff' = IF queue = <<>> THEN takenOff ELSE takenOff + 1
  /\ UNCHANGED <<kind, running, starting, handler, mainThread, listening,
                 visibility, begun, deaf>>

HandlerStep ==
  \/ RemoveLifeCycleTaskByPersistentId
  \/ \E t \in Posted :
       \/ PendingSessionActivation(t)
       \/ TerminateSession(t)
       \/ TerminateSessionNew(t)
       \/ NotifySessionException(t)

Environment ==
  \/ \E k \in Kinds, expired \in BOOLEAN :
       PostLifeCycleTask(k, expired) \/ PostFromHandler(k, expired)
  \/ ChangeUIAbilityVisibilityBySCB
  \/ SetListeners \/ ResetTerminating \/ EraseSceneSessionMapById

Next == HandlerStep \/ JsCallback \/ (\E t \in Posted : HandOver(t)) \/ Environment

Spec == Init /\ [][Next]_vars

(* The two threads take their jobs in turn and a thread between its lock   *)
(* and its PostTask goes on.  Nobody has to post, expire or erase.         *)
FairSpec ==
  /\ Spec
  /\ WF_vars(HandlerStep) /\ WF_vars(JsCallback)
  /\ WF_vars(\E t \in Posted : HandOver(t))
-----------------------------------------------------------------------------
Jobs == { Run(t) : t \in Posted } \cup { Remove(t) : t \in Posted }

(* Every variable holds what its C++ member can hold, and the queue never  *)
(* outgrows MAX_LIFE_CYCLE_TASK_IN_QUEUE.                                  *)
TypeOK ==
  /\ kind \in Seq(Kinds) /\ Len(kind) <= MaxPosts
  /\ queue \in Seq(Posted) /\ Len(queue) <= MaxQueue
  /\ handler \in Seq(Jobs)
  /\ mainThread \in Seq(Posted)
  /\ running \subseteq Posted /\ starting \subseteq Posted
  /\ begun \subseteq Posted /\ deaf \subseteq Posted
  /\ isTerminating \in BOOLEAN /\ listening \in BOOLEAN /\ erased \in BOOLEAN
  /\ visibility \in 0 .. MaxVisibility /\ takenOff \in Nat

(* Of the queued tasks the front runs and no other, whatever expired, was  *)
(* cleared or was ended in another's place: RemoveLifeCycleTask hands the  *)
(* next task to PostTask without looking whether it runs already.          *)
OnlyFrontRuns ==
  \A i \in 1 .. Len(queue) : queue[i] \in running <=> i = 1

(* No task is handed to PostTask twice: its body is moved out the first    *)
(* time and a second run would call an empty function.                     *)
HandedOver == { i \in 1 .. Len(handler) : handler[i].do = "Run" }

RunsOnce ==
  /\ \A i, j \in HandedOver : handler[i].task = handler[j].task => i = j
  /\ \A i \in HandedOver : handler[i].task \notin begun \cup starting
  /\ starting \cap begun = {}

(* Whose turn it is, who waits, and whose body is still to run.            *)
Front == IF queue = <<>> THEN {} ELSE { Head(queue) }
Behind == { queue[i] : i \in 2 .. Len(queue) }
Due == starting \cup { handler[i].task : i \in HandedOver }

Promise == INSTANCE TaskTurns WITH
  posted <- Len(kind), waiting <- Behind, turn <- Front, due <- Due

(* The queue keeps the promises of TaskTurns: tasks get their turn in the  *)
(* order of their posts, one at a time, and begin once, not before it,     *)
(* whoever posts, completes, expires or clears in between.                 *)
KeepsTurns == Promise!Spec

(* The task at the front is on its way to its completion, which alone      *)
(* starts the next: no early return, expiry or foreign completion leaves a *)
(* front that nothing will take off.  Unless nobody listens to it, or the  *)
(* session is gone and its completions are ignored.                        *)
FrontWillComplete ==
  queue # <<>> /\ ~erased => Head(queue) \in InFlight \cup deaf

(* Starts and stops of one session do not overlap, but for one task each   *)
(* time a front was taken off before its completion: a completion that     *)
(* arrives late may end another task of its type, it never adds a task.    *)
OverlapBounded ==
  Cardinality(InFlight) <= takenOff + (IF queue = <<>> THEN 0 ELSE 1)

(* Every queued task is run or expires, unless the session is removed or a *)
(* task before it found no listener: then it waits for the next post to    *)
(* see the expiry.                                                         *)
QueuedTaskRuns ==
  \A n \in 1 .. MaxPosts :
    (n \in Range(queue)) ~> (n \in begun \/ erased \/ deaf # {})
=============================================================================
