---------------------------- MODULE DmsGlobalMutex ----------------------------
(***************************************************************************)
(* The global mutex of the display manager service: HoldLock around every  *)
(* IPC request, callback and posted task, DropLock around everything that  *)
(* waits.  Locking never blocks for good: a thread that cannot have the    *)
(* mutex within TRY_LOCK_TIMEOUT runs its section without it.  counter and *)
(* lockStatus are thread-local; nested HoldLocks of a thread lock once.    *)
(*                                                                         *)
(* A waiting thread also holds a mutex of its own, the one its condition   *)
(* variable wants: waitMutex.  safe_wait_for locks the global mutex again  *)
(* while it holds waitMutex, and another thread may be waiting for         *)
(* waitMutex while it holds the global one.                                *)
(***************************************************************************)
EXTENDS Integers

CONSTANTS
  Threads,     \* the service's threads
  None,        \* nobody owns a mutex
  MaxNesting   \* bound: HoldLocks a thread nests

ASSUME ThreadsAssumption == None \notin Threads /\ MaxNesting \in Nat

VARIABLES
  resMtx,      \* the owner of HoldLock::resMtx
  waitMutex,   \* the owner of the mutex the threads wait with
  counter,     \* HoldLock::counter() of each thread
  lockStatus,  \* HoldLock::lockStatus of each thread
  hasLock,     \* DropLock::hasLock of the DropLock a thread is in
  pc           \* where each thread is

vars == <<resMtx, waitMutex, counter, lockStatus, hasLock, pc>>

(* Run: outside the lock's code.  TryHold, TryForce: in try_lock_for.      *)
(* WantMutex: HoldLock's user locks waitMutex.  Critical: it holds it.     *)
(* Waiting: in cv.wait_for.  Woken: wants waitMutex back.  Locked: has it  *)
(* back and is in ~DropLock.  Awake: out of safe_wait_for, still holding   *)
(* it; its users wait once.  SyncTask: waits for a task it posted.         *)
TryPc == { "TryHold", "TryForce", "TryForceLocked" }
DropPc == { "Waiting", "Woken", "Locked", "SyncTask" }
Pc == { "Run", "WantMutex", "Critical", "Awake" } \cup TryPc \cup DropPc

Init ==
  /\ resMtx = None /\ waitMutex = None
  /\ counter = [t \in Threads |-> 0]
  /\ lockStatus = [t \in Threads |-> FALSE]
  /\ hasLock = [t \in Threads |-> FALSE]
  /\ pc = [t \in Threads |-> "Run"]

Goto(t, from, to) ==
  /\ pc[t] = from
  /\ pc' = [pc EXCEPT ![t] = to]
-----------------------------------------------------------------------------
(* try_lock() || (lockStatus && try_lock_for(TRY_LOCK_TIMEOUT)), by a      *)
(* thread that goes on to done; trying is where it waits meanwhile.        *)
TryLock(t, from, trying, done) ==
  \/ /\ resMtx = None
     /\ resMtx' = t
     /\ lockStatus' = [lockStatus EXCEPT ![t] = TRUE]
     /\ Goto(t, from, done)
  \/ /\ resMtx # None /\ lockStatus[t]
     /\ Goto(t, from, trying)
     /\ UNCHANGED <<resMtx, lockStatus>>
  \/ /\ resMtx # None /\ ~lockStatus[t]
     /\ Goto(t, from, done)
     /\ UNCHANGED <<resMtx, lockStatus>>

TryLockFor(t, trying, done) ==
  /\ resMtx = None
  /\ resMtx' = t
  /\ lockStatus' = [lockStatus EXCEPT ![t] = TRUE]
  /\ Goto(t, trying, done)
  /\ UNCHANGED <<waitMutex, counter, hasLock>>

(* Mutant: the second attempt waits for the mutex without a time limit.    *)
TryLockNeverTimesOut(t, trying, done) == FALSE

TryLockTimeout(t, trying, done) ==
  /\ lockStatus' = [lockStatus EXCEPT ![t] = FALSE]
  /\ Goto(t, trying, done)
  /\ UNCHANGED <<resMtx, waitMutex, counter, hasLock>>

(* HoldLock::HoldLock: only the outermost of a thread locks.               *)
HoldLock(t) ==
  /\ counter[t] < MaxNesting
  /\ counter' = [counter EXCEPT ![t] = @ + 1]
  /\ \/ counter[t] = 0 /\ TryLock(t, "Run", "TryHold", "Run")
     \/ counter[t] # 0 /\ pc[t] = "Run" /\ UNCHANGED <<resMtx, lockStatus, pc>>
  /\ UNCHANGED <<waitMutex, hasLock>>

(* Mutant: every HoldLock of a serial section unlocks, not the outermost.  *)
UnlockAtAnyDepth(t) ==
  /\ pc[t] = "Run" /\ counter[t] > 0
  /\ counter' = [counter EXCEPT ![t] = @ - 1]
  /\ resMtx' = IF lockStatus[t] THEN None ELSE resMtx
  /\ UNCHANGED <<waitMutex, lockStatus, hasLock, pc>>

(* HoldLock::~HoldLock.                                                    *)
LeaveHoldLock(t) ==
  /\ pc[t] = "Run" /\ counter[t] > 0
  /\ counter' = [counter EXCEPT ![t] = @ - 1]
  /\ resMtx' = IF counter[t] = 1 /\ lockStatus[t] THEN None ELSE resMtx
  /\ UNCHANGED <<waitMutex, lockStatus, hasLock, pc>>

(* Mutant: a DropLock of a thread in no section unlocks as well.           *)
ForceUnlockAnyway(t) ==
  /\ counter' = [counter EXCEPT ![t] = @ - 1]
  /\ hasLock' = [hasLock EXCEPT ![t] = lockStatus[t]]
  /\ resMtx' = IF hasLock'[t] THEN None ELSE resMtx

(* HoldLock::ForceUnlock in DropLock's constructor.                        *)
ForceUnlock(t) ==
  /\ counter' = [counter EXCEPT ![t] = @ - 1]
  /\ hasLock' = [hasLock EXCEPT ![t] = counter[t] > 0 /\ lockStatus[t]]
  /\ resMtx' = IF hasLock'[t] THEN None ELSE resMtx

(* Mutant: the counter is restored only when the mutex was dropped.        *)
ForceLockForgetsCounter(t, from, trying, done) ==
  /\ counter' = IF hasLock[t] THEN [counter EXCEPT ![t] = @ + 1] ELSE counter
  /\ \/ hasLock[t] /\ TryLock(t, from, trying, done)
     \/ /\ ~hasLock[t]
        /\ Goto(t, from, done)
        /\ UNCHANGED <<resMtx, lockStatus>>
  /\ UNCHANGED <<waitMutex, hasLock>>

(* HoldLock::ForceLock in DropLock's destructor.                           *)
ForceLock(t, from, trying, done) ==
  /\ counter' = [counter EXCEPT ![t] = @ + 1]
  /\ \/ hasLock[t] /\ TryLock(t, from, trying, done)
     \/ /\ ~hasLock[t]
        /\ Goto(t, from, done)
        /\ UNCHANGED <<resMtx, lockStatus>>
  /\ UNCHANGED <<waitMutex, hasLock>>
-----------------------------------------------------------------------------
(* safe_wait_for, with the mutex around it.                                *)

WantMutex(t) ==
  /\ Goto(t, "Run", "WantMutex")
  /\ UNCHANGED <<resMtx, waitMutex, counter, lockStatus, hasLock>>

LockMutex(t, from, to) ==
  /\ waitMutex = None
  /\ waitMutex' = t
  /\ Goto(t, from, to)
  /\ UNCHANGED <<resMtx, counter, lockStatus, hasLock>>

(* The wait is over, or was not called for.                                *)
UnlockMutex(t) ==
  /\ waitMutex' = None
  /\ Goto(t, "Critical", "Run") \/ Goto(t, "Awake", "Run")
  /\ UNCHANGED <<resMtx, counter, lockStatus, hasLock>>

(* It waits, or the predicate holds and ~DropLock comes at once.           *)
SafeWaitFor(t) ==
  /\ ForceUnlock(t)
  /\ \/ waitMutex' = None /\ Goto(t, "Critical", "Waiting")
     \/ UNCHANGED waitMutex /\ Goto(t, "Critical", "Locked")
  /\ UNCHANGED lockStatus

(* Notified, or the time is up.                                            *)
EndWait(t) ==
  /\ Goto(t, "Waiting", "Woken")
  /\ UNCHANGED <<resMtx, waitMutex, counter, lockStatus, hasLock>>

LeaveSafeWaitFor(t) == ForceLock(t, "Locked", "TryForceLocked", "Awake")
-----------------------------------------------------------------------------
(* SafeTaskScheduler::PostVoidSyncTask to another thread, and an IPC call  *)
(* of this service (FREE_GLOBAL_LOCK_FOR_IPC), which drops and relocks.    *)

PostVoidSyncTask(t) ==
  /\ ForceUnlock(t)
  /\ Goto(t, "Run", "SyncTask")
  /\ UNCHANGED <<waitMutex, lockStatus>>

SyncTaskDone(t) == ForceLock(t, "SyncTask", "TryForce", "Run")
-----------------------------------------------------------------------------
(* A thread in the lock's code goes on; one in Run may or may not.         *)
Proceed(t) ==
  \/ TryLockFor(t, "TryHold", "Run")
  \/ TryLockTimeout(t, "TryHold", "Run")
  \/ TryLockFor(t, "TryForce", "Run")
  \/ TryLockTimeout(t, "TryForce", "Run")
  \/ TryLockFor(t, "TryForceLocked", "Awake")
  \/ TryLockTimeout(t, "TryForceLocked", "Awake")
  \/ EndWait(t)
  \/ LeaveSafeWaitFor(t)
  \/ UnlockMutex(t)

Acquire(t) ==
  \/ LockMutex(t, "WantMutex", "Critical")
  \/ LockMutex(t, "Woken", "Locked")

Begin(t) ==
  \/ HoldLock(t)
  \/ LeaveHoldLock(t)
  \/ WantMutex(t)
  \/ SafeWaitFor(t)
  \/ PostVoidSyncTask(t)
  \/ SyncTaskDone(t)

Next == \E t \in Threads : Proceed(t) \/ Acquire(t) \/ Begin(t)

Spec == Init /\ [][Next]_vars

(* A thread inside the lock's code is scheduled, try_lock_for and wait_for *)
(* time out, and waitMutex is not withheld for ever from a thread while    *)
(* others keep taking it.  Nothing obliges a section to end.               *)
FairSpec ==
  Spec /\ \A t \in Threads : WF_vars(Proceed(t)) /\ SF_vars(Acquire(t))
-----------------------------------------------------------------------------
(* Every variable has its type.  A DropLock outside every section brings   *)
(* counter to -1, and nothing but a DropLock does.                         *)
TypeOK ==
  /\ resMtx \in Threads \cup {None}
  /\ waitMutex \in Threads \cup {None}
  /\ counter \in [Threads -> -1 .. MaxNesting]
  /\ lockStatus \in [Threads -> BOOLEAN]
  /\ hasLock \in [Threads -> BOOLEAN]
  /\ pc \in [Threads -> Pc]
  /\ \A t \in Threads : counter[t] = -1 => pc[t] \in DropPc

(* Exactly the thread whose section runs in serial mode owns the mutex: so *)
(* every unlock of HoldLock and DropLock is by the owner (any other would  *)
(* be undefined for a timed_mutex), and no section leaks it, whatever      *)
(* lockStatus an earlier section of the thread left behind.                *)
SerialModeOwns ==
  \A t \in Threads :
    resMtx = t <=>
      /\ lockStatus[t] /\ counter[t] > 0
      /\ pc[t] \in { "Run", "WantMutex", "Critical", "Awake" }

(* What a DropLock remembers is what it has to undo.  Not checked by a run *)
(* of its own: it is the strengthening that makes SerialModeOwns inductive.*)
DropRemembers ==
  \A t \in Threads :
    /\ pc[t] \in DropPc =>
         /\ hasLock[t] <=> counter[t] >= 0 /\ lockStatus[t]
         /\ counter[t] < MaxNesting \/ counter[t] = -1
    /\ pc[t] \in TryPc => counter[t] > 0

(* The promise of the comment at line 40: one serial section at a time.    *)
Mode(t) ==
  IF pc[t] = "TryHold" THEN "Out"
  ELSE IF pc[t] \in DropPc
    THEN IF counter[t] < 0 THEN "Out" ELSE "Paused"
  ELSE IF pc[t] \in TryPc THEN "Paused"
  ELSE IF counter[t] = 0 THEN "Out"
  ELSE IF lockStatus[t] THEN "Serial" ELSE "Concurrent"

SerialRunMode == INSTANCE SerialRunMode WITH mode <- [t \in Threads |-> Mode(t)]

ImplementsSerialRunMode == SerialRunMode!Spec

(* A thread that locks either mutex or waits gets out of it, even if no    *)
(* section ever ends: the two mutexes are taken in both orders, and it is  *)
(* the time limit of try_lock_for that keeps two threads from waiting for  *)
(* each other.                                                             *)
WaitsEnd ==
  \A t \in Threads :
    pc[t] \notin { "Run", "SyncTask" } ~> pc[t] = "Run"
=============================================================================
