------------------------ MODULE DmsGlobalMutexProofs ------------------------
(***************************************************************************)
(* For every number of threads and every nesting depth: the global mutex   *)
(* is owned exactly by the thread whose section runs in serial mode, and   *)
(* the lock implements the run modes that its comment promises; and a      *)
(* thread leaves the lock's code, of whose two mutexes only one is waited  *)
(* for without a limit.                                                    *)
(***************************************************************************)
EXTENDS DmsGlobalMutex, TLAPS

LockInv == TypeOK /\ DropRemembers /\ SerialModeOwns

(* The service starts with nobody in a section.                            *)
LEMMA InitLockInv == Init => LockInv
  BY ThreadsAssumption DEF Init, LockInv, TypeOK, DropRemembers, SerialModeOwns,
     Pc, TryPc, DropPc

(* An attempt to lock by a thread that is in a section when it is done.    *)
LEMMA TryLockInv ==
  ASSUME LockInv, NEW t \in Threads,
         NEW from \in Pc, NEW trying \in TryPc,
         NEW done \in { "Run", "Awake" },
         counter' \in [Threads -> -1 .. MaxNesting],
         \A u \in Threads \ {t} : counter'[u] = counter[u],
         counter'[t] > 0,
         ~(resMtx = t),
         TryLock(t, from, trying, done),
         hasLock' = hasLock, waitMutex' = waitMutex
  PROVE  LockInv'
<1>1. TypeOK'
  <2>1. /\ resMtx' \in Threads \cup {None} /\ waitMutex' \in Threads \cup {None}
        /\ hasLock' \in [Threads -> BOOLEAN]
    BY DEF LockInv, TypeOK, TryLock
  <2>2. lockStatus' \in [Threads -> BOOLEAN]
    BY DEF LockInv, TypeOK, TryLock
  <2>3. /\ pc' \in [Threads -> Pc]
        /\ \A u \in Threads \ {t} : pc'[u] = pc[u]
    BY DEF LockInv, TypeOK, TryLock, Goto, Pc
  <2>4. \A u \in Threads : counter'[u] = -1 => pc'[u] \in DropPc
    BY <2>3 DEF LockInv, TypeOK
  <2> QED BY <2>1, <2>2, <2>3, <2>4 DEF TypeOK
<1>2. DropRemembers'
  BY DEF LockInv, TypeOK, DropRemembers, TryLock, Goto, Pc, TryPc, DropPc
<1>3. SerialModeOwns'
  BY ThreadsAssumption
     DEF LockInv, TypeOK, SerialModeOwns, TryLock, Goto, Pc, TryPc, DropPc
<1> QED BY <1>1, <1>2, <1>3 DEF LockInv

(* A DropLock gives the mutex back only if its thread has it.              *)
LEMMA ForceUnlockInv ==
  ASSUME LockInv, NEW t \in Threads, NEW from \in { "Run", "Critical" },
         NEW to \in DropPc,
         ForceUnlock(t), Goto(t, from, to), lockStatus' = lockStatus,
         waitMutex' \in Threads \cup {None}
  PROVE  LockInv'
<1>1. counter[t] \in 0 .. MaxNesting
  BY DEF LockInv, TypeOK, Goto, DropPc
<1>2. TypeOK'
  BY <1>1, ThreadsAssumption
     DEF LockInv, TypeOK, ForceUnlock, Goto, Pc, TryPc, DropPc
<1>3. DropRemembers'
  <2>1. hasLock'[t] = (counter[t] > 0 /\ lockStatus[t]) /\ counter'[t] = counter[t] - 1
        /\ pc'[t] = to
    BY DEF LockInv, TypeOK, ForceUnlock, Goto
  <2>2. \A u \in Threads \ {t} :
          hasLock'[u] = hasLock[u] /\ counter'[u] = counter[u] /\ pc'[u] = pc[u]
    BY DEF LockInv, TypeOK, ForceUnlock, Goto
  <2>3. (counter[t] > 0 <=> counter'[t] >= 0)
        /\ (counter'[t] < MaxNesting \/ counter'[t] = -1)
    BY <1>1, <2>1, ThreadsAssumption
  <2>4. hasLock'[t] <=> counter'[t] >= 0 /\ lockStatus'[t]
    BY <2>1, <2>3, Zenon
  <2> QED BY <2>1, <2>2, <2>3, <2>4 DEF LockInv, DropRemembers, TryPc, DropPc
<1>4. SerialModeOwns'
  BY <1>1, ThreadsAssumption
     DEF LockInv, TypeOK, SerialModeOwns, ForceUnlock, Goto, Pc, TryPc, DropPc
<1> QED BY <1>2, <1>3, <1>4 DEF LockInv

(* The end of a DropLock, wherever it was.                                 *)
LEMMA ForceLockInv ==
  ASSUME LockInv, NEW t \in Threads, NEW from \in DropPc,
         NEW trying \in TryPc, NEW done \in { "Run", "Awake" },
         ForceLock(t, from, trying, done)
  PROVE  LockInv'
<1>1. pc[t] = from /\ resMtx # t /\ counter[t] \in Int
      /\ (counter[t] < MaxNesting \/ counter[t] = -1)
      /\ (hasLock[t] <=> counter[t] >= 0 /\ lockStatus[t])
      /\ counter[t] >= -1
  BY DEF LockInv, TypeOK, DropRemembers, SerialModeOwns, ForceLock, TryLock,
         Goto, DropPc
<1>2. counter' \in [Threads -> -1 .. MaxNesting] /\ counter'[t] = counter[t] + 1
      /\ \A u \in Threads \ {t} : counter'[u] = counter[u]
  BY <1>1, ThreadsAssumption DEF LockInv, TypeOK, ForceLock
<1>3. CASE hasLock[t]
  <2>1. TryLock(t, from, trying, done) /\ hasLock' = hasLock
        /\ waitMutex' = waitMutex /\ counter'[t] > 0
    BY <1>1, <1>2, <1>3 DEF ForceLock
  <2> QED BY <1>1, <1>2, <2>1, TryLockInv DEF Pc
<1>4. CASE ~hasLock[t]
  <2>1. pc' = [pc EXCEPT ![t] = done]
        /\ UNCHANGED <<resMtx, lockStatus, waitMutex, hasLock>>
    BY <1>4 DEF ForceLock, Goto
  <2>2. TypeOK'
    BY <1>1, <1>2, <2>1 DEF LockInv, TypeOK, Pc, TryPc, DropPc
  <2>3. DropRemembers'
    BY <1>2, <2>1 DEF LockInv, TypeOK, DropRemembers, TryPc, DropPc
  <2>4. SerialModeOwns'
    BY <1>1, <1>2, <1>4, <2>1
       DEF LockInv, TypeOK, SerialModeOwns, DropPc
  <2> QED BY <2>2, <2>3, <2>4 DEF LockInv
<1> QED BY <1>3, <1>4

(* try_lock_for ends, with the mutex or without it.                        *)
LEMMA TryLockForInv ==
  ASSUME LockInv, NEW t \in Threads, NEW trying \in TryPc,
         NEW done \in { "Run", "Awake" },
         TryLockFor(t, trying, done) \/ TryLockTimeout(t, trying, done)
  PROVE  LockInv'
<1>1. TypeOK'
  BY DEF LockInv, TypeOK, TryLockFor, TryLockTimeout, Goto, Pc, TryPc, DropPc
<1>2. DropRemembers'
  BY DEF LockInv, TypeOK, DropRemembers, TryLockFor, TryLockTimeout, Goto,
         TryPc, DropPc
<1>3. SerialModeOwns'
  BY ThreadsAssumption
     DEF LockInv, TypeOK, SerialModeOwns, DropRemembers, TryLockFor,
         TryLockTimeout, Goto, TryPc, DropPc
<1> QED BY <1>1, <1>2, <1>3 DEF LockInv

(* A step that only moves a thread within the places of one kind.          *)
LEMMA MoveInv ==
  ASSUME LockInv, NEW t \in Threads, NEW from \in Pc, NEW to \in Pc,
         Goto(t, from, to),
         UNCHANGED <<resMtx, counter, lockStatus, hasLock>>,
         waitMutex' \in Threads \cup {None},
         \/ from \in DropPc /\ to \in DropPc
         \/ /\ from \in { "Run", "WantMutex", "Critical", "Awake" }
            /\ to \in { "Run", "WantMutex", "Critical", "Awake" }
  PROVE  LockInv'
<1>1. TypeOK'
  BY DEF LockInv, TypeOK, Goto, DropPc
<1>2. DropRemembers'
  BY DEF LockInv, TypeOK, DropRemembers, Goto, TryPc, DropPc
<1>3. SerialModeOwns'
  BY DEF LockInv, TypeOK, SerialModeOwns, Goto, DropPc
<1> QED BY <1>1, <1>2, <1>3 DEF LockInv

(* Every step of the threads keeps the invariant.                          *)
LEMMA NextLockInv == LockInv /\ [Next]_vars => LockInv'
<1> SUFFICES ASSUME LockInv, [Next]_vars PROVE LockInv'
  OBVIOUS
<1>1. CASE UNCHANGED vars
  BY <1>1 DEF LockInv, TypeOK, DropRemembers, SerialModeOwns, vars
<1>2. ASSUME NEW t \in Threads, Proceed(t) PROVE LockInv'
  <2>1. CASE \/ TryLockFor(t, "TryHold", "Run") \/ TryLockTimeout(t, "TryHold", "Run")
             \/ TryLockFor(t, "TryForce", "Run") \/ TryLockTimeout(t, "TryForce", "Run")
             \/ TryLockFor(t, "TryForceLocked", "Awake")
             \/ TryLockTimeout(t, "TryForceLocked", "Awake")
    BY <2>1, TryLockForInv DEF TryPc
  <2>2. CASE EndWait(t)
    BY <2>2, MoveInv DEF EndWait, LockInv, TypeOK, Pc, DropPc
  <2>3. CASE LeaveSafeWaitFor(t)
    BY <2>3, ForceLockInv DEF LeaveSafeWaitFor, DropPc, TryPc
  <2>4. CASE UnlockMutex(t)
    BY <2>4, MoveInv DEF UnlockMutex, Pc
  <2> QED BY <1>2, <2>1, <2>2, <2>3, <2>4 DEF Proceed
<1>3. ASSUME NEW t \in Threads, Acquire(t) PROVE LockInv'
  BY <1>3, MoveInv DEF Acquire, LockMutex, Pc, DropPc
<1>4. ASSUME NEW t \in Threads, HoldLock(t) PROVE LockInv'
  <2>1. CASE counter[t] = 0
    <3>1. counter' \in [Threads -> -1 .. MaxNesting] /\ counter'[t] > 0
          /\ \A u \in Threads \ {t} : counter'[u] = counter[u]
      BY <1>4, <2>1, ThreadsAssumption DEF HoldLock, LockInv, TypeOK
    <3>2. TryLock(t, "Run", "TryHold", "Run")
          /\ hasLock' = hasLock /\ waitMutex' = waitMutex
      BY <1>4, <2>1 DEF HoldLock
    <3>3. resMtx # t
      BY <2>1 DEF LockInv, SerialModeOwns
    <3> QED BY <3>1, <3>2, <3>3, TryLockInv DEF Pc, TryPc
  <2>2. CASE counter[t] # 0
    <3>1. /\ pc[t] = "Run" /\ counter[t] > 0 /\ counter[t] < MaxNesting
          /\ counter' = [counter EXCEPT ![t] = @ + 1]
          /\ UNCHANGED <<resMtx, lockStatus, pc, waitMutex, hasLock>>
      BY <1>4, <2>2 DEF HoldLock, LockInv, TypeOK, DropPc
    <3>2. TypeOK'
      BY <3>1, ThreadsAssumption DEF LockInv, TypeOK
    <3>3. DropRemembers'
      BY <3>1 DEF LockInv, TypeOK, DropRemembers, TryPc, DropPc
    <3>4. SerialModeOwns'
      BY <3>1 DEF LockInv, TypeOK, SerialModeOwns
    <3> QED BY <3>2, <3>3, <3>4 DEF LockInv
  <2> QED BY <2>1, <2>2
<1>5. ASSUME NEW t \in Threads, LeaveHoldLock(t) PROVE LockInv'
  <2>1. TypeOK'
    BY <1>5, ThreadsAssumption DEF LeaveHoldLock, LockInv, TypeOK
  <2>2. DropRemembers'
    BY <1>5 DEF LeaveHoldLock, LockInv, TypeOK, DropRemembers, TryPc, DropPc
  <2>3. SerialModeOwns'
    BY <1>5, ThreadsAssumption DEF LeaveHoldLock, LockInv, TypeOK, SerialModeOwns
  <2> QED BY <2>1, <2>2, <2>3 DEF LockInv
<1>6. ASSUME NEW t \in Threads, WantMutex(t) PROVE LockInv'
  BY <1>6, MoveInv DEF WantMutex, LockInv, TypeOK, Pc
<1>7. ASSUME NEW t \in Threads, SafeWaitFor(t) \/ PostVoidSyncTask(t) PROVE LockInv'
  BY <1>7, ForceUnlockInv DEF SafeWaitFor, PostVoidSyncTask, LockInv, TypeOK, DropPc
<1>8. ASSUME NEW t \in Threads, SyncTaskDone(t) PROVE LockInv'
  BY <1>8, ForceLockInv DEF SyncTaskDone, DropPc, TryPc
<1> QED BY <1>1, <1>2, <1>3, <1>4, <1>5, <1>6, <1>7, <1>8 DEF Next, Begin

(* The invariant holds throughout.                                         *)
THEOREM LockInvariant == Spec => []LockInv
  BY InitLockInv, NextLockInv, PTL DEF Spec

(* Type correctness: a counter is negative only inside a DropLock.         *)
THEOREM TypeCorrect == Spec => []TypeOK
  BY LockInvariant, PTL DEF LockInv

(* The mutex is owned exactly by the thread in serial mode, so no unlock   *)
(* is undefined and none is forgotten.                                     *)
THEOREM SerialModeOwnsAlways == Spec => []SerialModeOwns
  BY LockInvariant, PTL DEF LockInv
-----------------------------------------------------------------------------
(* How the mode of the thread that takes a step may change.                *)
ModeChange(t) ==
  \/ Mode(t)' = Mode(t)
  \/ /\ Mode(t) \in { "Out", "Paused" }
     /\ \/ Mode(t)' = "Concurrent"
        \/ Mode(t)' = "Serial" /\ resMtx = None
  \/ Mode(t) \in { "Serial", "Concurrent" } /\ Mode(t)' \in { "Out", "Paused" }

OthersStay(t) ==
  \A u \in Threads \ {t} :
    pc'[u] = pc[u] /\ counter'[u] = counter[u] /\ lockStatus'[u] = lockStatus[u]

(* A free mutex means that nobody runs in serial mode.                     *)
LEMMA FreeMeansNobody ==
  ASSUME LockInv, resMtx = None, NEW u \in Threads
  PROVE  Mode(u) # "Serial"
<1>1. pc[u] \in Pc /\ counter[u] \in -1 .. MaxNesting
      /\ (counter[u] = -1 => pc[u] \in DropPc)
  BY DEF LockInv, TypeOK
<1> QED BY <1>1, ThreadsAssumption
        DEF LockInv, SerialModeOwns, Mode, Pc, DropPc, TryPc

(* Such a change is a step of SerialRunMode, or none.                      *)
LEMMA ModeChangeSimulates ==
  ASSUME LockInv, NEW t \in Threads, OthersStay(t), ModeChange(t)
  PROVE  [SerialRunMode!Next]_[u \in Threads |-> Mode(u)]
<1> DEFINE mode == [u \in Threads |-> Mode(u)]
<1>1. \A u \in Threads \ {t} : Mode(u)' = Mode(u)
  BY DEF OthersStay, Mode
<1>2. mode' = [mode EXCEPT ![t] = Mode(t)']
  BY <1>1
<1>3. CASE Mode(t)' = Mode(t)
  BY <1>1, <1>3
<1>4. CASE Mode(t) \in { "Out", "Paused" } /\ Mode(t)' = "Concurrent"
  BY <1>2, <1>4 DEF SerialRunMode!Next, SerialRunMode!Begin
<1>5. CASE Mode(t) \in { "Out", "Paused" } /\ Mode(t)' = "Serial" /\ resMtx = None
  <2>1. \A u \in Threads : mode[u] # "Serial"
    BY <1>5, FreeMeansNobody
  <2> QED BY <1>2, <1>5, <2>1
          DEF SerialRunMode!Next, SerialRunMode!Begin, SerialRunMode!Nobody
<1>6. CASE Mode(t) \in { "Serial", "Concurrent" } /\ Mode(t)' \in { "Out", "Paused" }
  BY <1>2, <1>6 DEF SerialRunMode!Next, SerialRunMode!Stop
<1> QED BY <1>3, <1>4, <1>5, <1>6 DEF ModeChange

(* The steps of one thread leave the others where they are.                *)
LEMMA StepOfOne ==
  ASSUME LockInv, NEW t \in Threads, Proceed(t) \/ Acquire(t) \/ Begin(t)
  PROVE  OthersStay(t)
<1> USE DEF LockInv, TypeOK, OthersStay
<1>1. CASE Proceed(t)
  BY <1>1 DEF Proceed, TryLockFor, TryLockTimeout, EndWait, LeaveSafeWaitFor,
              ForceLock, TryLock, UnlockMutex, Goto
<1>2. CASE Acquire(t)
  BY <1>2 DEF Acquire, LockMutex, Goto
<1>3. CASE HoldLock(t) \/ LeaveHoldLock(t)
  BY <1>3 DEF HoldLock, LeaveHoldLock, TryLock, Goto
<1>4. CASE WantMutex(t) \/ SafeWaitFor(t) \/ PostVoidSyncTask(t) \/ SyncTaskDone(t)
  BY <1>4 DEF WantMutex, SafeWaitFor, PostVoidSyncTask, SyncTaskDone,
              ForceUnlock, ForceLock, TryLock, Goto
<1> QED BY <1>1, <1>2, <1>3, <1>4 DEF Begin

(* Coming out of a DropLock: the section resumes, in one mode or the other.*)
LEMMA ForceLockMode ==
  ASSUME LockInv, NEW t \in Threads, NEW from \in DropPc,
         NEW trying \in TryPc \ {"TryHold"}, NEW done \in { "Run", "Awake" },
         ForceLock(t, from, trying, done)
  PROVE  ModeChange(t)
<1>1. /\ pc[t] = from /\ counter[t] \in -1 .. MaxNesting
      /\ counter'[t] = counter[t] + 1
      /\ hasLock[t] => counter[t] >= 0
      /\ ~hasLock[t] => counter[t] = -1 \/ ~lockStatus[t]
  BY DEF LockInv, TypeOK, DropRemembers, ForceLock, TryLock, Goto
<1>2. Mode(t) = IF counter[t] = -1 THEN "Out" ELSE "Paused"
  BY <1>1, ThreadsAssumption DEF Mode, DropPc
<1>3. CASE pc'[t] = trying /\ hasLock[t]
  BY <1>1, <1>2, <1>3, ThreadsAssumption DEF ModeChange, Mode, TryPc, DropPc
<1>4. CASE pc'[t] = done
  <2>1. Mode(t)' = IF counter[t] = -1 THEN "Out"
                   ELSE IF lockStatus'[t] THEN "Serial" ELSE "Concurrent"
    BY <1>1, <1>4, ThreadsAssumption DEF Mode, TryPc, DropPc
  <2>2. counter[t] # -1 /\ lockStatus'[t] => resMtx = None
    BY <1>1, <1>4 DEF ForceLock, TryLock, Goto, LockInv, TypeOK, TryPc
  <2> QED BY <1>2, <2>1, <2>2 DEF ModeChange
<1> QED BY <1>3, <1>4 DEF ForceLock, TryLock, Goto, LockInv, TypeOK

(* The end of try_lock_for: it enters or resumes the section.              *)
LEMMA TryLockForMode ==
  ASSUME LockInv, NEW t \in Threads, NEW trying \in TryPc,
         NEW done \in { "Run", "Awake" },
         TryLockFor(t, trying, done) \/ TryLockTimeout(t, trying, done)
  PROVE  ModeChange(t)
<1>1. /\ pc[t] = trying /\ pc'[t] = done /\ counter'[t] = counter[t]
      /\ counter[t] > 0 /\ counter[t] \in Int
  BY DEF LockInv, TypeOK, DropRemembers, TryLockFor, TryLockTimeout, Goto
<1>2. lockStatus'[t] => resMtx = None
  BY DEF LockInv, TypeOK, TryLockFor, TryLockTimeout
<1>3. Mode(t) \in { "Out", "Paused" }
  BY <1>1 DEF Mode, TryPc, DropPc
<1>4. Mode(t)' = IF lockStatus'[t] THEN "Serial" ELSE "Concurrent"
  BY <1>1 DEF Mode, TryPc, DropPc
<1> QED BY <1>2, <1>3, <1>4 DEF ModeChange

(* A DropLock pauses the section, if there is one.                         *)
LEMMA ForceUnlockMode ==
  ASSUME LockInv, NEW t \in Threads, NEW from \in { "Run", "Critical" },
         NEW to \in DropPc, ForceUnlock(t), Goto(t, from, to)
  PROVE  ModeChange(t)
<1>1. /\ pc[t] = from /\ pc'[t] = to /\ counter[t] \in 0 .. MaxNesting
      /\ counter'[t] = counter[t] - 1
  BY ThreadsAssumption DEF LockInv, TypeOK, ForceUnlock, Goto, DropPc
<1>2. Mode(t)' = IF counter[t] = 0 THEN "Out" ELSE "Paused"
  BY <1>1, ThreadsAssumption DEF Mode, DropPc
<1>3. Mode(t) = IF counter[t] = 0 THEN "Out"
                ELSE IF lockStatus[t] THEN "Serial" ELSE "Concurrent"
  BY <1>1 DEF Mode, TryPc, DropPc
<1> QED BY <1>1, <1>2, <1>3 DEF ModeChange

(* Every step of a thread changes its mode as SerialRunMode allows.        *)
LEMMA StepMode ==
  ASSUME LockInv, NEW t \in Threads, Proceed(t) \/ Acquire(t) \/ Begin(t)
  PROVE  ModeChange(t)
<1>1. CASE \/ TryLockFor(t, "TryHold", "Run") \/ TryLockTimeout(t, "TryHold", "Run")
           \/ TryLockFor(t, "TryForce", "Run") \/ TryLockTimeout(t, "TryForce", "Run")
           \/ TryLockFor(t, "TryForceLocked", "Awake")
           \/ TryLockTimeout(t, "TryForceLocked", "Awake")
  BY <1>1, TryLockForMode DEF TryPc
<1>2. CASE EndWait(t) \/ UnlockMutex(t) \/ Acquire(t) \/ WantMutex(t)
  BY <1>2 DEF EndWait, UnlockMutex, Acquire, LockMutex, WantMutex, Goto, LockInv,
              TypeOK, ModeChange, Mode, TryPc, DropPc
<1>3. CASE LeaveSafeWaitFor(t) \/ SyncTaskDone(t)
  BY <1>3, ForceLockMode DEF LeaveSafeWaitFor, SyncTaskDone, DropPc, TryPc
<1>4. CASE SafeWaitFor(t) \/ PostVoidSyncTask(t)
  BY <1>4, ForceUnlockMode DEF SafeWaitFor, PostVoidSyncTask, DropPc
<1>5. CASE HoldLock(t) /\ counter[t] = 0
  <2>1. /\ pc[t] = "Run" /\ counter'[t] = 1
        /\ TryLock(t, "Run", "TryHold", "Run")
    BY <1>5 DEF HoldLock, TryLock, Goto, LockInv, TypeOK
  <2>2. Mode(t) = "Out"
    BY <1>5, <2>1 DEF Mode, TryPc, DropPc
  <2>3. CASE pc'[t] = "TryHold"
    BY <2>2, <2>3 DEF ModeChange, Mode
  <2>4. CASE pc'[t] = "Run"
    <3>1. lockStatus'[t] => resMtx = None
      BY <2>1, <2>4 DEF TryLock, Goto, LockInv, TypeOK
    <3>2. Mode(t)' = IF lockStatus'[t] THEN "Serial" ELSE "Concurrent"
      BY <2>1, <2>4 DEF Mode, TryPc, DropPc
    <3> QED BY <2>2, <3>1, <3>2 DEF ModeChange
  <2> QED BY <2>1, <2>3, <2>4 DEF TryLock, Goto, LockInv, TypeOK
<1>6. CASE HoldLock(t) /\ counter[t] # 0
  BY <1>6, ThreadsAssumption
     DEF HoldLock, LockInv, TypeOK, ModeChange, Mode, TryPc, DropPc
<1>7. CASE LeaveHoldLock(t)
  BY <1>7 DEF LeaveHoldLock, LockInv, TypeOK, ModeChange, Mode, TryPc, DropPc
<1> QED BY <1>1, <1>2, <1>3, <1>4, <1>5, <1>6, <1>7 DEF Proceed, Begin

(* The lock implements its run modes: at most one thread is in serial mode,*)
(* and a section keeps its mode until it ends or pauses.                   *)
THEOREM LockImplementsSerialRunMode == Spec => ImplementsSerialRunMode
<1>1. Init => SerialRunMode!Init
  BY DEF Init, SerialRunMode!Init, Mode, TryPc, DropPc
<1>2. LockInv /\ [Next]_vars => [SerialRunMode!Next]_[t \in Threads |-> Mode(t)]
  <2> SUFFICES ASSUME LockInv, [Next]_vars PROVE [SerialRunMode!Next]_[t \in Threads |-> Mode(t)]
    OBVIOUS
  <2>1. CASE UNCHANGED vars
    BY <2>1 DEF vars, Mode
  <2>2. ASSUME NEW t \in Threads, Proceed(t) \/ Acquire(t) \/ Begin(t)
        PROVE  [SerialRunMode!Next]_[u \in Threads |-> Mode(u)]
    BY <2>2, StepOfOne, StepMode, ModeChangeSimulates
  <2> QED BY <2>1, <2>2 DEF Next
<1> QED BY <1>1, <1>2, LockInvariant, PTL
        DEF Spec, ImplementsSerialRunMode, SerialRunMode!Spec

-----------------------------------------------------------------------------
(* The other mutex.                                                        *)

(* Where a thread holds waitMutex.                                         *)
Holding == { "Critical", "Locked", "TryForceLocked", "Awake" }

(* A thread in the lock's code has a step: try_lock_for and wait_for end   *)
(* by themselves, and a mutex that is free can be locked.                  *)
GoesOn(t) ==
  \/ pc[t] \in TryPc \cup Holding \cup {"Waiting"}
  \/ pc[t] \in { "WantMutex", "Woken" } /\ waitMutex = None

WaitMutexOwns == \A t \in Threads : waitMutex = t <=> pc[t] \in Holding

NobodyBlocksForGood ==
  \A t \in Threads :
    pc[t] \notin { "Run", "SyncTask" } =>
      GoesOn(t) \/ \E u \in Threads : waitMutex = u /\ GoesOn(u)

(* A step that neither locks nor unlocks waitMutex moves its thread        *)
(* within the places that hold it, or within those that do not.            *)
LEMMA WaitMutexKept ==
  ASSUME LockInv, WaitMutexOwns, NEW t \in Threads, UNCHANGED waitMutex,
         \A u \in Threads \ {t} : pc'[u] = pc[u],
         pc[t] \in Holding <=> pc'[t] \in Holding
  PROVE  WaitMutexOwns'
BY DEF WaitMutexOwns

LEMMA NextWaitMutexOwns == LockInv /\ WaitMutexOwns /\ [Next]_vars => WaitMutexOwns'
<1> SUFFICES ASSUME LockInv, WaitMutexOwns, NEW t \in Threads,
                    Proceed(t) \/ Acquire(t) \/ Begin(t)
             PROVE  WaitMutexOwns'
  BY DEF Next, vars, WaitMutexOwns
<1>1. \A u \in Threads \ {t} : pc'[u] = pc[u]
  BY StepOfOne DEF OthersStay
<1>2. t # None /\ t \in DOMAIN pc
  BY ThreadsAssumption DEF LockInv, TypeOK
<1>3. ASSUME NEW trying \in TryPc, NEW done \in { "Run", "Awake" },
             trying = "TryForceLocked" <=> done = "Awake",
             TryLockFor(t, trying, done) \/ TryLockTimeout(t, trying, done)
      PROVE  WaitMutexOwns'
  BY <1>1, <1>2, <1>3, WaitMutexKept DEF TryLockFor, TryLockTimeout, Goto, Holding, TryPc
<1>4. CASE EndWait(t) \/ WantMutex(t) \/ HoldLock(t) \/ LeaveHoldLock(t)
  BY <1>1, <1>2, <1>4, WaitMutexKept
     DEF EndWait, WantMutex, HoldLock, LeaveHoldLock, TryLock, Goto, Holding
<1>5. CASE LeaveSafeWaitFor(t) \/ SyncTaskDone(t) \/ PostVoidSyncTask(t)
  BY <1>1, <1>2, <1>5, WaitMutexKept
     DEF LeaveSafeWaitFor, SyncTaskDone, PostVoidSyncTask, ForceLock, TryLock, Goto,
         Holding
<1>6. CASE Acquire(t)
  BY <1>1, <1>2, <1>6, ThreadsAssumption DEF Acquire, LockMutex, Goto, Holding, WaitMutexOwns
<1>7. CASE UnlockMutex(t)
  <2>1. waitMutex = t /\ pc'[t] = "Run" /\ waitMutex' = None
    BY <1>2, <1>7 DEF UnlockMutex, Goto, Holding, WaitMutexOwns
  <2> QED BY <1>1, <2>1, ThreadsAssumption DEF WaitMutexOwns, Holding
<1>8. CASE SafeWaitFor(t)
  <2>1. /\ waitMutex = t
        /\ \/ waitMutex' = None /\ pc'[t] = "Waiting"
           \/ waitMutex' = t /\ pc'[t] = "Locked"
    BY <1>2, <1>8 DEF SafeWaitFor, Goto, Holding, WaitMutexOwns
  <2> QED BY <1>1, <2>1, ThreadsAssumption DEF WaitMutexOwns, Holding
<1> QED BY <1>3, <1>4, <1>5, <1>6, <1>7, <1>8 DEF Proceed, Begin, TryPc

(* Every unlock of waitMutex is by the thread that locked it, whichever    *)
(* way it leaves safe_wait_for, and no way leaves it locked.               *)
THEOREM WaitMutexOwnsAlways == Spec => []WaitMutexOwns
<1>1. Init => WaitMutexOwns
  BY ThreadsAssumption DEF Init, WaitMutexOwns, Holding
<1> QED BY <1>1, NextWaitMutexOwns, LockInvariant, PTL DEF Spec

(* Although the two mutexes are taken in both orders, nobody blocks for    *)
(* good: a thread in the lock's code goes on, or it waits for waitMutex    *)
(* and the thread that has it goes on: the safety half of WaitsEnd.        *)
THEOREM NobodyBlocks == Spec => []NobodyBlocksForGood
<1>1. LockInv /\ WaitMutexOwns => NobodyBlocksForGood
  <2> SUFFICES ASSUME LockInv, WaitMutexOwns, NEW t \in Threads,
                      pc[t] \notin { "Run", "SyncTask" }, waitMutex # None
               PROVE  GoesOn(t) \/ \E u \in Threads : waitMutex = u /\ GoesOn(u)
    BY DEF NobodyBlocksForGood, GoesOn, LockInv, TypeOK, Pc, DropPc, Holding
  <2>1. waitMutex \in Threads
    BY DEF LockInv, TypeOK
  <2> QED BY <2>1 DEF WaitMutexOwns, GoesOn
<1> QED BY <1>1, WaitMutexOwnsAlways, LockInvariant, PTL

(* How many steps a thread at a place has left at most, until it runs.     *)
StepsLeft(place) ==
  CASE place = "Run" -> 0
    [] place \in { "Awake", "TryHold", "TryForce" } -> 1
    [] place \in { "TryForceLocked", "SyncTask" } -> 2
    [] place = "Locked" -> 3
    [] place = "Woken" -> 4
    [] place = "Waiting" -> 5
    [] place = "Critical" -> 6
    [] OTHER -> 7

(* A step of a thread in the lock's code brings it nearer to its section.  *)
ThreadsAdvance ==
  \A t \in Threads :
    \/ pc[t] = "Run" \/ pc'[t] = pc[t]
    \/ StepsLeft(pc'[t]) < StepsLeft(pc[t])

LEMMA TryLockSteps ==
  ASSUME LockInv, NEW t \in Threads, NEW from, NEW trying, NEW done,
         TryLock(t, from, trying, done) \/ ForceLock(t, from, trying, done)
  PROVE  pc[t] = from /\ pc'[t] \in { trying, done }
BY DEF LockInv, TypeOK, TryLock, ForceLock, Goto

(* No thread goes round in the lock's code: the wait, the relock of the    *)
(* global mutex and its second attempt each come once, so a thread is back *)
(* in its section after seven steps at most.                               *)
THEOREM LockCodeIsLeft == Spec => [][ThreadsAdvance]_vars
<1>1. ASSUME LockInv, NEW t \in Threads, Proceed(t) \/ Acquire(t) \/ Begin(t)
      PROVE  ThreadsAdvance
  <2>1. \A u \in Threads \ {t} : pc'[u] = pc[u]
    BY <1>1, StepOfOne DEF OthersStay
  <2>2. t \in DOMAIN pc
    BY <1>1 DEF LockInv, TypeOK
  <2>3. ASSUME NEW trying \in TryPc, NEW done \in { "Run", "Awake" },
               trying = "TryForceLocked" <=> done = "Awake",
               TryLockFor(t, trying, done) \/ TryLockTimeout(t, trying, done)
        PROVE  StepsLeft(pc'[t]) < StepsLeft(pc[t])
    BY <2>2, <2>3 DEF TryLockFor, TryLockTimeout, Goto, TryPc, StepsLeft
  <2>4. CASE EndWait(t) \/ UnlockMutex(t) \/ Acquire(t)
    <3>1. StepsLeft(pc'[t]) < StepsLeft(pc[t])
      BY <2>2, <2>4 DEF EndWait, UnlockMutex, Acquire, LockMutex, Goto, StepsLeft
    <3> QED BY <2>1, <3>1 DEF ThreadsAdvance
  <2>5. CASE LeaveSafeWaitFor(t) \/ SyncTaskDone(t)
    <3>1. \/ pc[t] = "Locked" /\ pc'[t] \in { "TryForceLocked", "Awake" }
          \/ pc[t] = "SyncTask" /\ pc'[t] \in { "TryForce", "Run" }
      BY <1>1, <2>5, TryLockSteps DEF LeaveSafeWaitFor, SyncTaskDone
    <3>2. StepsLeft(pc'[t]) < StepsLeft(pc[t])
      BY <3>1 DEF StepsLeft
    <3> QED BY <2>1, <3>2 DEF ThreadsAdvance
  <2>6. CASE SafeWaitFor(t)
    <3>1. pc[t] = "Critical" /\ pc'[t] \in { "Waiting", "Locked" }
      BY <2>2, <2>6 DEF SafeWaitFor, Goto
    <3> QED BY <2>1, <3>1 DEF ThreadsAdvance, StepsLeft
  <2>7. CASE HoldLock(t) \/ LeaveHoldLock(t) \/ WantMutex(t) \/ PostVoidSyncTask(t)
    <3>1. pc[t] = "Run"
      BY <2>7 DEF HoldLock, TryLock, LeaveHoldLock, WantMutex, PostVoidSyncTask, Goto
    <3> QED BY <2>1, <3>1 DEF ThreadsAdvance
  <2>8. CASE \/ TryLockFor(t, "TryHold", "Run") \/ TryLockTimeout(t, "TryHold", "Run")
             \/ TryLockFor(t, "TryForce", "Run") \/ TryLockTimeout(t, "TryForce", "Run")
             \/ TryLockFor(t, "TryForceLocked", "Awake")
             \/ TryLockTimeout(t, "TryForceLocked", "Awake")
    <3>1. StepsLeft(pc'[t]) < StepsLeft(pc[t])
      BY <2>3, <2>8 DEF TryPc
    <3> QED BY <2>1, <3>1 DEF ThreadsAdvance
  <2> QED BY <1>1, <2>4, <2>5, <2>6, <2>7, <2>8 DEF Proceed, Begin
<1>2. LockInv /\ [Next]_vars => ThreadsAdvance
  BY <1>1 DEF Next, vars, ThreadsAdvance
<1> QED BY <1>2, LockInvariant, PTL DEF Spec
=============================================================================
