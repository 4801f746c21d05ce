------------------------------- MODULE ScbClient -------------------------------
(***************************************************************************)
(* Which SceneBoard (SCB) the display manager service serves.  Each user   *)
(* has an SCB process.  A new process connects with SetClient (a cold      *)
(* switch); one that is connected takes the screen back with SwitchUser (a *)
(* hot switch); both are synchronous calls, on an IPC thread each.  A      *)
(* process may die at any moment, and its call goes on; its death is told  *)
(* to a callback that first waits for a successor.                         *)
(*                                                                         *)
(* On a PC both calls may wait for the external screens first; the wait    *)
(* has a limit and is part of the time a call may take anyway.             *)
(***************************************************************************)
EXTENDS Naturals

CONSTANTS
  Users,
  NoUser,  \* user 0
  MaxScbs  \* bound: SCB processes ever started

ASSUME NobodyAssumption == NoUser \notin Users
ASSUME BoundAssumption == MaxScbs \in Nat

(* The processes, in the order they start in.                              *)
Scbs == 1 .. MaxScbs
NoScb == 0   \* INVALID_SCB_PID, a null proxy

VARIABLES
  user,                \* the user of each process, once it runs
  alive,               \* the processes that run
  call,                \* where the call of each process is
  clientProxy,         \* clientProxy_
  multiClientProxyMap, \* multiClientProxyMap_
  oldScbPids,          \* oldScbPids_
  current,             \* currentUserId_ and currentScbPId_
  settingsUser,        \* currentUserIdForSettings_
  watched,             \* the processes with a death recipient
  callback,            \* ScbClientDeathCallback of each process
  races                \* history: the races that have been run

processVars == <<user, alive>>
connectionVars == <<clientProxy, multiClientProxyMap, oldScbPids, current, settingsUser>>
deathVars == <<watched, callback>>
vars == <<processVars, call, connectionVars, deathVars, races>>

Init ==
  /\ user = [s \in Scbs |-> NoUser] /\ alive = {}
  /\ call = [s \in Scbs |-> "none"]
  /\ clientProxy = NoScb /\ multiClientProxyMap = [u \in Users |-> NoScb]
  /\ oldScbPids = {} /\ current = [user |-> NoUser, scb |-> NoScb]
  /\ settingsUser = NoUser
  /\ watched = {} /\ callback = [s \in Scbs |-> "none"]
  /\ races = {}

Move(s, from, to) == call[s] = from /\ call' = [call EXCEPT ![s] = to]
-----------------------------------------------------------------------------
(* The processes, which are the system's.  A user's SCB is started again   *)
(* only when it has died.                                                  *)
Start(s, u) ==
  /\ \A t \in 1 .. s - 1 : call[t] # "none"
  /\ \A t \in alive : user[t] # u
  /\ alive' = alive \cup {s}
  /\ user' = [user EXCEPT ![s] = u]

Die(s) ==
  /\ s \in alive
  /\ alive' = alive \ {s}
  /\ UNCHANGED <<user, call, connectionVars, deathVars, races>>
-----------------------------------------------------------------------------
(* SetClient, the first call of a process, stores the proxy, ...           *)
SetClient(s, u) ==
  /\ Start(s, u)
  /\ Move(s, "none", "proxySet")
  /\ clientProxy' = s
  /\ UNCHANGED <<multiClientProxyMap, oldScbPids, current, settingsUser,
                 deathVars, races>>

(* ... then whose it is, switches, ...                                     *)
SetClientUser(s) ==
  /\ Move(s, "proxySet", "cold")
  /\ settingsUser' = user[s]
  /\ UNCHANGED <<processVars, clientProxy, multiClientProxyMap, oldScbPids, current,
                 deathVars, races>>

(* ... and asks to be told of the death, in vain if the process has died   *)
(* already.                                                                *)
AddScbClientDeathRecipient(s) ==
  /\ Move(s, "handled", "connected")
  /\ watched' = IF s \in alive THEN watched \cup {s} ELSE watched
  /\ UNCHANGED <<processVars, connectionVars, callback, races>>

(* SwitchUser does nothing for the user who is there already.              *)
SwitchUser(s) ==
  /\ s \in alive /\ user[s] # current.user
  /\ Move(s, "connected", "hot")
  /\ settingsUser' = user[s]
  /\ UNCHANGED <<processVars, clientProxy, multiClientProxyMap, oldScbPids, current,
                 deathVars, races>>
-----------------------------------------------------------------------------
(* SwitchScbNodeHandle, under oldScbPidsMutex_, which a death callback     *)
(* holds between its check and what it does then.                          *)
Free == \A s \in Scbs : callback[s] # "checked"

(* Mutant: INVALID_SCB_PID is taken for a process.                         *)
OldPidsInvalid(s) == (oldScbPids \cup {current.scb}) \ {s}

(* The old processes are those that were current, but for the new one.     *)
OldPids(s) ==
  IF current.scb = NoScb THEN oldScbPids ELSE (oldScbPids \cup {current.scb}) \ {s}

(* Mutant: the proxy of the user is not fetched.                           *)
HotSwitchNothing(s) == clientProxy

(* The proxy of the user, unless he is there already.                      *)
HotSwitch(s) ==
  IF multiClientProxyMap[user[s]] # NoScb /\ user[s] # current.user
    THEN multiClientProxyMap[user[s]] ELSE clientProxy

(* scbSwitchCV_.notify_all                                                 *)
Woken == [s \in Scbs |-> IF callback[s] = "waiting" THEN "woken" ELSE callback[s]]

Switched(s) == current' = [user |-> user[s], scb |-> s] /\ callback' = Woken

(* Races: what this call has written is not there any more, because of     *)
(* another call or of a death callback; the caller is dead.                *)
Mixed(s) == settingsUser # user[s] \/ (call[s] = "cold" /\ clientProxy # s)

RacesRun(s) ==
  (IF Mixed(s) THEN {"mixed"} ELSE {}) \cup (IF s \notin alive THEN {"late"} ELSE {})

SwitchScbNodeHandle(s) ==
  /\ Free
  /\ oldScbPids' = OldPids(s)
  /\ races' = races \cup RacesRun(s)
  /\ UNCHANGED <<processVars, settingsUser, watched>>

(* Mutant: the proxy is not kept for a later hot switch.                   *)
KeepNoProxy(s) == UNCHANGED multiClientProxyMap

KeepProxy(s) ==
  multiClientProxyMap' = [multiClientProxyMap EXCEPT ![user[s]] = clientProxy]

ColdSwitch(s) ==
  /\ Move(s, "cold", "handled")
  /\ SwitchScbNodeHandle(s)
  /\ IF clientProxy = NoScb THEN UNCHANGED <<multiClientProxyMap, current, callback>>
     ELSE KeepProxy(s) /\ Switched(s)
  /\ UNCHANGED clientProxy

WarmSwitch(s) ==
  /\ Move(s, "hot", "connected")
  /\ SwitchScbNodeHandle(s)
  /\ IF clientProxy = NoScb THEN UNCHANGED <<clientProxy, current, callback>>
     ELSE clientProxy' = HotSwitch(s) /\ Switched(s)
  /\ UNCHANGED multiClientProxyMap
-----------------------------------------------------------------------------
(* ScbClientDeathCallback waits for a successor, without a predicate, ...  *)
ScbClientDeathCallback(s) ==
  /\ s \in watched \ alive /\ callback[s] = "none" /\ Free
  /\ callback' = [callback EXCEPT ![s] = "waiting"]
  /\ UNCHANGED <<processVars, call, connectionVars, watched, races>>

(* Mutant: the wait has no limit.                                          *)
WaitsForever(s) == FALSE /\ UNCHANGED vars

(* ... for some time only, ...                                             *)
WaitTimesOut(s) ==
  /\ callback[s] = "waiting"
  /\ callback' = [callback EXCEPT ![s] = "woken"]
  /\ races' = IF current.scb = s THEN races \cup {"gaveUp"} ELSE races
  /\ UNCHANGED <<processVars, call, connectionVars, watched>>

(* Mutant: the proxy is left to a successor.                               *)
IsOldProxy(s) == clientProxy = s /\ current.scb # s

IsProxy(s) == clientProxy = s

(* ... looks for a proxy to clear: its own, or anybody's while no process  *)
(* has been switched to, ...                                               *)
Clears(s) == IsProxy(s) \/ current.scb = NoScb

DeathCheck(s) ==
  /\ callback[s] = "woken" /\ Free /\ Clears(s)
  /\ callback' = [callback EXCEPT ![s] = "checked"]
  /\ UNCHANGED <<processVars, call, connectionVars, watched, races>>

End(s) ==
  /\ oldScbPids' = oldScbPids \ {s}
  /\ callback' = [callback EXCEPT ![s] = "done"]
  /\ UNCHANGED <<processVars, call, multiClientProxyMap, current, settingsUser, watched>>

(* ... and clears it, whosever it is by now, or leaves it alone.           *)
DeathClear(s) ==
  /\ callback[s] = "checked"
  /\ clientProxy' = NoScb
  /\ UNCHANGED races
  /\ End(s)

DeathLeave(s) ==
  /\ callback[s] = "woken" /\ Free /\ ~Clears(s)
  /\ UNCHANGED <<clientProxy, races>>
  /\ End(s)
-----------------------------------------------------------------------------
(* The thread of a call, and that of a death.                              *)
Call(s) ==
  SetClientUser(s) \/ ColdSwitch(s) \/ AddScbClientDeathRecipient(s) \/ WarmSwitch(s)

Callback(s) ==
  ScbClientDeathCallback(s) \/ WaitTimesOut(s) \/ DeathCheck(s) \/ DeathLeave(s)
    \/ DeathClear(s)

Next ==
  \E s \in Scbs :
    \/ \E u \in Users : SetClient(s, u)
    \/ Die(s) \/ SwitchUser(s) \/ Call(s) \/ Callback(s)

Spec == Init /\ [][Next]_vars

(* Threads go on, and the callback's wait has a limit.  The mutex is held  *)
(* once by each callback, so that weak fairness will do for it.  Nobody    *)
(* has to call or to die.                                                  *)
FairSpec == Spec /\ \A s \in Scbs : WF_vars(Call(s)) /\ WF_vars(Callback(s))
-----------------------------------------------------------------------------
Calls == { "none", "proxySet", "cold", "handled", "connected", "hot" }
Resting == { "none", "connected" }
Callbacks == { "none", "waiting", "woken", "checked", "done" }
Races == { "mixed", "late", "gaveUp" }

TypeOK ==
  /\ user \in [Scbs -> Users \cup {NoUser}] /\ alive \subseteq Scbs
  /\ call \in [Scbs -> Calls]
  /\ clientProxy \in Scbs \cup {NoScb}
  /\ multiClientProxyMap \in [Users -> Scbs \cup {NoScb}]
  /\ oldScbPids \subseteq Scbs
  /\ current \in [user : Users \cup {NoUser}, scb : Scbs \cup {NoScb}]
  /\ settingsUser \in Users \cup {NoUser}
  /\ watched \subseteq Scbs /\ callback \in [Scbs -> Callbacks]
  /\ races \subseteq Races

(* While the process that was switched to last lives and no other connects, *)
(* it is the one the service calls, whoever has died meanwhile; and when   *)
(* no call is under way at all, every other record names it too: the       *)
(* current user, the user of the settings; it is not among the old ones.   *)
LastCallWins ==
  current.scb \in alive /\ "mixed" \notin races =>
    /\ (\A s \in Scbs : call[s] \notin { "proxySet", "cold" }) =>
         clientProxy = current.scb
    /\ (\A s \in Scbs : call[s] \in Resting) =>
         /\ settingsUser = current.user /\ current.user = user[current.scb]
         /\ current.scb \notin oldScbPids

Connected == { "handled", "connected", "hot" }

(* A process that has connected and lives can be switched to: its user's   *)
(* proxy is its own, even if other users have come and gone.               *)
ConnectedAreKnown ==
  "mixed" \notin races =>
    \A s \in alive : call[s] \in Connected => multiClientProxyMap[user[s]] = s

(* The proxy of a process whose death has been dealt with is never the one *)
(* the service calls again; nor does its pid stay among the old ones, or   *)
(* get there later, which is what the callback waits for.                  *)
ProxyForgotten(s) == races \cap { "mixed", "late" } = {} => clientProxy # s
PidForgotten(s) == races \cap { "late", "gaveUp" } = {} => s \notin oldScbPids

DeadAreForgotten ==
  \A s \in Scbs : callback[s] = "done" => ProxyForgotten(s) /\ PidForgotten(s)

(* A death that was told is dealt with.                                    *)
DeathsAreHandled == \A s \in Scbs : s \in watched \ alive ~> callback[s] = "done"
=============================================================================
