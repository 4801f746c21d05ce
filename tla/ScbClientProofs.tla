--------------------------- MODULE ScbClientProofs ---------------------------
(***************************************************************************)
(* The safety properties of ScbClient, for any number of processes and of  *)
(* users.                                                                  *)
(*                                                                         *)
(* The argument: as long as no call has lost what it wrote, a proxy that   *)
(* is not its caller's any more can only be that of a process that is      *)
(* connecting (Checked), or one fetched for a user, and each user's is     *)
(* that of the one process of his that lives (Fetched, ConnectedAreKnown). *)
(* The last part follows a death callback from stage to stage.             *)
(***************************************************************************)
EXTENDS ScbClient, TLAPS

Connecting == { "proxySet", "cold" }
NobodyConnects == \A s \in Scbs : call[s] \notin Connecting
Unmixed == "mixed" \notin races

(* A process that has not called is named by nothing; a user has one       *)
(* process; a death callback is that of a dead process.                    *)
Newcomers ==
  \A s \in Scbs : call[s] = "none" =>
    /\ s \notin alive \cup watched \cup oldScbPids
    /\ callback[s] = "none" /\ current.scb # s /\ clientProxy # s
    /\ \A u \in Users : multiClientProxyMap[u] # s
Processes ==
  /\ \A s, t \in alive : user[s] = user[t] => s = t
  /\ \A s \in Scbs : call[s] # "none" => user[s] \in Users
  /\ \A s \in Scbs : callback[s] # "none" => s \notin alive

(* The current process has connected and is of the current user; before    *)
(* the first one, the proxy can only be that of a process that connects.   *)
CurrentConnected ==
  /\ current.scb = NoScb =>
       /\ current.user = NoUser /\ oldScbPids = {}
       /\ clientProxy # NoScb => call[clientProxy] \in Connecting
  /\ current.scb # NoScb =>
       call[current.scb] \in Connected /\ current.user = user[current.scb]

(* While a callback holds the mutex, the proxy is the one it has seen or   *)
(* that of a process that connects.                                        *)
Checked ==
  \A d \in Scbs : callback[d] = "checked" =>
    \/ clientProxy \in {d, NoScb}
    \/ clientProxy \in Scbs /\ call[clientProxy] \in Connecting

(* A user's proxy is that of a connected process of his.                   *)
Fetched ==
  Unmixed => \A u \in Users : multiClientProxyMap[u] # NoScb =>
    /\ call[multiClientProxyMap[u]] \in Connected
    /\ user[multiClientProxyMap[u]] = u

(* A process that connects and has the proxy is the only one of its user.  *)
OnlyOne ==
  Unmixed => \A t \in Scbs : call[t] \in Connecting /\ clientProxy = t =>
    \A s \in alive : user[s] = user[t] => call[s] \notin Connected

(* A hot switch for the current user finds its proxy in place.             *)
InPlace ==
  Unmixed /\ NobodyConnects => \A s \in alive :
    call[s] = "hot" /\ user[s] = current.user /\ settingsUser = user[s] =>
      clientProxy = s

(* LastCallWins, with what holds while hot switches are under way.         *)
Agreement ==
  Unmixed /\ NobodyConnects /\ current.scb \in alive =>
    /\ clientProxy = current.scb /\ current.scb \notin oldScbPids
    /\ (\A s \in Scbs : call[s] # "hot") => settingsUser = current.user

(* The current process has not been given up.                              *)
CurrentAwaited ==
  races \cap { "late", "gaveUp" } = {} /\ current.scb # NoScb =>
    callback[current.scb] \in { "none", "waiting" }

(* The two halves of DeadAreForgotten.                                     *)
ProxiesForgotten == \A s \in Scbs : callback[s] = "done" => ProxyForgotten(s)
PidsForgotten == \A s \in Scbs : callback[s] = "done" => PidForgotten(s)

Inv ==
  /\ TypeOK /\ Newcomers /\ Processes /\ CurrentConnected /\ Checked
  /\ Fetched /\ OnlyOne /\ ConnectedAreKnown /\ InPlace /\ Agreement
  /\ ProxiesForgotten /\ CurrentAwaited /\ PidsForgotten
-----------------------------------------------------------------------------
(* A null proxy is nobody's.                                               *)
LEMMA NobodyIsNoScb == NoScb \notin Scbs
BY BoundAssumption DEF NoScb, Scbs

(* The initial states.                                                     *)
LEMMA InitInv == Init => Inv
<1> SUFFICES ASSUME Init PROVE Inv
  OBVIOUS
<1> USE NobodyIsNoScb DEF Init
<1>1. TypeOK
  BY DEF TypeOK, Calls, Callbacks, Races
<1>2. Newcomers /\ Processes /\ CurrentConnected /\ Checked
  BY DEF Newcomers, Processes, CurrentConnected, Checked
<1>3. Fetched /\ OnlyOne /\ ConnectedAreKnown /\ InPlace /\ Agreement
  BY DEF Fetched, OnlyOne, ConnectedAreKnown, InPlace, Agreement, Connecting
<1>4. ProxiesForgotten /\ CurrentAwaited /\ PidsForgotten
  BY DEF ProxiesForgotten, CurrentAwaited, PidsForgotten
<1> QED
  BY <1>1, <1>2, <1>3, <1>4 DEF Inv

(* A new process takes the proxy; its user has no other that lives.        *)
LEMMA SetClientInv ==
  ASSUME NEW s \in Scbs, NEW u \in Users, Inv, SetClient(s, u)
  PROVE  Inv'
<1> USE NobodyIsNoScb DEF Inv, TypeOK,
     SetClient, Start, Move,
     processVars, connectionVars, deathVars
<1>1. TypeOK'
  BY DEF Calls, Callbacks, Races
<1>2. Newcomers'
  BY DEF Newcomers
<1>3. Processes'
  BY DEF Processes, Newcomers
<1>4. CurrentConnected'
  BY DEF CurrentConnected, Connected, Connecting
<1>5. Checked'
  BY DEF Checked, Connecting
<1>6. Fetched'
  BY DEF Fetched, Connected, Unmixed
<1>7. OnlyOne'
  BY DEF OnlyOne, Connecting, Connected, Unmixed
<1>8. ConnectedAreKnown'
  BY DEF ConnectedAreKnown, Connected
<1>9. InPlace'
  BY DEF InPlace, NobodyConnects, Connecting, Unmixed
<1>10. Agreement'
  BY DEF Agreement, NobodyConnects, Connecting, Unmixed
<1>11. ProxiesForgotten'
  BY DEF ProxiesForgotten, ProxyForgotten, Newcomers
<1>12. CurrentAwaited'
  BY DEF CurrentAwaited
<1>13. PidsForgotten'
  BY DEF PidsForgotten, PidForgotten
<1> QED
  BY <1>1, <1>2, <1>3, <1>4, <1>5, <1>6, <1>7, <1>8, <1>9,
     <1>10, <1>11, <1>12, <1>13 DEF Inv

(* A process dies: there is less to show.                                  *)
LEMMA DieInv ==
  ASSUME NEW s \in Scbs, Inv, Die(s)
  PROVE  Inv'
<1> USE NobodyIsNoScb DEF Inv, TypeOK,
     Die,
     processVars, connectionVars, deathVars
<1>1. TypeOK'
  BY DEF Calls, Callbacks, Races
<1>2. Newcomers'
  BY DEF Newcomers
<1>3. Processes'
  BY DEF Processes
<1>4. CurrentConnected'
  BY DEF CurrentConnected, Connected, Connecting
<1>5. Checked'
  BY DEF Checked, Connecting
<1>6. Fetched'
  BY DEF Fetched, Connected, Unmixed
<1>7. OnlyOne'
  BY DEF OnlyOne, Connecting, Connected, Unmixed
<1>8. ConnectedAreKnown'
  BY DEF ConnectedAreKnown, Connected
<1>9. InPlace'
  BY DEF InPlace, NobodyConnects, Connecting, Unmixed
<1>10. Agreement'
  BY DEF Agreement, NobodyConnects, Connecting, Unmixed
<1>11. ProxiesForgotten'
  BY DEF ProxiesForgotten, ProxyForgotten
<1>12. CurrentAwaited'
  BY DEF CurrentAwaited
<1>13. PidsForgotten'
  BY DEF PidsForgotten, PidForgotten
<1> QED
  BY <1>1, <1>2, <1>3, <1>4, <1>5, <1>6, <1>7, <1>8, <1>9,
     <1>10, <1>11, <1>12, <1>13 DEF Inv

(* The thread that connects writes the user of the settings.               *)
LEMMA SetClientUserInv ==
  ASSUME NEW s \in Scbs, Inv, SetClientUser(s)
  PROVE  Inv'
<1> USE NobodyIsNoScb DEF Inv, TypeOK,
     SetClientUser, Move,
     processVars, connectionVars, deathVars
<1>1. TypeOK'
  BY DEF Calls, Callbacks, Races
<1>2. Newcomers'
  BY DEF Newcomers
<1>3. Processes'
  BY DEF Processes
<1>4. CurrentConnected'
  BY DEF CurrentConnected, Connected, Connecting
<1>5. Checked'
  BY DEF Checked, Connecting
<1>6. Fetched'
  BY DEF Fetched, Connected, Unmixed
<1>7. OnlyOne'
  BY DEF OnlyOne, Connecting, Connected, Unmixed
<1>8. ConnectedAreKnown'
  BY DEF ConnectedAreKnown, Connected
<1>9. InPlace'
  BY DEF InPlace, NobodyConnects, Connecting, Unmixed
<1>10. Agreement'
  BY DEF Agreement, NobodyConnects, Connecting, Unmixed
<1>11. ProxiesForgotten'
  BY DEF ProxiesForgotten, ProxyForgotten
<1>12. CurrentAwaited'
  BY DEF CurrentAwaited
<1>13. PidsForgotten'
  BY DEF PidsForgotten, PidForgotten
<1> QED
  BY <1>1, <1>2, <1>3, <1>4, <1>5, <1>6, <1>7, <1>8, <1>9,
     <1>10, <1>11, <1>12, <1>13 DEF Inv

(* The call ends; only a process that lives is watched.                    *)
LEMMA AddScbClientDeathRecipientInv ==
  ASSUME NEW s \in Scbs, Inv, AddScbClientDeathRecipient(s)
  PROVE  Inv'
<1> USE NobodyIsNoScb DEF Inv, TypeOK,
     AddScbClientDeathRecipient, Move,
     processVars, connectionVars, deathVars
<1>1. TypeOK'
  BY DEF Calls, Callbacks, Races
<1>2. Newcomers'
  BY DEF Newcomers
<1>3. Processes'
  BY DEF Processes
<1>4. CurrentConnected'
  BY DEF CurrentConnected, Connected, Connecting
<1>5. Checked'
  BY DEF Checked, Connecting
<1>6. Fetched'
  BY DEF Fetched, Connected, Unmixed
<1>7. OnlyOne'
  BY DEF OnlyOne, Connecting, Connected, Unmixed
<1>8. ConnectedAreKnown'
  BY DEF ConnectedAreKnown, Connected
<1>9. InPlace'
  BY DEF InPlace, NobodyConnects, Connecting, Unmixed
<1>10. Agreement'
  BY DEF Agreement, NobodyConnects, Connecting, Unmixed
<1>11. ProxiesForgotten'
  BY DEF ProxiesForgotten, ProxyForgotten
<1>12. CurrentAwaited'
  BY DEF CurrentAwaited
<1>13. PidsForgotten'
  BY DEF PidsForgotten, PidForgotten
<1> QED
  BY <1>1, <1>2, <1>3, <1>4, <1>5, <1>6, <1>7, <1>8, <1>9,
     <1>10, <1>11, <1>12, <1>13 DEF Inv

(* A hot switch begins; its user is not the current one.                   *)
LEMMA SwitchUserInv ==
  ASSUME NEW s \in Scbs, Inv, SwitchUser(s)
  PROVE  Inv'
<1> USE NobodyIsNoScb DEF Inv, TypeOK,
     SwitchUser, Move,
     processVars, connectionVars, deathVars
<1>1. TypeOK'
  BY DEF Calls, Callbacks, Races
<1>2. Newcomers'
  BY DEF Newcomers
<1>3. Processes'
  BY DEF Processes
<1>4. CurrentConnected'
  BY DEF CurrentConnected, Connected, Connecting
<1>5. Checked'
  BY DEF Checked, Connecting
<1>6. Fetched'
  BY DEF Fetched, Connected, Unmixed
<1>7. OnlyOne'
  BY DEF OnlyOne, Connecting, Connected, Unmixed
<1>8. ConnectedAreKnown'
  BY DEF ConnectedAreKnown, Connected
<1>9. InPlace'
  BY DEF InPlace, NobodyConnects, Connecting, Unmixed
<1>10. Agreement'
  BY DEF Agreement, NobodyConnects, Connecting, Unmixed
<1>11. ProxiesForgotten'
  BY DEF ProxiesForgotten, ProxyForgotten
<1>12. CurrentAwaited'
  BY DEF CurrentAwaited
<1>13. PidsForgotten'
  BY DEF PidsForgotten, PidForgotten
<1> QED
  BY <1>1, <1>2, <1>3, <1>4, <1>5, <1>6, <1>7, <1>8, <1>9,
     <1>10, <1>11, <1>12, <1>13 DEF Inv

(* The proxy is that of the process, or the call has been overtaken by     *)
(* another or by a death (mixed).                                          *)
LEMMA ColdSwitchInv ==
  ASSUME NEW s \in Scbs, Inv, ColdSwitch(s)
  PROVE  Inv'
<1> USE NobodyIsNoScb DEF Inv, TypeOK,
     ColdSwitch, SwitchScbNodeHandle, KeepProxy, Switched, Woken,
     RacesRun, Mixed, OldPids, Free, Move,
     processVars, connectionVars, deathVars
<1>1. TypeOK'
  BY DEF Calls, Callbacks, Races
<1>2. Newcomers'
  BY DEF Newcomers
<1>3. Processes'
  BY DEF Processes
<1>4. CurrentConnected'
  BY DEF CurrentConnected, Connected, Connecting
<1>5. Checked'
  BY DEF Checked, Connecting
<1>6. Fetched'
  BY DEF Fetched, Connected, Unmixed
<1>7. OnlyOne'
  BY DEF OnlyOne, Connecting, Connected, Unmixed
<1>8. ConnectedAreKnown'
  BY DEF ConnectedAreKnown, Connected, OnlyOne, Connecting, Unmixed, Processes
<1>9. InPlace'
  BY DEF InPlace, NobodyConnects, Connecting, Unmixed, OnlyOne, Connected,
          Processes
<1>10. Agreement'
  BY DEF Agreement, NobodyConnects, Connecting, Unmixed, CurrentConnected,
          Connected
<1>11. ProxiesForgotten'
  BY DEF ProxiesForgotten, ProxyForgotten
<1>12. CurrentAwaited'
  BY DEF CurrentAwaited, Processes
<1>13. PidsForgotten'
  BY DEF PidsForgotten, PidForgotten, CurrentAwaited
<1> QED
  BY <1>1, <1>2, <1>3, <1>4, <1>5, <1>6, <1>7, <1>8, <1>9,
     <1>10, <1>11, <1>12, <1>13 DEF Inv

(* A process that lives finds its proxy in the map or, when its user is    *)
(* current already, in place.                                              *)
LEMMA WarmSwitchInv ==
  ASSUME NEW s \in Scbs, Inv, WarmSwitch(s)
  PROVE  Inv'
<1> USE NobodyIsNoScb DEF Inv, TypeOK,
     WarmSwitch, SwitchScbNodeHandle, HotSwitch, Switched, Woken,
     RacesRun, Mixed, OldPids, Free, Move,
     processVars, connectionVars, deathVars
<1>1. TypeOK'
  BY DEF Calls, Callbacks, Races, Processes
<1>2. Newcomers'
  BY DEF Newcomers, Processes
<1>3. Processes'
  BY DEF Processes
<1>4. CurrentConnected'
  BY DEF CurrentConnected, Connected, Connecting
<1>5. Checked'
  BY DEF Checked, Connecting
<1>6. Fetched'
  BY DEF Fetched, Connected, Unmixed
<1>7. OnlyOne'
  BY DEF OnlyOne, Connecting, Connected, Unmixed, Fetched, Processes
<1>8. ConnectedAreKnown'
  BY DEF ConnectedAreKnown, Connected
<1>9. InPlace'
  BY DEF InPlace, NobodyConnects, Connecting, Unmixed, ConnectedAreKnown,
          Connected, Processes
<1>10. Agreement'
  BY DEF Agreement, NobodyConnects, Connecting, Unmixed, InPlace,
          CurrentConnected, ConnectedAreKnown, Connected, Processes
<1>11. ProxiesForgotten'
  BY DEF ProxiesForgotten, ProxyForgotten, ConnectedAreKnown, Connected,
          Processes
<1>12. CurrentAwaited'
  BY DEF CurrentAwaited, Processes
<1>13. PidsForgotten'
  BY DEF PidsForgotten, PidForgotten, CurrentAwaited
<1> QED
  BY <1>1, <1>2, <1>3, <1>4, <1>5, <1>6, <1>7, <1>8, <1>9,
     <1>10, <1>11, <1>12, <1>13 DEF Inv

(* The callback waits; nobody holds the mutex.                             *)
LEMMA ScbClientDeathCallbackInv ==
  ASSUME NEW s \in Scbs, Inv, ScbClientDeathCallback(s)
  PROVE  Inv'
<1> USE NobodyIsNoScb DEF Inv, TypeOK,
     ScbClientDeathCallback,
     processVars, connectionVars, deathVars
<1>1. TypeOK'
  BY DEF Calls, Callbacks, Races
<1>2. Newcomers'
  BY DEF Newcomers
<1>3. Processes'
  BY DEF Processes
<1>4. CurrentConnected'
  BY DEF CurrentConnected, Connected, Connecting
<1>5. Checked'
  BY DEF Checked, Connecting
<1>6. Fetched'
  BY DEF Fetched, Connected, Unmixed
<1>7. OnlyOne'
  BY DEF OnlyOne, Connecting, Connected, Unmixed
<1>8. ConnectedAreKnown'
  BY DEF ConnectedAreKnown, Connected
<1>9. InPlace'
  BY DEF InPlace, NobodyConnects, Connecting, Unmixed
<1>10. Agreement'
  BY DEF Agreement, NobodyConnects, Connecting, Unmixed
<1>11. ProxiesForgotten'
  BY DEF ProxiesForgotten, ProxyForgotten
<1>12. CurrentAwaited'
  BY DEF CurrentAwaited
<1>13. PidsForgotten'
  BY DEF PidsForgotten, PidForgotten
<1> QED
  BY <1>1, <1>2, <1>3, <1>4, <1>5, <1>6, <1>7, <1>8, <1>9,
     <1>10, <1>11, <1>12, <1>13 DEF Inv

(* The wait ends: the current process may be given up.                     *)
LEMMA WaitTimesOutInv ==
  ASSUME NEW s \in Scbs, Inv, WaitTimesOut(s)
  PROVE  Inv'
<1> USE NobodyIsNoScb DEF Inv, TypeOK,
     WaitTimesOut,
     processVars, connectionVars, deathVars
<1>1. TypeOK'
  BY DEF Calls, Callbacks, Races
<1>2. Newcomers'
  BY DEF Newcomers
<1>3. Processes'
  BY DEF Processes
<1>4. CurrentConnected'
  BY DEF CurrentConnected, Connected, Connecting
<1>5. Checked'
  BY DEF Checked, Connecting
<1>6. Fetched'
  BY DEF Fetched, Connected, Unmixed
<1>7. OnlyOne'
  BY DEF OnlyOne, Connecting, Connected, Unmixed
<1>8. ConnectedAreKnown'
  BY DEF ConnectedAreKnown, Connected
<1>9. InPlace'
  BY DEF InPlace, NobodyConnects, Connecting, Unmixed
<1>10. Agreement'
  BY DEF Agreement, NobodyConnects, Connecting, Unmixed
<1>11. ProxiesForgotten'
  BY DEF ProxiesForgotten, ProxyForgotten
<1>12. CurrentAwaited'
  BY DEF CurrentAwaited
<1>13. PidsForgotten'
  BY DEF PidsForgotten, PidForgotten
<1> QED
  BY <1>1, <1>2, <1>3, <1>4, <1>5, <1>6, <1>7, <1>8, <1>9,
     <1>10, <1>11, <1>12, <1>13 DEF Inv

(* The proxy that is to be cleared is the dead process's or, with nobody   *)
(* current, that of a process that connects.                               *)
LEMMA DeathCheckInv ==
  ASSUME NEW s \in Scbs, Inv, DeathCheck(s)
  PROVE  Inv'
<1> USE NobodyIsNoScb DEF Inv, TypeOK,
     DeathCheck, Clears, IsProxy, Free,
     processVars, connectionVars, deathVars
<1>1. TypeOK'
  BY DEF Calls, Callbacks, Races
<1>2. Newcomers'
  BY DEF Newcomers
<1>3. Processes'
  BY DEF Processes
<1>4. CurrentConnected'
  BY DEF CurrentConnected, Connected, Connecting
<1>5. Checked'
  BY DEF Checked, CurrentConnected, Connecting
<1>6. Fetched'
  BY DEF Fetched, Connected, Unmixed
<1>7. OnlyOne'
  BY DEF OnlyOne, Connecting, Connected, Unmixed
<1>8. ConnectedAreKnown'
  BY DEF ConnectedAreKnown, Connected
<1>9. InPlace'
  BY DEF InPlace, NobodyConnects, Connecting, Unmixed
<1>10. Agreement'
  BY DEF Agreement, NobodyConnects, Connecting, Unmixed
<1>11. ProxiesForgotten'
  BY DEF ProxiesForgotten, ProxyForgotten
<1>12. CurrentAwaited'
  BY DEF CurrentAwaited
<1>13. PidsForgotten'
  BY DEF PidsForgotten, PidForgotten
<1> QED
  BY <1>1, <1>2, <1>3, <1>4, <1>5, <1>6, <1>7, <1>8, <1>9,
     <1>10, <1>11, <1>12, <1>13 DEF Inv

(* What is cleared was the dead process's, or is that of a process that    *)
(* connects and now is mixed.                                              *)
LEMMA DeathClearInv ==
  ASSUME NEW s \in Scbs, Inv, DeathClear(s)
  PROVE  Inv'
<1> USE NobodyIsNoScb DEF Inv, TypeOK,
     DeathClear, End,
     processVars, connectionVars, deathVars
<1>1. TypeOK'
  BY DEF Calls, Callbacks, Races
<1>2. Newcomers'
  BY DEF Newcomers
<1>3. Processes'
  BY DEF Processes
<1>4. CurrentConnected'
  BY DEF CurrentConnected, Connected, Connecting
<1>5. Checked'
  BY DEF Checked, Connecting
<1>6. Fetched'
  BY DEF Fetched, Connected, Unmixed
<1>7. OnlyOne'
  BY DEF OnlyOne, Connecting, Connected, Unmixed
<1>8. ConnectedAreKnown'
  BY DEF ConnectedAreKnown, Connected
<1>9. InPlace'
  BY DEF InPlace, NobodyConnects, Connecting, Unmixed, Checked, Processes
<1>10. Agreement'
  BY DEF Agreement, NobodyConnects, Connecting, Unmixed, Checked, Processes
<1>11. ProxiesForgotten'
  BY DEF ProxiesForgotten, ProxyForgotten
<1>12. CurrentAwaited'
  BY DEF CurrentAwaited
<1>13. PidsForgotten'
  BY DEF PidsForgotten, PidForgotten
<1> QED
  BY <1>1, <1>2, <1>3, <1>4, <1>5, <1>6, <1>7, <1>8, <1>9,
     <1>10, <1>11, <1>12, <1>13 DEF Inv

(* The proxy is not the dead process's, and stays.                         *)
LEMMA DeathLeaveInv ==
  ASSUME NEW s \in Scbs, Inv, DeathLeave(s)
  PROVE  Inv'
<1> USE NobodyIsNoScb DEF Inv, TypeOK,
     DeathLeave, End, Clears, IsProxy, Free,
     processVars, connectionVars, deathVars
<1>1. TypeOK'
  BY DEF Calls, Callbacks, Races
<1>2. Newcomers'
  BY DEF Newcomers
<1>3. Processes'
  BY DEF Processes
<1>4. CurrentConnected'
  BY DEF CurrentConnected, Connected, Connecting
<1>5. Checked'
  BY DEF Checked, Connecting
<1>6. Fetched'
  BY DEF Fetched, Connected, Unmixed
<1>7. OnlyOne'
  BY DEF OnlyOne, Connecting, Connected, Unmixed
<1>8. ConnectedAreKnown'
  BY DEF ConnectedAreKnown, Connected
<1>9. InPlace'
  BY DEF InPlace, NobodyConnects, Connecting, Unmixed
<1>10. Agreement'
  BY DEF Agreement, NobodyConnects, Connecting, Unmixed
<1>11. ProxiesForgotten'
  BY DEF ProxiesForgotten, ProxyForgotten
<1>12. CurrentAwaited'
  BY DEF CurrentAwaited
<1>13. PidsForgotten'
  BY DEF PidsForgotten, PidForgotten
<1> QED
  BY <1>1, <1>2, <1>3, <1>4, <1>5, <1>6, <1>7, <1>8, <1>9,
     <1>10, <1>11, <1>12, <1>13 DEF Inv

(* Every step, and the system at rest.                                     *)
LEMMA NextInv == Inv /\ [Next]_vars => Inv'
<1> SUFFICES ASSUME Inv, [Next]_vars PROVE Inv'
  OBVIOUS
<1>1. CASE UNCHANGED vars
  BY <1>1 DEF Inv, vars, processVars, connectionVars, deathVars, TypeOK,
    Newcomers, Processes, CurrentConnected, Checked, Fetched, OnlyOne,
    ConnectedAreKnown,
    InPlace, Agreement, ProxiesForgotten, ProxyForgotten, CurrentAwaited,
    PidsForgotten, PidForgotten, Connecting, NobodyConnects, Unmixed
<1>2. CASE Next
  <2> PICK s \in Scbs :
        \/ \E u \in Users : SetClient(s, u)
        \/ Die(s) \/ SwitchUser(s) \/ Call(s) \/ Callback(s)
    BY <1>2 DEF Next
  <2>1. CASE \E u \in Users : SetClient(s, u)
    BY <2>1, SetClientInv
  <2>2. CASE Die(s)
    BY <2>2, DieInv
  <2>3. CASE SwitchUser(s)
    BY <2>3, SwitchUserInv
  <2>4. CASE Call(s)
    BY <2>4, SetClientUserInv, ColdSwitchInv, AddScbClientDeathRecipientInv,
       WarmSwitchInv DEF Call
  <2>5. CASE Callback(s)
    BY <2>5, ScbClientDeathCallbackInv, WaitTimesOutInv, DeathCheckInv,
       DeathLeaveInv, DeathClearInv DEF Callback
  <2> QED
    BY <2>1, <2>2, <2>3, <2>4, <2>5
<1> QED
  BY <1>1, <1>2

(* The invariant of every behaviour.                                       *)
THEOREM ScbClientInvariant == Spec => []Inv
<1> QED
  BY InitInv, NextInv, PTL DEF Spec
-----------------------------------------------------------------------------
(* Pids, users and states stay in their sets: in particular no death takes *)
(* INVALID_SCB_PID for a process.                                          *)
THEOREM TypeCorrect == Spec => []TypeOK
<1>1. Inv => TypeOK
  BY DEF Inv
<1> QED
  BY <1>1, ScbClientInvariant, PTL

(* The service calls the process it switched to last, however the deaths   *)
(* of others and the calls overlap, unless one call has overwritten what   *)
(* another had stored.                                                     *)
THEOREM ServesTheLastCall == Spec => []LastCallWins
<1>1. Inv => LastCallWins
  <2> SUFFICES ASSUME Inv, current.scb \in alive, Unmixed PROVE
        /\ NobodyConnects => clientProxy = current.scb
        /\ (\A s \in Scbs : call[s] \in Resting) =>
             /\ settingsUser = current.user /\ current.user = user[current.scb]
             /\ current.scb \notin oldScbPids
    BY DEF LastCallWins, Unmixed, NobodyConnects, Connecting
  <2>1. NobodyConnects => clientProxy = current.scb
    BY DEF Inv, Agreement
  <2>2. ASSUME \A s \in Scbs : call[s] \in Resting
        PROVE  /\ settingsUser = current.user
               /\ current.user = user[current.scb]
               /\ current.scb \notin oldScbPids
    <3>1. NobodyConnects /\ \A s \in Scbs : call[s] # "hot"
      BY <2>2 DEF NobodyConnects, Connecting, Resting
    <3>2. current.scb # NoScb
      BY NobodyIsNoScb DEF Inv, TypeOK
    <3> QED
      BY <3>1, <3>2 DEF Inv, Agreement, CurrentConnected
  <2> QED
    BY <2>1, <2>2
<1> QED
  BY <1>1, ScbClientInvariant, PTL

(* The user of a connected process that lives can be switched to.          *)
THEOREM CanBeSwitchedTo == Spec => []ConnectedAreKnown
<1>1. Inv => ConnectedAreKnown
  BY DEF Inv
<1> QED
  BY <1>1, ScbClientInvariant, PTL

(* The proxy of a process whose death has been dealt with is never called, *)
(* and no next scene board is told of its pid.                             *)
THEOREM DeadStayForgotten == Spec => []DeadAreForgotten
<1>1. Inv => DeadAreForgotten
  BY DEF Inv, ProxiesForgotten, PidsForgotten, DeadAreForgotten
<1> QED
  BY <1>1, ScbClientInvariant, PTL
-----------------------------------------------------------------------------
(* What DeathsAreHandled needs besides fairness: a death that was told     *)
(* stays one, its callback never goes back, and the mutex that it may have *)
(* to wait for is held by one other callback, which can always let go.     *)
Told(s) == s \in watched \ alive

Stage == [c \in Callbacks |->
  CASE c = "none" -> 0 [] c = "waiting" -> 1 [] c = "woken" -> 2
    [] c = "checked" -> 3 [] OTHER -> 4]

DeathAdvances(s) ==
  /\ Told(s) => Told(s)'
  /\ callback'[s] # callback[s] =>
       Stage[callback'[s]] > Stage[callback[s]] /\ (callback[s] = "none" => Told(s))

DeathsAdvance == \A s \in Scbs : DeathAdvances(s)

(* oldScbPidsMutex_ is one mutex: two death callbacks are never both past  *)
(* their check.                                                            *)
OneChecks ==
  \A s, t \in Scbs : callback[s] = "checked" /\ callback[t] = "checked" => s = t

(* The stages as numbers.                                                  *)
LEMMA Stages ==
  /\ Stage["none"] = 0 /\ Stage["waiting"] = 1 /\ Stage["woken"] = 2
  /\ Stage["checked"] = 3 /\ Stage["done"] = 4
BY DEF Stage, Callbacks

(* A step of one callback leaves the others where they are.                *)
LEMMA CallbackAdvances ==
  ASSUME TypeOK, NEW s \in Scbs, Callback(s)
  PROVE  /\ DeathsAdvance
         /\ OneChecks => OneChecks'
<1>1. /\ callback' = [callback EXCEPT ![s] = callback'[s]]
      /\ callback[s] # callback'[s]
      /\ watched' = watched /\ alive' = alive
      /\ callback'[s] = "checked" => Free
  BY DEF TypeOK, Callback, ScbClientDeathCallback, WaitTimesOut, DeathCheck, DeathLeave,
         DeathClear, End, processVars
<1>2. /\ Stage[callback'[s]] > Stage[callback[s]]
      /\ callback[s] = "none" => Told(s)
  <2>1. \/ callback[s] = "none" /\ callback'[s] = "waiting" /\ s \in watched \ alive
        \/ callback[s] = "waiting" /\ callback'[s] = "woken"
        \/ callback[s] = "woken" /\ callback'[s] \in { "checked", "done" }
        \/ callback[s] = "checked" /\ callback'[s] = "done"
    BY DEF TypeOK, Callback, ScbClientDeathCallback, WaitTimesOut, DeathCheck,
           DeathLeave, DeathClear, End
  <2> QED
    BY <2>1, Stages DEF Told
<1>3. \A t \in Scbs : t # s => callback'[t] = callback[t]
  BY <1>1 DEF TypeOK
<1>4. DeathsAdvance
  BY <1>1, <1>2, <1>3 DEF DeathsAdvance, DeathAdvances, Told
<1>5. OneChecks => OneChecks'
  BY <1>1, <1>3 DEF OneChecks, Free
<1> QED
  BY <1>4, <1>5

(* scbSwitchCV_.notify_all wakes callbacks that wait, and no others.       *)
LEMMA WokenAdvances ==
  ASSUME TypeOK, callback' \in {callback, Woken}, watched \subseteq watched',
         \A s \in watched : s \notin alive => s \notin alive'
  PROVE  /\ DeathsAdvance
         /\ OneChecks => OneChecks'
<1>1. \A t \in Scbs : \/ callback'[t] = callback[t]
                      \/ callback[t] = "waiting" /\ callback'[t] = "woken"
  BY DEF TypeOK, Woken
<1>2. DeathsAdvance
  BY <1>1, Stages DEF DeathsAdvance, DeathAdvances, Told
<1>3. OneChecks => OneChecks'
  BY <1>1 DEF OneChecks
<1> QED
  BY <1>2, <1>3

(* Processes come, call and die: no new one has been watched before.       *)
LEMMA NextAdvances ==
  Inv /\ [Next]_vars => [DeathsAdvance]_vars /\ (OneChecks => OneChecks')
<1> SUFFICES ASSUME Inv, [Next]_vars
             PROVE  [DeathsAdvance]_vars /\ (OneChecks => OneChecks')
  OBVIOUS
<1>1. TypeOK /\ Newcomers
  BY DEF Inv
<1>2. CASE UNCHANGED vars
  BY <1>2 DEF vars, deathVars, OneChecks
<1>3. ASSUME NEW s \in Scbs, NEW u \in Users, SetClient(s, u)
      PROVE  DeathsAdvance /\ (OneChecks => OneChecks')
  <2>1. callback' = callback /\ watched' = watched /\ alive' = alive \cup {s}
    BY <1>3 DEF SetClient, Start, deathVars
  <2>2. s \notin watched
    BY <1>1, <1>3 DEF SetClient, Move, Newcomers
  <2> QED
    BY <1>1, <2>1, <2>2, WokenAdvances
<1>4. ASSUME NEW s \in Scbs, Die(s) \/ SwitchUser(s) \/ Call(s)
      PROVE  DeathsAdvance /\ (OneChecks => OneChecks')
  <2>1. /\ callback' \in {callback, Woken} /\ watched \subseteq watched'
        /\ alive' \subseteq alive
    BY <1>4 DEF Die, SwitchUser, Call, SetClientUser, ColdSwitch, WarmSwitch,
                AddScbClientDeathRecipient, SwitchScbNodeHandle, Switched,
                processVars, deathVars
  <2> QED
    BY <1>1, <2>1, WokenAdvances
<1>5. ASSUME NEW s \in Scbs, Callback(s)
      PROVE  DeathsAdvance /\ (OneChecks => OneChecks')
  BY <1>1, <1>5, CallbackAdvances
<1> QED
  BY <1>2, <1>3, <1>4, <1>5 DEF Next

(* Death callbacks hold the mutex one at a time.                           *)
THEOREM OneCallbackHoldsTheMutex == Spec => []OneChecks
<1>1. Init => OneChecks
  BY DEF Init, OneChecks
<1> QED
  BY <1>1, NextAdvances, ScbClientInvariant, PTL DEF Spec

(* A death that was told stays told, since no pid comes back, and its      *)
(* callback takes at most four steps, whatever the others do.              *)
THEOREM DeathCallbacksAdvance == Spec => [][DeathsAdvance]_vars
BY NextAdvances, ScbClientInvariant, PTL DEF Spec
=============================================================================
