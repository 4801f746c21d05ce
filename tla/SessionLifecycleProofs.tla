------------------------ MODULE SessionLifecycleProofs ------------------------
(***************************************************************************)
(* The safety of the session life cycle for any number of clients,         *)
(* requests and crashes.                                                   *)
(*                                                                         *)
(* Three arguments.  The order of the handler's queue: a client's job that *)
(* is not posted late has nobody else's connection ahead of it.  The       *)
(* connection of a new client: from the reset until its Connect has run    *)
(* the session stays as the reset has left it, and each client connects    *)
(* once.  And the agreement of the session with its client's window: as    *)
(* long as no race has been run, the window is as the client's last        *)
(* request on its way says, and the session follows it when that request   *)
(* is carried out.                                                         *)
(***************************************************************************)
EXTENDS SessionLifecycle, TLAPS

Sessions == [ state : States, isActive : BOOLEAN, isTerminating : BOOLEAN,
              callingPid : AnyOne, token : AnyOne, stage : AnyOne ]

Jobs == [ do : SceneBoardJobs, by : {NoOne}, behind : {FALSE} ]
        \cup [ do : Joins, by : Clients, behind : {FALSE} ]
        \cup [ do : ClientJobs, by : Clients, behind : BOOLEAN ]

(* A client's job that is not behind a connection belongs to the present   *)
(* one, and no other client joins ahead of it.                             *)
Orderly(jobs, pid) ==
  \A i \in 1 .. Len(jobs) : jobs[i].do \in ClientJobs /\ ~jobs[i].behind =>
    /\ pid \in { jobs[i].by, NoOne }
    /\ \A k \in 1 .. Len(jobs) : k < i /\ jobs[k].do \in Joins => jobs[k].by = jobs[i].by

(* A call that has passed its check comes from the session's client unless *)
(* it is late.                                                             *)
PassedInTime == \A c \in Clients : Passed(c) /\ c \notin late => session.callingPid = c

JoinsOf(jobs, c) == { i \in 1 .. Len(jobs) : jobs[i].do \in Joins /\ jobs[i].by = c }

(* A client has at most one connection on its way, and none before it is   *)
(* launched and created.                                                   *)
JoinsOnce(jobs, phases) ==
  /\ \A c \in Clients : \A i, k \in JoinsOf(jobs, c) : i = k
  /\ \A c \in Clients : phases[c] \in { "NONE", "LAUNCHED" } => JoinsOf(jobs, c) = {}

ToConnect(jobs, c) == \E i \in 1 .. Len(jobs) : jobs[i].do = "Connect" /\ jobs[i].by = c

(* Until the client of a cold start has connected, the session is as the   *)
(* reset has left it.                                                      *)
Untouched(s, tags) ==
  \/ "lateRecovery" \in tags
  \/ s.state = "DISCONNECT" /\ (s.isActive => "leftover" \in tags)

KeptForConnect ==
  \A c \in Clients :
    session.token = c /\ (phase[c] = "LAUNCHED" \/ ToConnect(handler, c)) =>
      Untouched(session, races)

(* The clients SceneBoard knows of have been launched, and those that were *)
(* launched before a crash are not expected after it.                      *)
LaunchedIsKnown ==
  /\ \A c \in Clients : session.token = c => phase[c] # "NONE"
  /\ \A c \in cut : phase[c] # "NONE" /\ (phase[c] = "LAUNCHED" => session.token # c)
  /\ launched # NoOne =>
       /\ startCall # "idle" /\ launched \notin cut
       /\ phase[launched] \in { "LAUNCHED", "CONNECTING", "DEAD" }

(* Who calls Foreground has created a window.                              *)
CallersHaveWindows ==
  \A c \in Clients :
    calling[c] # "no" => phase[c] \notin { "NONE", "LAUNCHED", "CONNECTING", "FAILED" }

Inv ==
  /\ TypeOK
  /\ Orderly(handler, session.callingPid) /\ PassedInTime
  /\ JoinsOnce(handler, phase) /\ KeptForConnect /\ LaunchedIsKnown
  /\ CallersHaveWindows
  /\ ActiveFlagAgrees /\ ExpectedConnects
-----------------------------------------------------------------------------
(* The handler's queue.                                                    *)
LEMMA TailIs ==
  ASSUME NEW S, NEW s \in Seq(S), s # <<>>
  PROVE  /\ Tail(s) \in Seq(S) /\ Head(s) \in S /\ Head(s) = s[1] /\ 1 \in 1 .. Len(s)
         /\ \A i \in 1 .. Len(Tail(s)) : /\ i + 1 \in 1 .. Len(s) /\ i + 1 > 1
                                         /\ Tail(s)[i] = s[i + 1]
OBVIOUS

LEMMA AppendIs ==
  ASSUME NEW S, NEW s \in Seq(S), NEW v \in S
  PROVE  /\ Append(s, v) \in Seq(S)
         /\ \A i \in 1 .. Len(Append(s, v)) :
              \/ i \in 1 .. Len(s) /\ Append(s, v)[i] = s[i]
              \/ i = Len(s) + 1 /\ Append(s, v)[i] = v
         /\ \A i \in 1 .. Len(s) : ~(Len(s) + 1 < i)
OBVIOUS

LEMMA JobKinds ==
  /\ \A j \in Jobs : j.do \in Joins \cup ClientJobs => j.by \in Clients
  /\ \A j \in Jobs : j.do \in SceneBoardJobs \/ j.do \in Joins \/ j.do \in ClientJobs
  /\ \A do \in SceneBoardJobs : Job(do, NoOne, FALSE) \in Jobs
  /\ \A do \in Joins, c \in Clients : Job(do, c, FALSE) \in Jobs
  /\ \A do \in ClientJobs, c \in Clients, behind \in BOOLEAN : Job(do, c, behind) \in Jobs
  /\ Joins \cap ClientJobs = {} /\ SceneBoardJobs \cap (Joins \cup ClientJobs) = {}
BY DEF Jobs, Job, Joins, ClientJobs, SceneBoardJobs

LEMMA HandlerTyped == TypeOK => handler \in Seq(Jobs) /\ session \in Sessions
BY DEF TypeOK, Jobs, Sessions

LEMMA FrontIs ==
  ASSUME TypeOK, NEW do, Front(do)
  PROVE  /\ handler \in Seq(Jobs) /\ handler # <<>> /\ handler' = Tail(handler)
         /\ Tail(handler) \in Seq(Jobs) /\ Head(handler) \in Jobs
         /\ Head(handler).do = do /\ startCall = "idle"
         /\ do \in Joins \cup ClientJobs => AtFront \in Clients
BY HandlerTyped, TailIs, JobKinds DEF Front, AtFront

LEMMA RangeIs ==
  ASSUME NEW S, NEW s \in Seq(S)
  PROVE  \A i \in 1 .. Len(s) : s[i] \in Range(s)
BY DEF Range
-----------------------------------------------------------------------------
(* The session's operations.                                               *)
LEMMA SessionOperations ==
  ASSUME NEW s \in Sessions, NEW c \in Clients
  PROVE  /\ SetActive(s, FALSE) \in Sessions /\ Foreground(s) \in Sessions
         /\ Background(s) \in Sessions /\ Disconnect(s) \in Sessions
         /\ DisconnectByClient(s) \in Sessions /\ ConnectInner(s, c) \in Sessions
         /\ \A shown \in BOOLEAN : Reconnect(s, c, shown) \in Sessions
         /\ \A request : ColdStart(s, c, request) \in Sessions
<1>1. SetActive(s, FALSE) \in Sessions
  BY DEF SetActive, Sessions, States
<1>2. Foreground(s) \in Sessions
  BY DEF Foreground, SetActive, Sessions, States
<1>3. Background(s) \in Sessions
  BY DEF Background, Sessions, States
<1>4. Disconnect(s) \in Sessions /\ DisconnectByClient(s) \in Sessions
  BY DEF Disconnect, DisconnectByClient, Sessions, States
<1>5. ConnectInner(s, c) \in Sessions
  BY DEF ConnectInner, Sessions, States, AnyOne
<1>6. \A shown \in BOOLEAN : Reconnect(s, c, shown) \in Sessions
  BY DEF Reconnect, Sessions, States, AnyOne
<1>7. \A request : ColdStart(s, c, request) \in Sessions
  BY DEF ColdStart, ResetSessionConnectState, ResetIsActive, Sessions, States, AnyOne
<1>8. QED BY <1>1, <1>2, <1>3, <1>4, <1>5, <1>6, <1>7

(* Only connections change whose session it is; only a cold start changes  *)
(* the token.                                                              *)
LEMMA SessionOwner ==
  ASSUME NEW s \in Sessions, NEW c \in Clients
  PROVE  /\ \A t \in { SetActive(s, FALSE), Foreground(s), Background(s), Disconnect(s),
                        DisconnectByClient(s) } :
              t.callingPid = s.callingPid /\ t.token = s.token
         /\ ConnectInner(s, c).callingPid = IF CanConnect(s, c) THEN c ELSE s.callingPid
         /\ ConnectInner(s, c).token = s.token
         /\ \A shown \in BOOLEAN :
              Reconnect(s, c, shown).callingPid = c /\ Reconnect(s, c, shown).token = s.token
         /\ \A request : /\ ColdStart(s, c, request).callingPid = NoOne
                         /\ ColdStart(s, c, request).token = c
<1>1. /\ SetActive(s, FALSE).callingPid = s.callingPid
      /\ SetActive(s, FALSE).token = s.token
  BY DEF SetActive, Sessions
<1>2. Foreground(s).callingPid = s.callingPid /\ Foreground(s).token = s.token
  BY DEF Foreground, SetActive, Sessions
<1>3. Background(s).callingPid = s.callingPid /\ Background(s).token = s.token
  BY DEF Background, Sessions
<1>4. /\ Disconnect(s).callingPid = s.callingPid /\ Disconnect(s).token = s.token
      /\ DisconnectByClient(s).callingPid = s.callingPid
      /\ DisconnectByClient(s).token = s.token
  BY DEF Disconnect, DisconnectByClient, Sessions
<1>5. /\ ConnectInner(s, c).callingPid = IF CanConnect(s, c) THEN c ELSE s.callingPid
      /\ ConnectInner(s, c).token = s.token
  BY DEF ConnectInner, Sessions
<1>6. \A shown \in BOOLEAN :
        Reconnect(s, c, shown).callingPid = c /\ Reconnect(s, c, shown).token = s.token
  BY DEF Reconnect, Sessions
<1>7. \A request : /\ ColdStart(s, c, request).callingPid = NoOne
                  /\ ColdStart(s, c, request).token = c
  BY DEF ColdStart, ResetSessionConnectState, ResetIsActive, Sessions
<1>8. QED BY <1>1, <1>2, <1>3, <1>4, <1>5, <1>6, <1>7

(* What a cold start, which resets the connection, leaves of a session.    *)
LEMMA ColdStarted ==
  ASSUME NEW s \in Sessions, NEW c \in Clients, NEW request,
         NEW t, t = ColdStart(s, c, request)
  PROVE  /\ t.callingPid = NoOne /\ t.token = c /\ t.state = "DISCONNECT"
         /\ t.isActive => s.isActive /\ request # "Activation"
BY DEF ColdStart, ResetSessionConnectState, ResetIsActive, Sessions
-----------------------------------------------------------------------------
(* Types.                                                                  *)
OtherTypes ==
  /\ startCall \in { "idle", "Activation", "ByCall" }
  /\ answered \in BOOLEAN /\ overdue \in BOOLEAN
  /\ launched \in AnyOne /\ record \in AnyOne
  /\ closing \in Nat
  /\ phase \in [Clients -> Phases]
  /\ toDo \in [Clients -> Seq({ "Show", "Hide", "Destroy" })]
  /\ calling \in [Clients -> { "no", "asked", "passed" }]
  /\ wire \in [Clients -> Seq({ "Background", "Disconnect" })]
  /\ passed \in [Clients -> { "none", "Background", "Disconnect" }]
  /\ cut \subseteq Clients
  /\ requests \in 0 .. MaxRequests /\ crashes \in 0 .. MaxCrashes
  /\ backgroundSwitch \in BOOLEAN
  /\ late \subseteq Clients /\ races \subseteq Races

LEMMA TypeIs ==
  /\ TypeOK <=> session \in Sessions /\ handler \in Seq(Jobs) /\ OtherTypes
  /\ TypeOK' <=> session' \in Sessions /\ handler' \in Seq(Jobs) /\ OtherTypes'
BY DEF TypeOK, Sessions, Jobs, OtherTypes

LEMMA TellTyped ==
  ASSUME TypeOK, NEW c \in AnyOne, NEW do \in { "Show", "Hide", "Destroy" }
  PROVE  Tell(c, do) \in [Clients -> Seq({ "Show", "Hide", "Destroy" })]
BY DEF TypeOK, Tell, AnyOne

LEMMA StartTyped ==
  ASSUME TypeOK, NEW todo \in Seq({ "Show" }), Start(todo)
  PROVE  /\ phase' \in [Clients -> Phases] /\ record' \in AnyOne
         /\ toDo' \in [Clients -> Seq({ "Show", "Hide", "Destroy" })]
<1>1. todo \in Seq({ "Show", "Hide", "Destroy" })
  OBVIOUS
<1>2. CASE record # NoOne /\ toDo' = [toDo EXCEPT ![record] = @ \o todo] /\ UNCHANGED <<phase, record>>
  <2>1. record \in Clients
    BY <1>2 DEF TypeOK, AnyOne
  <2>2. toDo[record] \o todo \in Seq({ "Show", "Hide", "Destroy" })
    BY <1>1, <2>1 DEF TypeOK
  <2>3. QED BY <1>2, <2>2 DEF TypeOK
<1>3. ASSUME NEW c \in Clients, phase' = [phase EXCEPT ![c] = "LAUNCHED"],
             record' = c, toDo' = [toDo EXCEPT ![c] = todo]
      PROVE  /\ phase' \in [Clients -> Phases] /\ record' \in AnyOne
             /\ toDo' \in [Clients -> Seq({ "Show", "Hide", "Destroy" })]
  BY <1>1, <1>3 DEF TypeOK, AnyOne, Phases
<1>4. CASE UNCHANGED <<phase, toDo, record>>
  BY <1>4 DEF TypeOK
<1>5. QED BY <1>2, <1>3, <1>4 DEF Start

LEMMA TypeInvariant == TypeOK /\ [Next]_vars => TypeOK'
<1> SUFFICES ASSUME TypeOK, [Next]_vars PROVE TypeOK'
  OBVIOUS
<1> USE DEF vars, serverVars, amsVars, clientVars, boundVars, historyVars
<1>a. session \in Sessions /\ handler \in Seq(Jobs) /\ OtherTypes
  BY TypeIs
<1>b. NoOne \in AnyOne /\ \A c \in Clients : c \in AnyOne
  BY DEF AnyOne
<1>1. ASSUME RequestSceneSessionActivation PROVE TypeOK'
  <2>1. session' \in Sessions /\ handler' \in Seq(Jobs)
    BY <1>1, <1>a, FrontIs DEF RequestSceneSessionActivation
  <2>2. session.stage \in AnyOne
    BY <1>a DEF Sessions
  <2>3. Tell(session.stage, "Show") \in [Clients -> Seq({ "Show", "Hide", "Destroy" })]
    BY <2>2, TellTyped
  <2>4. OtherTypes'
    BY <1>1, <1>a, <2>3 DEF RequestSceneSessionActivation, OtherTypes
  <2>5. QED BY <2>1, <2>4, TypeIs
<1>2. ASSUME RequestSceneSessionByCall PROVE TypeOK'
  <2>1. session' \in Sessions /\ handler' \in Seq(Jobs)
    BY <1>2, <1>a, FrontIs DEF RequestSceneSessionByCall
  <2>2. OtherTypes'
    BY <1>2, <1>a DEF RequestSceneSessionByCall, OtherTypes
  <2>3. QED BY <2>1, <2>2, TypeIs
<1>3. ASSUME RequestSceneSessionBackground PROVE TypeOK'
  <2>1. session.stage \in AnyOne /\ record \in AnyOne /\ SetActive(session, FALSE) \in Sessions
    BY <1>a, SessionOperations DEF Sessions, OtherTypes, SetActive, States
  <2>2. Background(SetActive(session, FALSE)) \in Sessions
    BY <2>1 DEF Background, Sessions, States
  <2>3. session' \in Sessions /\ handler' \in Seq(Jobs)
    BY <1>3, <1>a, <2>2, FrontIs DEF RequestSceneSessionBackground
  <2>4. toDo' \in [Clients -> Seq({ "Show", "Hide", "Destroy" })]
    BY <1>3, <2>1, TellTyped DEF RequestSceneSessionBackground
  <2>5. OtherTypes'
    BY <1>3, <1>a, <2>4 DEF RequestSceneSessionBackground, OtherTypes
  <2>6. QED BY <2>3, <2>5, TypeIs
<1>4. ASSUME RequestSceneSessionDestruction PROVE TypeOK'
  <2>1. Disconnect(session) \in Sessions
    BY <1>a DEF Disconnect, Sessions, States
  <2>2. session' \in Sessions /\ handler' \in Seq(Jobs)
    BY <1>4, <1>a, <2>1, FrontIs DEF RequestSceneSessionDestruction
  <2>3. Tell(record, "Destroy") \in [Clients -> Seq({ "Show", "Hide", "Destroy" })]
    BY <1>a, TellTyped DEF OtherTypes
  <2>4. OtherTypes'
    BY <1>4, <1>a, <1>b, <2>3 DEF RequestSceneSessionDestruction, OtherTypes
  <2>5. QED BY <2>2, <2>4, TypeIs
<1>5. ASSUME StartReturns PROVE TypeOK'
  <2>1. session' \in Sessions
    <3>1. launched # NoOne => launched \in Clients
      BY <1>a DEF OtherTypes, AnyOne
    <3>2. QED BY <1>5, <1>a, <3>1, SessionOperations DEF StartReturns
  <2>2. OtherTypes'
    BY <1>5, <1>a, <1>b DEF StartReturns, OtherTypes, NewConnection, Races
  <2>3. QED BY <1>5, <1>a, <2>1, <2>2, TypeIs DEF StartReturns
<1>6. ASSUME ClientTask PROVE TypeOK'
  <2>1. session' \in Sessions
    <3>1. session' \in { Foreground(session), Background(session),
                         DisconnectByClient(session) }
      BY <1>6 DEF ClientTask, ForegroundTask, BackgroundTask, DisconnectTask
    <3>2. Foreground(session) \in Sessions
      BY <1>a DEF Foreground, SetActive, Sessions, States
    <3>3. Background(session) \in Sessions
      BY <1>a DEF Background, Sessions, States
    <3>4. DisconnectByClient(session) \in Sessions
      BY <1>a DEF DisconnectByClient, Sessions, States
    <3>5. QED BY <3>1, <3>2, <3>3, <3>4
  <2>2. handler' \in Seq(Jobs)
    BY <1>6, FrontIs DEF ClientTask, ForegroundTask, BackgroundTask, DisconnectTask
  <2>3. OtherTypes'
    BY <1>6, <1>a DEF ClientTask, OtherTypes, Races
  <2>4. QED BY <2>1, <2>2, <2>3, TypeIs
<1>7. ASSUME ConnectTask PROVE TypeOK'
  <2>1. AtFront \in Clients /\ handler' \in Seq(Jobs)
    BY <1>7, FrontIs DEF ConnectTask, Joins
  <2>2. session' \in Sessions
    BY <1>7, <1>a, <2>1, SessionOperations DEF ConnectTask
  <2>3. phase' \in [Clients -> Phases]
    BY <1>7, <1>a, <2>1 DEF ConnectTask, OtherTypes, Phases
  <2>4. OtherTypes'
    BY <1>7, <1>a, <2>3 DEF ConnectTask, OtherTypes, NewConnection, Races
  <2>5. QED BY <2>1, <2>2, <2>4, TypeIs
<1>8. ASSUME ReconnectTask PROVE TypeOK'
  <2>1. AtFront \in Clients /\ handler' \in Seq(Jobs)
    BY <1>8, FrontIs DEF ReconnectTask, Joins
  <2>2. session' \in Sessions
    BY <1>8, <1>a, <2>1, SessionOperations DEF ReconnectTask
  <2>3. OtherTypes'
    BY <1>8, <1>a DEF ReconnectTask, OtherTypes, NewConnection, Races
  <2>4. QED BY <2>1, <2>2, <2>3, TypeIs
<1>9. ASSUME StartUIAbilityBySCB PROVE TypeOK'
  <2> DEFINE todo == IF startCall = "Activation" THEN <<"Show">> ELSE <<>>
  <2>0. Start(todo)
    BY <1>9 DEF StartUIAbilityBySCB
  <2>1. todo \in Seq({ "Show" })
    <3>1. <<"Show">> \in Seq({ "Show" }) /\ <<>> \in Seq({ "Show" })
      OBVIOUS
    <3>2. QED BY <3>1
  <2> HIDE DEF todo
  <2>2. /\ phase' \in [Clients -> Phases] /\ record' \in AnyOne
        /\ toDo' \in [Clients -> Seq({ "Show", "Hide", "Destroy" })]
    BY <2>0, <2>1, StartTyped
  <2>3. OtherTypes'
    BY <1>9, <1>a, <1>b, <2>2 DEF StartUIAbilityBySCB, OtherTypes
  <2>4. QED BY <1>9, <1>a, <2>3, TypeIs DEF StartUIAbilityBySCB
<1>10. ASSUME LateStart PROVE TypeOK'
  <2>1. <<"Show">> \in Seq({ "Show" }) /\ Start(<<"Show">>)
    BY <1>10 DEF LateStart
  <2>2. /\ phase' \in [Clients -> Phases] /\ record' \in AnyOne
        /\ toDo' \in [Clients -> Seq({ "Show", "Hide", "Destroy" })]
    BY <2>1, StartTyped
  <2>3. OtherTypes'
    BY <1>10, <1>a, <2>2 DEF LateStart, OtherTypes
  <2>4. QED BY <1>10, <1>a, <2>3, TypeIs DEF LateStart
<1>11. ASSUME CloseUIAbilityBySCB PROVE TypeOK'
  <2>1. Tell(record, "Destroy") \in [Clients -> Seq({ "Show", "Hide", "Destroy" })]
    BY <1>a, TellTyped DEF OtherTypes
  <2>2. closing' \in Nat
    BY <1>11, <1>a DEF CloseUIAbilityBySCB, OtherTypes
  <2>3. OtherTypes'
    BY <1>11, <1>a, <1>b, <2>1, <2>2 DEF CloseUIAbilityBySCB, OtherTypes
  <2>4. QED BY <1>11, <1>a, <2>3, TypeIs DEF CloseUIAbilityBySCB
<1>12. ASSUME NEW job \in SceneBoardJobs, Request(job) PROVE TypeOK'
  <2>1. handler' \in Seq(Jobs)
    BY <1>12, <1>a, JobKinds, AppendIs DEF Request
  <2>2. requests' \in 0 .. MaxRequests
    BY <1>12, <1>a, BoundsAssumption DEF Request, OtherTypes
  <2>3. OtherTypes'
    BY <1>12, <1>a, <2>2 DEF Request, OtherTypes
  <2>4. QED BY <1>12, <1>a, <2>1, <2>3, TypeIs DEF Request
<1>13. ASSUME StartTimesOut PROVE TypeOK'
  <2>1. OtherTypes'
    BY <1>13, <1>a, <1>b DEF StartTimesOut, OtherTypes
  <2>2. QED BY <1>13, <1>a, <2>1, TypeIs DEF StartTimesOut
<1>14. ASSUME SetTerminating PROVE TypeOK'
  <2>1. session' \in Sessions
    BY <1>14, <1>a DEF SetTerminating, Sessions
  <2>2. OtherTypes'
    BY <1>14, <1>a DEF SetTerminating, OtherTypes
  <2>3. QED BY <1>14, <1>a, <2>1, <2>2, TypeIs DEF SetTerminating
<1>15. ASSUME Crash PROVE TypeOK'
  <2>1. session' \in Sessions /\ handler' \in Seq(Jobs)
    BY <1>15, <1>b DEF Crash, NewSession, Sessions, States
  <2>2. crashes' \in 0 .. MaxCrashes
    BY <1>15, <1>a, BoundsAssumption DEF Crash, OtherTypes
  <2>3. phase' \in [Clients -> Phases] /\ cut' \subseteq Clients
    BY <1>15, <1>a DEF Crash, OtherTypes, Phases
  <2>4. /\ wire' \in [Clients -> Seq({ "Background", "Disconnect" })]
        /\ passed' \in [Clients -> { "none", "Background", "Disconnect" }]
        /\ calling' \in [Clients -> { "no", "asked", "passed" }]
    BY <1>15 DEF Crash
  <2>5. answered' \in BOOLEAN /\ overdue' \in BOOLEAN /\ launched' \in AnyOne /\ closing' \in Nat
    BY <1>15, <1>a, <1>b DEF Crash, OtherTypes
  <2>6. OtherTypes'
    BY <1>15, <1>a, <2>2, <2>3, <2>4, <2>5 DEF Crash, OtherTypes
  <2>7. QED BY <2>1, <2>6, TypeIs
<1>16. ASSUME NEW c \in Clients, Create(c) PROVE TypeOK'
  <2>1. handler' \in Seq(Jobs)
    <3>1. Job("Connect", c, FALSE) \in Jobs
      BY JobKinds DEF Joins
    <3>2. Append(handler, Job("Connect", c, FALSE)) \in Seq(Jobs)
      BY <1>a, <3>1, AppendIs
    <3>3. QED BY <1>16, <1>a, <3>2 DEF Create
  <2>2. OtherTypes'
    BY <1>16, <1>a DEF Create, OtherTypes, Phases
  <2>3. QED BY <1>16, <1>a, <2>1, <2>2, TypeIs DEF Create
<1>17. ASSUME NEW c \in Clients, Show(c) \/ Hide(c) \/ Destroy(c) PROVE TypeOK'
  <2>1. PICK do : MainThread(c, do)
    BY <1>17 DEF Show, Hide, Destroy
  <2>2. toDo' \in [Clients -> Seq({ "Show", "Hide", "Destroy" })]
    BY <2>1, <1>a DEF MainThread, OtherTypes
  <2>3. phase' \in [Clients -> Phases]
    BY <1>17, <1>a DEF Show, Hide, Destroy, OtherTypes, Phases
  <2>4. calling' \in [Clients -> { "no", "asked", "passed" }]
    BY <1>17, <1>a DEF Show, Hide, Destroy, OtherTypes
  <2>5. wire' \in [Clients -> Seq({ "Background", "Disconnect" })]
    <3>1. \A call \in { "Background", "Disconnect" } :
            Append(wire[c], call) \in Seq({ "Background", "Disconnect" })
      BY <1>a DEF OtherTypes
    <3>2. QED BY <1>17, <1>a, <3>1 DEF Show, Hide, Destroy, OtherTypes
  <2>6. OtherTypes'
    BY <2>1, <1>a, <2>2, <2>3, <2>4, <2>5 DEF MainThread, OtherTypes
  <2>7. QED BY <2>1, <1>a, <2>6, TypeIs DEF MainThread
<1>18. ASSUME NEW c \in Clients, Die(c) PROVE TypeOK'
  <2>1. OtherTypes'
    BY <1>18, <1>a, <1>b DEF Die, OtherTypes, Phases
  <2>2. QED BY <1>18, <1>a, <2>1, TypeIs DEF Die
<1>19. ASSUME NEW c \in Clients, RecoverAndReconnectSceneSession(c) PROVE TypeOK'
  <2>1. handler' \in Seq(Jobs)
    BY <1>19, <1>a, JobKinds, AppendIs DEF RecoverAndReconnectSceneSession, Joins
  <2>2. OtherTypes'
    BY <1>19, <1>a DEF RecoverAndReconnectSceneSession, OtherTypes
  <2>3. QED BY <1>19, <1>a, <2>1, <2>2, TypeIs DEF RecoverAndReconnectSceneSession
<1>20. ASSUME NEW c \in Clients, CheckForeground(c) PROVE TypeOK'
  <2>1. OtherTypes'
    BY <1>20, <1>a DEF CheckForeground, OtherTypes, Phases
  <2>2. QED BY <1>20, <1>a, <2>1, TypeIs DEF CheckForeground
<1>21. ASSUME NEW c \in Clients, PostForeground(c) PROVE TypeOK'
  <2>1. handler' \in Seq(Jobs)
    BY <1>21, <1>a, JobKinds, AppendIs DEF PostForeground, ClientJobs, Behind
  <2>2. OtherTypes'
    BY <1>21, <1>a DEF PostForeground, OtherTypes, Phases, Races
  <2>3. QED BY <1>21, <1>a, <2>1, <2>2, TypeIs DEF PostForeground
<1>22. ASSUME NEW c \in Clients, CheckOneWay(c) PROVE TypeOK'
  <2>1. /\ Head(wire[c]) \in { "Background", "Disconnect" }
        /\ Tail(wire[c]) \in Seq({ "Background", "Disconnect" })
    BY <1>22, <1>a DEF CheckOneWay, OtherTypes
  <2>2. OtherTypes'
    BY <1>22, <1>a, <2>1 DEF CheckOneWay, OtherTypes
  <2>3. QED BY <1>22, <1>a, <2>2, TypeIs DEF CheckOneWay
<1>23. ASSUME NEW c \in Clients, PostOneWay(c) PROVE TypeOK'
  <2>1. passed[c] \in ClientJobs
    BY <1>23, <1>a DEF PostOneWay, OtherTypes, ClientJobs
  <2>2. handler' \in Seq(Jobs)
    BY <1>23, <1>a, <2>1, JobKinds, AppendIs DEF PostOneWay, Behind
  <2>3. OtherTypes'
    BY <1>23, <1>a DEF PostOneWay, OtherTypes
  <2>4. QED BY <1>23, <1>a, <2>2, <2>3, TypeIs DEF PostOneWay
<1>24. CASE UNCHANGED vars
  BY <1>24, <1>a, TypeIs DEF OtherTypes
<1>25. QED
  BY <1>1, <1>2, <1>3, <1>4, <1>5, <1>6, <1>7, <1>8, <1>9, <1>10, <1>11, <1>12, <1>13,
     <1>14, <1>15, <1>16, <1>17, <1>18, <1>19, <1>20, <1>21, <1>22, <1>23, <1>24
     DEF Next, HandlerStep, ClientStep, Environment
-----------------------------------------------------------------------------
(* The order of the queue.                                                 *)
LEMMA OrderlyTail ==
  ASSUME NEW h \in Seq(Jobs), h # <<>>, NEW pid, Orderly(h, pid)
  PROVE  /\ Orderly(Tail(h), pid)
         /\ Head(h).do \in Joins => Orderly(Tail(h), Head(h).by)
<1> DEFINE t == Tail(h)
<1>1. /\ Head(h) = h[1] /\ 1 \in 1 .. Len(h)
      /\ \A i \in 1 .. Len(t) : i + 1 \in 1 .. Len(h) /\ i + 1 > 1 /\ t[i] = h[i + 1]
  BY TailIs
<1> HIDE DEF t
<1>2. ASSUME NEW i \in 1 .. Len(t), t[i].do \in ClientJobs, ~t[i].behind
      PROVE  /\ pid \in { t[i].by, NoOne }
             /\ \A k \in 1 .. Len(t) : k < i /\ t[k].do \in Joins => t[k].by = t[i].by
             /\ Head(h).do \in Joins => Head(h).by = t[i].by
  <2>1. i + 1 \in 1 .. Len(h) /\ t[i] = h[i + 1] /\ i + 1 > 1
    BY <1>1
  <2>2. /\ pid \in { t[i].by, NoOne }
        /\ \A k \in 1 .. Len(h) : k < i + 1 /\ h[k].do \in Joins => h[k].by = t[i].by
    BY <1>2, <2>1 DEF Orderly
  <2>3. ASSUME NEW k \in 1 .. Len(t), k < i, t[k].do \in Joins
        PROVE  t[k].by = t[i].by
    <3>1. k + 1 \in 1 .. Len(h) /\ t[k] = h[k + 1] /\ k + 1 < i + 1
      BY <1>1, <2>3
    <3>2. QED BY <2>2, <2>3, <3>1
  <2>4. Head(h).do \in Joins => Head(h).by = t[i].by
    BY <1>1, <2>1, <2>2
  <2>5. QED BY <2>2, <2>3, <2>4
<1>3. QED BY <1>2 DEF Orderly, t

LEMMA OrderlyAppend ==
  ASSUME NEW h \in Seq(Jobs), NEW pid, Orderly(h, pid), NEW j \in Jobs,
         j.do \in ClientJobs /\ ~j.behind =>
           /\ pid \in { j.by, NoOne }
           /\ \A i \in 1 .. Len(h) : h[i].do \in Joins => h[i].by = j.by
  PROVE  Orderly(Append(h, j), pid)
<1> DEFINE a == Append(h, j)
<1>a. /\ Len(a) = Len(h) + 1 /\ a[Len(h) + 1] = j /\ Len(h) \in Nat
      /\ \A i \in 1 .. Len(h) : a[i] = h[i]
  OBVIOUS
<1> HIDE DEF a
<1>1. /\ \A i \in 1 .. Len(a) : \/ i \in 1 .. Len(h) /\ a[i] = h[i]
                                \/ i = Len(h) + 1 /\ a[i] = j
      /\ \A i \in 1 .. Len(h) : ~(Len(h) + 1 < i)
  BY <1>a
<1>0. ~(Len(h) + 1 < Len(h) + 1)
  BY <1>a
<1>2. ASSUME NEW i \in 1 .. Len(a), a[i].do \in ClientJobs, ~a[i].behind
      PROVE  /\ pid \in { a[i].by, NoOne }
             /\ \A k \in 1 .. Len(a) : k < i /\ a[k].do \in Joins => a[k].by = a[i].by
  <2>1. CASE i \in 1 .. Len(h) /\ a[i] = h[i]
    BY <1>1, <1>2, <2>1 DEF Orderly
  <2>2. CASE i = Len(h) + 1 /\ a[i] = j
    BY <1>0, <1>1, <1>2, <2>2
  <2>3. QED BY <1>1, <2>1, <2>2
<1>3. QED BY <1>2 DEF Orderly, a

LEMMA OrderlyUnowned ==
  ASSUME NEW h, NEW pid, Orderly(h, pid)
  PROVE  Orderly(h, NoOne)
BY DEF Orderly

(* A step that leaves the session to its client and takes a job off the    *)
(* queue, if any.                                                          *)
LEMMA OwnerStays ==
  ASSUME TypeOK, Orderly(handler, session.callingPid), PassedInTime,
         session'.callingPid = session.callingPid,
         handler' = handler \/ (handler # <<>> /\ handler' = Tail(handler)),
         UNCHANGED <<passed, calling, late>>
  PROVE  Orderly(handler, session.callingPid)' /\ PassedInTime'
<1>1. Orderly(handler', session.callingPid)
  BY HandlerTyped, OrderlyTail
<1>2. QED BY <1>1 DEF PassedInTime, Passed

(* A step that makes a new connection.                                     *)
LEMMA EveryCallIsLate ==
  ASSUME TypeOK, NewConnection, UNCHANGED <<passed, calling>>
  PROVE  PassedInTime'
BY DEF PassedInTime, NewConnection, Passed

LEMMA OrderInvariant ==
  ASSUME TypeOK, Orderly(handler, session.callingPid), PassedInTime, [Next]_vars
  PROVE  Orderly(handler, session.callingPid)' /\ PassedInTime'
<1> USE DEF vars, serverVars, amsVars, clientVars, boundVars, historyVars
<1>a. session \in Sessions /\ handler \in Seq(Jobs)
  BY TypeIs
<1>1. ASSUME RequestSceneSessionActivation \/ RequestSceneSessionByCall
      PROVE  Orderly(handler, session.callingPid)' /\ PassedInTime'
  BY <1>1, OwnerStays DEF RequestSceneSessionActivation, RequestSceneSessionByCall, Front
<1>2. ASSUME RequestSceneSessionBackground
      PROVE  Orderly(handler, session.callingPid)' /\ PassedInTime'
  <2>1. session'.callingPid = session.callingPid
    BY <1>2, <1>a DEF RequestSceneSessionBackground, Background, SetActive, Sessions
  <2>2. QED BY <1>2, <2>1, OwnerStays DEF RequestSceneSessionBackground, Front
<1>3. ASSUME RequestSceneSessionDestruction
      PROVE  Orderly(handler, session.callingPid)' /\ PassedInTime'
  <2>1. session'.callingPid = session.callingPid
    BY <1>3, <1>a DEF RequestSceneSessionDestruction, Disconnect, Sessions
  <2>2. QED BY <1>3, <2>1, OwnerStays DEF RequestSceneSessionDestruction, Front
<1>4. ASSUME StartReturns
      PROVE  Orderly(handler, session.callingPid)' /\ PassedInTime'
  <2>1. CASE launched = NoOne
    BY <1>4, <2>1, OwnerStays DEF StartReturns
  <2>2. CASE launched # NoOne
    <3>1. launched \in Clients
      BY <2>2 DEF TypeOK, AnyOne
    <3>2. session'.callingPid = NoOne
      <4>1. session' = ColdStart(session, launched, startCall)
        BY <1>4, <2>2 DEF StartReturns
      <4>2. QED BY <1>a, <3>1, <4>1, ColdStarted
    <3>3. Orderly(handler, NoOne) /\ handler' = handler
      BY <1>4, OrderlyUnowned DEF StartReturns
    <3>4. PassedInTime'
      BY <1>4, <2>2, EveryCallIsLate DEF StartReturns
    <3>5. QED BY <3>2, <3>3, <3>4
  <2>3. QED BY <2>1, <2>2
<1>5. ASSUME ClientTask
      PROVE  Orderly(handler, session.callingPid)' /\ PassedInTime'
  <2>1. session'.callingPid = session.callingPid
    BY <1>5, <1>a DEF ClientTask, ForegroundTask, BackgroundTask, DisconnectTask,
      Foreground, SetActive, Background, DisconnectByClient, Sessions
  <2>2. QED BY <1>5, <2>1, OwnerStays DEF ClientTask, ForegroundTask, BackgroundTask,
      DisconnectTask, Front
<1>6. ASSUME ConnectTask
      PROVE  Orderly(handler, session.callingPid)' /\ PassedInTime'
  <2>1. /\ handler # <<>> /\ handler' = Tail(handler) /\ AtFront \in Clients
        /\ Head(handler).do \in Joins
    BY <1>6, FrontIs DEF ConnectTask, Joins
  <2>2. CASE CanConnect(session, AtFront)
    <3>1. session'.callingPid = AtFront
      BY <1>6, <1>a, <2>1, <2>2, SessionOwner DEF ConnectTask
    <3>2. Orderly(Tail(handler), AtFront)
      BY <1>a, <2>1, OrderlyTail DEF AtFront
    <3>3. PassedInTime'
      BY <1>6, <2>2, EveryCallIsLate DEF ConnectTask
    <3>4. QED BY <2>1, <3>1, <3>2, <3>3
  <2>3. CASE ~CanConnect(session, AtFront)
    <3>1. session'.callingPid = session.callingPid
      BY <1>6, <1>a, <2>1, <2>3, SessionOwner DEF ConnectTask
    <3>2. QED BY <1>6, <2>1, <2>3, <3>1, OwnerStays DEF ConnectTask
  <2>4. QED BY <2>2, <2>3
<1>7. ASSUME ReconnectTask
      PROVE  Orderly(handler, session.callingPid)' /\ PassedInTime'
  <2>1. /\ handler # <<>> /\ handler' = Tail(handler) /\ AtFront \in Clients
        /\ Head(handler).do \in Joins
    BY <1>7, FrontIs DEF ReconnectTask, Joins
  <2>2. session'.callingPid = AtFront
    <3>1. PICK shown \in BOOLEAN : session' = Reconnect(session, AtFront, shown)
      BY <1>7 DEF ReconnectTask
    <3>2. QED BY <1>a, <2>1, <3>1, SessionOwner
  <2>3. Orderly(Tail(handler), AtFront)
    BY <1>a, <2>1, OrderlyTail DEF AtFront
  <2>4. PassedInTime'
    BY <1>7, EveryCallIsLate DEF ReconnectTask
  <2>5. QED BY <2>1, <2>2, <2>3, <2>4
<1>8. ASSUME StartUIAbilityBySCB \/ LateStart \/ CloseUIAbilityBySCB \/ StartTimesOut
      PROVE  Orderly(handler, session.callingPid)' /\ PassedInTime'
  BY <1>8, OwnerStays DEF StartUIAbilityBySCB, LateStart, CloseUIAbilityBySCB, StartTimesOut
<1>9. ASSUME SetTerminating
      PROVE  Orderly(handler, session.callingPid)' /\ PassedInTime'
  <2>1. session'.callingPid = session.callingPid
    BY <1>9, <1>a DEF SetTerminating, Sessions
  <2>2. QED BY <1>9, <2>1, OwnerStays DEF SetTerminating
<1>10. ASSUME NEW job \in SceneBoardJobs, Request(job)
       PROVE  Orderly(handler, session.callingPid)' /\ PassedInTime'
  <2> DEFINE j == Job(job, NoOne, FALSE)
  <2>1. j \in Jobs /\ j.do \notin ClientJobs
    BY JobKinds DEF Job
  <2> HIDE DEF j
  <2>2. Orderly(Append(handler, j), session.callingPid)
    BY <1>a, <2>1, OrderlyAppend
  <2>3. QED BY <1>10, <2>2 DEF Request, PassedInTime, Passed, j
<1>11. ASSUME Crash
       PROVE  Orderly(handler, session.callingPid)' /\ PassedInTime'
  BY <1>11 DEF Crash, Orderly, PassedInTime, Passed
<1>12. ASSUME NEW c \in Clients, Create(c)
       PROVE  Orderly(handler, session.callingPid)' /\ PassedInTime'
  <2> DEFINE j == Job("Connect", c, FALSE)
  <2>1. j \in Jobs /\ j.do \notin ClientJobs
    BY JobKinds DEF Job, Joins, ClientJobs
  <2> HIDE DEF j
  <2>2. Orderly(Append(handler, j), session.callingPid)
    BY <1>a, <2>1, OrderlyAppend
  <2>3. QED BY <1>12, <2>2 DEF Create, PassedInTime, Passed, j
<1>13. ASSUME NEW c \in Clients, RecoverAndReconnectSceneSession(c)
       PROVE  Orderly(handler, session.callingPid)' /\ PassedInTime'
  <2> DEFINE j == Job(IF phase[c] = "SHOWN" THEN "ReconnectShown" ELSE "ReconnectHidden", c, FALSE)
  <2>1. j \in Jobs /\ j.do \notin ClientJobs
    BY JobKinds DEF Job, Joins, ClientJobs
  <2> HIDE DEF j
  <2>2. Orderly(Append(handler, j), session.callingPid)
    BY <1>a, <2>1, OrderlyAppend
  <2>3. QED
    BY <1>13, <2>2 DEF RecoverAndReconnectSceneSession, PassedInTime, Passed, j
<1>14. ASSUME NEW c \in Clients, Show(c) \/ Hide(c) \/ Destroy(c)
       PROVE  Orderly(handler, session.callingPid)' /\ PassedInTime'
  <2>1. UNCHANGED <<session, handler, passed, late>>
    BY <1>14 DEF Show, Hide, Destroy, MainThread
  <2>2. \A d \in Clients : calling'[d] = "passed" => calling[d] = "passed"
    BY <1>14 DEF Show, Hide, Destroy, TypeOK
  <2>3. QED BY <2>1, <2>2 DEF PassedInTime, Passed
<1>15. ASSUME NEW c \in Clients, Die(c)
       PROVE  Orderly(handler, session.callingPid)' /\ PassedInTime'
  BY <1>15, OwnerStays DEF Die
<1>16. ASSUME NEW c \in Clients, CheckForeground(c)
       PROVE  Orderly(handler, session.callingPid)' /\ PassedInTime'
  <2>1. UNCHANGED <<session, handler, passed, late>>
    BY <1>16 DEF CheckForeground
  <2>2. \A d \in Clients : calling'[d] = "passed" =>
          calling[d] = "passed" \/ session.callingPid = d
    BY <1>16 DEF CheckForeground, Matches, CheckPidIfMatched, TypeOK
  <2>3. QED BY <2>1, <2>2 DEF PassedInTime, Passed
<1>17. ASSUME NEW c \in Clients, CheckOneWay(c)
       PROVE  Orderly(handler, session.callingPid)' /\ PassedInTime'
  <2>1. UNCHANGED <<session, handler, calling, late>>
    BY <1>17 DEF CheckOneWay
  <2>2. \A d \in Clients : passed'[d] # "none" =>
          passed[d] # "none" \/ session.callingPid = d
    BY <1>17 DEF CheckOneWay, Matches, CheckPidIfMatched, TypeOK
  <2>3. QED BY <2>1, <2>2 DEF PassedInTime, Passed
<1>18. ASSUME NEW c \in Clients, NEW do \in ClientJobs, Passed(c),
              handler' = Append(handler, Job(do, c, Behind(c))), UNCHANGED session
       PROVE  Orderly(handler, session.callingPid)'
  <2> DEFINE j == Job(do, c, Behind(c))
  <2>1. j \in Jobs /\ j.by = c /\ j.behind = Behind(c)
    BY JobKinds DEF Job, Behind
  <2> HIDE DEF j
  <2>2. ASSUME ~Behind(c)
        PROVE  /\ session.callingPid = c
               /\ \A i \in 1 .. Len(handler) : handler[i].do \in Joins => handler[i].by = c
    BY <1>18, <2>2, <1>a, RangeIs DEF Behind, PassedInTime
  <2>3. Orderly(Append(handler, j), session.callingPid)
    BY <1>a, <2>1, <2>2, OrderlyAppend
  <2>4. QED BY <1>18, <2>3 DEF j
<1>19. ASSUME NEW c \in Clients, PostForeground(c)
       PROVE  Orderly(handler, session.callingPid)' /\ PassedInTime'
  <2>1. Orderly(handler, session.callingPid)'
    BY <1>18, <1>19 DEF PostForeground, Passed, ClientJobs
  <2>2. \A d \in Clients : Passed(d)' /\ d \notin late' => Passed(d) /\ d \notin late
    BY <1>19 DEF PostForeground, Passed, TypeOK
  <2>3. QED BY <1>19, <2>1, <2>2 DEF PostForeground, PassedInTime
<1>20. ASSUME NEW c \in Clients, PostOneWay(c)
       PROVE  Orderly(handler, session.callingPid)' /\ PassedInTime'
  <2>1. passed[c] \in ClientJobs
    BY <1>20 DEF PostOneWay, TypeOK, ClientJobs
  <2>2. Orderly(handler, session.callingPid)'
    BY <1>18, <1>20, <2>1 DEF PostOneWay, Passed
  <2>3. \A d \in Clients : Passed(d)' /\ d \notin late' => Passed(d) /\ d \notin late
    BY <1>20 DEF PostOneWay, Passed, TypeOK
  <2>4. QED BY <1>20, <2>2, <2>3 DEF PostOneWay, PassedInTime
<1>21. CASE UNCHANGED vars
  BY <1>21 DEF PassedInTime, Passed
<1>22. QED
  BY <1>1, <1>2, <1>3, <1>4, <1>5, <1>6, <1>7, <1>8, <1>9, <1>10, <1>11, <1>12, <1>13,
     <1>14, <1>15, <1>16, <1>17, <1>19, <1>20, <1>21
     DEF Next, HandlerStep, ClientStep, Environment
-----------------------------------------------------------------------------
(* Connections to come.                                                    *)
LEMMA JoinsOnceTail ==
  ASSUME NEW h \in Seq(Jobs), h # <<>>, NEW ph, JoinsOnce(h, ph)
  PROVE  /\ JoinsOnce(Tail(h), ph)
         /\ \A c \in Clients : ToConnect(Tail(h), c) => ToConnect(h, c)
         /\ Head(h).do \in Joins =>
              \A c \in Clients : Head(h).by = c => /\ ~ToConnect(Tail(h), c)
                                                  /\ ph[c] \notin { "NONE", "LAUNCHED" }
<1> DEFINE t == Tail(h)
<1>1. /\ Head(h) = h[1] /\ 1 \in 1 .. Len(h)
      /\ \A i \in 1 .. Len(t) : i + 1 \in 1 .. Len(h) /\ i + 1 > 1 /\ t[i] = h[i + 1]
  BY TailIs
<1> HIDE DEF t
<1>2. \A c \in Clients : \A i \in JoinsOf(t, c) : i + 1 \in JoinsOf(h, c) /\ i \in Int
  BY <1>1 DEF JoinsOf
<1>3. ASSUME NEW c \in Clients, NEW i \in JoinsOf(t, c), NEW k \in JoinsOf(t, c)
      PROVE  i = k
  <2>1. i + 1 = k + 1
    BY <1>2 DEF JoinsOnce
  <2>2. QED BY <1>2, <2>1
<1>4. \A c \in Clients : ph[c] \in { "NONE", "LAUNCHED" } => JoinsOf(t, c) = {}
  BY <1>2 DEF JoinsOnce
<1>5. \A c \in Clients : ToConnect(t, c) => ToConnect(h, c)
  BY <1>1 DEF ToConnect
<1>6. ASSUME NEW c \in Clients, Head(h).do \in Joins, Head(h).by = c
      PROVE  ~ToConnect(t, c) /\ ph[c] \notin { "NONE", "LAUNCHED" }
  <2>1. 1 \in JoinsOf(h, c)
    BY <1>1, <1>6 DEF JoinsOf
  <2>2. JoinsOf(t, c) = {}
    <3>1. ASSUME NEW i \in JoinsOf(t, c) PROVE FALSE
      <4>1. i + 1 \in JoinsOf(h, c) /\ i \in 1 .. Len(t)
        BY <1>2 DEF JoinsOf
      <4>2. i + 1 = 1
        BY <2>1, <4>1 DEF JoinsOnce
      <4>3. QED BY <4>1, <4>2
    <3>2. QED BY <3>1
  <2>3. ~ToConnect(t, c)
    BY <2>2 DEF ToConnect, JoinsOf, Joins
  <2>4. QED BY <2>1, <2>3 DEF JoinsOnce
<1>7. QED BY <1>3, <1>4, <1>5, <1>6 DEF JoinsOnce, t

LEMMA JoinsOnceAppend ==
  ASSUME NEW h \in Seq(Jobs), NEW ph, JoinsOnce(h, ph), NEW j \in Jobs,
         j.do \in Joins => /\ JoinsOf(h, j.by) = {}
                           /\ ph[j.by] \notin { "NONE", "LAUNCHED" }
  PROVE  /\ JoinsOnce(Append(h, j), ph)
         /\ \A c \in Clients : ToConnect(Append(h, j), c) =>
              ToConnect(h, c) \/ (j.do = "Connect" /\ j.by = c)
<1> DEFINE a == Append(h, j)
<1>a. /\ Len(a) = Len(h) + 1 /\ a[Len(h) + 1] = j /\ Len(h) \in Nat
      /\ \A i \in 1 .. Len(h) : a[i] = h[i]
  OBVIOUS
<1> HIDE DEF a
<1>1. \A i \in 1 .. Len(a) : \/ i \in 1 .. Len(h) /\ a[i] = h[i]
                             \/ i = Len(h) + 1 /\ a[i] = j
  BY <1>a
<1>2. \A c \in Clients : \A i \in JoinsOf(a, c) :
        i \in JoinsOf(h, c) \/ (i = Len(h) + 1 /\ j.do \in Joins /\ j.by = c)
  BY <1>1 DEF JoinsOf
<1>3. ASSUME NEW c \in Clients, NEW i \in JoinsOf(a, c), NEW k \in JoinsOf(a, c)
      PROVE  i = k
  BY <1>2 DEF JoinsOnce
<1>4. \A c \in Clients : ph[c] \in { "NONE", "LAUNCHED" } => JoinsOf(a, c) = {}
  BY <1>2 DEF JoinsOnce
<1>5. \A c \in Clients : ToConnect(a, c) => ToConnect(h, c) \/ (j.do = "Connect" /\ j.by = c)
  BY <1>1 DEF ToConnect
<1>6. QED BY <1>3, <1>4, <1>5 DEF JoinsOnce, a

-----------------------------------------------------------------------------
(* What the operations do to the flag and to a session that waits for its  *)
(* client.                                                                 *)
FlagAgrees(s, tags) ==
  /\ s.state = "ACTIVE" => s.isActive
  /\ s.isActive => \/ s.state \in { "ACTIVE", "DISCONNECT" }
                   \/ "leftover" \in tags \/ "lateRecovery" \in tags

LEMMA FlagKept ==
  ASSUME NEW s \in Sessions, NEW tags, FlagAgrees(s, tags), NEW c \in Clients
  PROVE  /\ FlagAgrees(SetActive(s, FALSE), tags) /\ FlagAgrees(Foreground(s), tags)
         /\ FlagAgrees(Background(s), tags) /\ FlagAgrees(Disconnect(s), tags)
         /\ FlagAgrees(DisconnectByClient(s), tags)
         /\ \A shown \in BOOLEAN : FlagAgrees(Reconnect(s, c, shown), tags)
         /\ \A request : FlagAgrees(ColdStart(s, c, request), tags)
<1>1. FlagAgrees(SetActive(s, FALSE), tags)
  BY DEF FlagAgrees, SetActive, Sessions, States
<1>2. FlagAgrees(Foreground(s), tags)
  BY DEF FlagAgrees, Foreground, SetActive, Sessions, States
<1>3. FlagAgrees(Background(s), tags)
  BY DEF FlagAgrees, Background, Sessions, States
<1>4. FlagAgrees(Disconnect(s), tags) /\ FlagAgrees(DisconnectByClient(s), tags)
  BY DEF FlagAgrees, Disconnect, DisconnectByClient, Sessions, States
<1>5. \A shown \in BOOLEAN : FlagAgrees(Reconnect(s, c, shown), tags)
  BY DEF FlagAgrees, Reconnect, Sessions, States
<1>6. \A request : FlagAgrees(ColdStart(s, c, request), tags)
  BY DEF FlagAgrees, ColdStart, ResetSessionConnectState, ResetIsActive, Sessions, States
<1>7. QED BY <1>1, <1>2, <1>3, <1>4, <1>5, <1>6

-----------------------------------------------------------------------------
(* Connections.                                                            *)
Connections ==
  /\ JoinsOnce(handler, phase) /\ KeptForConnect /\ LaunchedIsKnown
  /\ CallersHaveWindows /\ ActiveFlagAgrees /\ ExpectedConnects

ToCome(c) == phase[c] = "LAUNCHED" \/ ToConnect(handler, c)

(* A client goes on, and is refused only if it is not the expected one.    *)
PhaseStep(c) ==
  \/ phase'[c] = phase[c]
  \/ /\ phase[c] # "NONE" /\ phase'[c] \notin { "NONE", "LAUNCHED" }
     /\ phase'[c] = "FAILED" => session.token # c \/ "lateRecovery" \in races'
     /\ launched = c => phase'[c] \in { "DEAD", "CONNECTING" }

(* Every step that neither launches a client nor resets the session.       *)
SameToken ==
  /\ session'.token = session.token /\ races \subseteq races'
  /\ FlagAgrees(session', races')
  /\ \A c \in Clients : session.token = c /\ ToCome(c)' =>
       ToCome(c) /\ (Untouched(session, races) => Untouched(session', races'))
  /\ JoinsOnce(handler', phase') /\ \A c \in Clients : PhaseStep(c)
  /\ launched' \in { launched, NoOne } /\ (launched' # NoOne => startCall' # "idle")
  /\ cut' \subseteq cut /\ CallersHaveWindows'

LEMMA FlagIs ==
  /\ ActiveFlagAgrees <=> FlagAgrees(session, races)
  /\ ActiveFlagAgrees' <=> FlagAgrees(session', races')
BY DEF ActiveFlagAgrees, FlagAgrees

LEMMA SameTokenKeeps ==
  ASSUME TypeOK, Connections, SameToken
  PROVE  Connections'
<1>1. ActiveFlagAgrees' /\ CallersHaveWindows' /\ JoinsOnce(handler, phase)'
  BY FlagIs DEF SameToken
<1>2. KeptForConnect'
  BY DEF SameToken, Connections, KeptForConnect, ToCome
<1>3. LaunchedIsKnown'
  <2>1. \A c \in Clients : session'.token = c => phase'[c] # "NONE"
    BY DEF SameToken, PhaseStep, Connections, LaunchedIsKnown
  <2>2. \A c \in cut' : phase'[c] # "NONE" /\ (phase'[c] = "LAUNCHED" => session'.token # c)
    BY DEF SameToken, PhaseStep, Connections, LaunchedIsKnown, TypeOK
  <2>3. ASSUME launched' # NoOne
        PROVE  /\ startCall' # "idle" /\ launched' \notin cut'
               /\ phase'[launched'] \in { "LAUNCHED", "CONNECTING", "DEAD" }
    <3>1. launched' = launched /\ launched \in Clients
      BY <2>3 DEF SameToken, TypeOK, AnyOne
    <3>2. QED BY <2>3, <3>1 DEF SameToken, PhaseStep, Connections, LaunchedIsKnown
  <2>4. QED BY <2>1, <2>2, <2>3 DEF LaunchedIsKnown
<1>4. ExpectedConnects'
  BY DEF SameToken, PhaseStep, Connections, ExpectedConnects
<1>5. QED BY <1>1, <1>2, <1>3, <1>4 DEF Connections

(* A step of SceneBoard's that takes a job off the queue, if any.          *)
LEMMA SessionStep ==
  ASSUME TypeOK, Connections, session'.token = session.token, races \subseteq races',
         FlagAgrees(session', races'),
         Untouched(session, races) => Untouched(session', races'),
         handler' = handler \/ (handler # <<>> /\ handler' = Tail(handler)),
         launched' \in { launched, NoOne }, launched' # NoOne => startCall' # "idle",
         UNCHANGED <<phase, calling, cut>>
  PROVE  Connections'
<1>1. JoinsOnce(handler', phase) /\ \A c \in Clients : ToConnect(handler', c) => ToConnect(handler, c)
  BY HandlerTyped, JoinsOnceTail DEF Connections
<1>2. SameToken
  BY <1>1 DEF SameToken, Connections, PhaseStep, ToCome, CallersHaveWindows
<1>3. QED BY <1>2, SameTokenKeeps

(* A job of SceneBoard's own or of a client that has a window.             *)
LEMMA AppendStep ==
  ASSUME TypeOK, Connections, NEW j \in Jobs,
         handler' = Append(handler, j), j.do \notin Joins,
         UNCHANGED <<session, launched, startCall, cut>>, races \subseteq races',
         \A c \in Clients : PhaseStep(c), CallersHaveWindows'
  PROVE  Connections'
<1>0. JoinsOnce(handler, phase')
  BY DEF PhaseStep, Connections, JoinsOnce
<1>1. /\ JoinsOnce(handler', phase')
      /\ \A c \in Clients : ToConnect(handler', c) => ToConnect(handler, c)
  BY <1>0, HandlerTyped, JoinsOnceAppend DEF Joins
<1>2. FlagAgrees(session', races')
  BY FlagIs DEF Connections, FlagAgrees
<1>3. Untouched(session, races) => Untouched(session', races')
  BY DEF Untouched
<1>4. launched' # NoOne => startCall' # "idle"
  BY DEF Connections, LaunchedIsKnown
<1>5. SameToken
  BY <1>1, <1>2, <1>3, <1>4 DEF SameToken, PhaseStep, ToCome
<1>6. QED BY <1>5, SameTokenKeeps

(* A step of a client's that leaves the queue alone.                       *)
LEMMA ClientKeeps ==
  ASSUME TypeOK, Connections,
         UNCHANGED <<session, handler, launched, startCall, cut, races>>,
         \A c \in Clients : PhaseStep(c), CallersHaveWindows'
  PROVE  Connections'
<1>1. JoinsOnce(handler', phase')
  BY DEF PhaseStep, Connections, JoinsOnce
<1>2. FlagAgrees(session', races')
  BY FlagIs DEF Connections, FlagAgrees
<1>3. launched' # NoOne => startCall' # "idle"
  BY DEF Connections, LaunchedIsKnown
<1>4. SameToken
  BY <1>1, <1>2, <1>3 DEF SameToken, PhaseStep, ToCome
<1>5. QED BY <1>4, SameTokenKeeps

LEMMA StartKeeps ==
  ASSUME TypeOK, Connections, NEW todo, Start(todo),
         UNCHANGED <<session, handler, calling, cut, races>>,
         \/ UNCHANGED <<startCall, launched>>
         \/ /\ startCall' # "idle"
            /\ launched' = IF record' # record THEN record' ELSE NoOne
  PROVE  Connections'
<1>1. \A c \in Clients : phase'[c] # phase[c] =>
        phase[c] = "NONE" /\ phase'[c] = "LAUNCHED"
  BY DEF Start, TypeOK
<1>2. record' # record => /\ record' \in Clients /\ phase[record'] = "NONE"
                          /\ phase'[record'] = "LAUNCHED"
  BY DEF Start, TypeOK
<1>3. JoinsOnce(handler, phase)'
  BY <1>1 DEF JoinsOnce, Connections
<1>4. KeptForConnect'
  BY <1>1 DEF KeptForConnect, Connections, LaunchedIsKnown
<1>5. LaunchedIsKnown'
  <2>1. \A c \in Clients : session'.token = c => phase'[c] # "NONE"
    BY <1>1 DEF Connections, LaunchedIsKnown
  <2>2. \A c \in cut' : phase'[c] # "NONE" /\ (phase'[c] = "LAUNCHED" => session'.token # c)
    BY <1>1 DEF Connections, LaunchedIsKnown, TypeOK
  <2>3. CASE UNCHANGED <<startCall, launched>>
    <3>1. launched # NoOne => phase'[launched] = phase[launched]
      BY <1>1 DEF Connections, LaunchedIsKnown, TypeOK, AnyOne
    <3>2. QED BY <2>1, <2>2, <2>3, <3>1 DEF Connections, LaunchedIsKnown
  <2>4. CASE startCall' # "idle" /\ launched' = IF record' # record THEN record' ELSE NoOne
    <3>1. launched' # NoOne => record' # record /\ launched' = record' /\ record' \notin cut'
      BY <1>2, <2>4 DEF Connections, LaunchedIsKnown
    <3>2. QED BY <1>2, <2>1, <2>2, <2>4, <3>1 DEF LaunchedIsKnown
  <2>5. QED BY <2>3, <2>4
<1>6. CallersHaveWindows'
  BY <1>1 DEF CallersHaveWindows, Connections
<1>7. ActiveFlagAgrees'
  BY DEF ActiveFlagAgrees, Connections
<1>8. ExpectedConnects'
  BY <1>1 DEF ExpectedConnects, Connections
<1>9. QED BY <1>3, <1>4, <1>5, <1>6, <1>7, <1>8 DEF Connections

LEMMA ConnectTaskKeeps ==
  ASSUME TypeOK, Connections, ConnectTask
  PROVE  Connections'
<1> DEFINE c0 == AtFront
<1>1. /\ handler \in Seq(Jobs) /\ handler # <<>> /\ handler' = Tail(handler) /\ c0 \in Clients
      /\ Head(handler).do = "Connect" /\ Head(handler).by = c0 /\ startCall = "idle"
      /\ Head(handler) = handler[1] /\ 1 \in 1 .. Len(handler)
  BY FrontIs, TailIs DEF ConnectTask, Joins, AtFront
<1>2. /\ JoinsOnce(handler', phase) /\ phase[c0] \notin { "NONE", "LAUNCHED" }
      /\ \A c \in Clients : ToConnect(handler', c) => ToConnect(handler, c) /\ c # c0
  BY <1>1, JoinsOnceTail DEF Connections, Joins
<1>3. session' = ConnectInner(session, c0) /\ session \in Sessions
  BY TypeIs DEF ConnectTask
<1>4. /\ startCall' = startCall /\ launched' = launched /\ calling' = calling /\ cut' = cut
      /\ races' = IF CanConnect(session, c0) /\ session.isActive /\ session.token = NoOne
                    THEN races \cup {"leftover"} ELSE races
      /\ phase' = [phase EXCEPT ![c0] = IF @ # "CONNECTING" THEN @
                     ELSE IF CanConnect(session, c0) THEN "CREATED" ELSE "FAILED"]
  BY DEF ConnectTask, clientVars
<1>5. session.token = c0 => Untouched(session, races)
  <2>1. ToConnect(handler, c0)
    BY <1>1 DEF ToConnect
  <2>2. QED BY <1>1, <2>1 DEF Connections, KeptForConnect
<1> HIDE DEF c0
<1>6. session'.token = session.token
  BY <1>1, <1>3, SessionOwner
<1>7. FlagAgrees(session', races')
  <2>1. FlagAgrees(session, races)
    BY FlagIs DEF Connections
  <2>2. CASE ~CanConnect(session, c0)
    BY <1>3, <1>4, <2>1, <2>2 DEF ConnectInner, FlagAgrees
  <2>3. CASE CanConnect(session, c0)
    <3>1. session'.state = "CONNECT" /\ session'.isActive = session.isActive
      BY <1>3, <2>3 DEF ConnectInner, Sessions
    <3>2. session.isActive => "leftover" \in races' \/ "lateRecovery" \in races'
      BY <1>4, <1>5, <2>3 DEF CanConnect, CheckIdentityTokenIfMatched, Untouched
    <3>3. QED BY <3>1, <3>2 DEF FlagAgrees
  <2>4. QED BY <2>2, <2>3
<1>8. launched = NoOne
  BY <1>1 DEF Connections, LaunchedIsKnown
<1>9. \A c \in Clients : PhaseStep(c)
  <2> SUFFICES ASSUME NEW c \in Clients, phase'[c] # phase[c] PROVE PhaseStep(c)
    BY DEF PhaseStep
  <2>1. /\ c = c0 /\ phase[c0] = "CONNECTING"
        /\ phase'[c] = IF CanConnect(session, c0) THEN "CREATED" ELSE "FAILED"
    BY <1>1, <1>4 DEF TypeOK
  <2>2. ~CanConnect(session, c0) /\ session.token = c0 => "lateRecovery" \in races'
    BY <1>4, <1>5 DEF CanConnect, CheckIdentityTokenIfMatched, Untouched
  <2>3. launched # c
    BY <1>8, ClientsAssumption
  <2>4. QED BY <2>1, <2>2, <2>3 DEF PhaseStep
<1>10. ASSUME NEW c \in Clients, session.token = c, ToCome(c)'
       PROVE  ToCome(c) /\ (Untouched(session, races) => Untouched(session', races'))
  <2>1. ToCome(c) /\ c # c0
    BY <1>2, <1>4, <1>10, <1>1 DEF ToCome, TypeOK
  <2>2. session' = session
    BY <1>3, <1>10, <2>1, ClientsAssumption
      DEF ConnectInner, CanConnect, CheckIdentityTokenIfMatched
  <2>3. QED BY <1>4, <2>1, <2>2 DEF Untouched
<1>11. JoinsOnce(handler', phase')
  BY <1>2, <1>9 DEF PhaseStep, JoinsOnce
<1>12. CallersHaveWindows'
  <2>1. \A c \in Clients : phase'[c] = phase[c] \/ phase[c] = "CONNECTING"
    BY <1>1, <1>4 DEF TypeOK
  <2>2. QED BY <1>4, <2>1 DEF Connections, CallersHaveWindows
<1>13. SameToken
  BY <1>4, <1>6, <1>7, <1>8, <1>9, <1>10, <1>11, <1>12 DEF SameToken
<1>14. QED BY <1>13, SameTokenKeeps

LEMMA ReconnectTaskKeeps ==
  ASSUME TypeOK, Connections, ReconnectTask
  PROVE  Connections'
<1> DEFINE c0 == AtFront
<1>1. /\ handler \in Seq(Jobs) /\ handler # <<>> /\ handler' = Tail(handler) /\ c0 \in Clients
      /\ Head(handler).do \in Joins /\ Head(handler).by = c0 /\ startCall = "idle"
  BY FrontIs DEF ReconnectTask, Joins, AtFront
<1>2. /\ JoinsOnce(handler', phase) /\ phase[c0] \notin { "NONE", "LAUNCHED" }
      /\ \A c \in Clients : ToConnect(handler', c) => ToConnect(handler, c) /\ c # c0
  BY <1>1, JoinsOnceTail DEF Connections
<1>3. PICK shown \in BOOLEAN : session' = Reconnect(session, c0, shown)
  BY DEF ReconnectTask
<1>4. /\ startCall' = startCall /\ launched' = launched /\ calling' = calling
      /\ phase' = phase /\ cut' \subseteq cut /\ races \subseteq races'
      /\ ~CheckIdentityTokenIfMatched(session, c0) => "lateRecovery" \in races'
  BY DEF ReconnectTask, clientVars
<1> HIDE DEF c0
<1>5. session \in Sessions /\ FlagAgrees(session, races')
  BY <1>4, TypeIs, FlagIs DEF Connections, FlagAgrees
<1>6. session'.token = session.token /\ FlagAgrees(session', races')
  BY <1>1, <1>3, <1>5, SessionOwner, FlagKept
<1>7. ASSUME NEW c \in Clients, session.token = c, ToCome(c)'
      PROVE  ToCome(c) /\ (Untouched(session, races) => Untouched(session', races'))
  <2>1. ToCome(c) /\ c # c0
    BY <1>2, <1>4, <1>7 DEF ToCome
  <2>2. "lateRecovery" \in races'
    BY <1>4, <1>7, <2>1, ClientsAssumption DEF CheckIdentityTokenIfMatched
  <2>3. QED BY <2>1, <2>2 DEF Untouched
<1>8. launched = NoOne
  BY <1>1 DEF Connections, LaunchedIsKnown
<1>9. SameToken
  BY <1>2, <1>4, <1>6, <1>7, <1>8 DEF SameToken, PhaseStep, Connections, CallersHaveWindows
<1>10. QED BY <1>9, SameTokenKeeps

LEMMA StartReturnsKeeps ==
  ASSUME TypeOK, Connections, StartReturns
  PROVE  Connections'
<1>1. /\ handler' = handler /\ phase' = phase /\ calling' = calling /\ cut' = cut
      /\ launched' = NoOne /\ races \subseteq races' /\ session \in Sessions
  BY TypeIs DEF StartReturns, clientVars
<1>2. FlagAgrees(session, races')
  BY <1>1, FlagIs DEF Connections, FlagAgrees
<1>3. CASE launched = NoOne
  <2>1. session' = session /\ (Untouched(session, races) => Untouched(session', races'))
    BY <1>1, <1>3 DEF StartReturns, Untouched
  <2>2. QED BY <1>1, <1>2, <2>1, SessionStep
<1>4. CASE launched # NoOne
  <2>1. launched \in Clients /\ session' = ColdStart(session, launched, startCall)
    BY <1>4 DEF StartReturns, TypeOK, AnyOne
  <2>a. /\ session'.token = launched /\ session'.state = "DISCONNECT"
        /\ session'.isActive => session.isActive /\ startCall # "Activation"
    BY <1>1, <2>1, ColdStarted
  <2>b. session'.isActive => "leftover" \in races'
    BY <1>4, <2>a DEF StartReturns, TypeOK
  <2>2. session'.token = launched /\ FlagAgrees(session', races')
    BY <2>a, <2>b DEF FlagAgrees
  <2>3. Untouched(session', races')
    BY <2>a, <2>b DEF Untouched
  <2>4. /\ phase[launched] \in { "LAUNCHED", "CONNECTING", "DEAD" }
        /\ launched \notin cut
    BY <1>4 DEF Connections, LaunchedIsKnown
  <2>5. JoinsOnce(handler, phase)' /\ CallersHaveWindows'
    BY <1>1 DEF Connections, CallersHaveWindows
  <2>6. KeptForConnect'
    BY <2>3 DEF KeptForConnect
  <2>7. LaunchedIsKnown'
    BY <1>1, <2>2, <2>4 DEF Connections, LaunchedIsKnown
  <2>8. ActiveFlagAgrees' /\ ExpectedConnects'
    BY <1>1, <2>2, <2>4, FlagIs DEF ExpectedConnects
  <2>9. QED BY <2>5, <2>6, <2>7, <2>8 DEF Connections
<1>5. QED BY <1>3, <1>4

LEMMA CrashKeeps ==
  ASSUME TypeOK, Connections, Crash
  PROVE  Connections'
<1>1. /\ session' = NewSession /\ handler' = <<>> /\ launched' = NoOne
      /\ calling' = [c \in Clients |-> "no"] /\ races' = races
      /\ phase' = [c \in Clients |-> IF phase[c] = "CONNECTING" THEN "FAILED" ELSE phase[c]]
      /\ cut' = { c \in Clients : phase[c] # "NONE" }
  BY DEF Crash
<1>2. \A c \in Clients : session'.token # c /\ ~session'.isActive /\ session'.state = "DISCONNECT"
  BY <1>1, ClientsAssumption DEF NewSession
<1>3. JoinsOnce(handler, phase)'
  BY <1>1 DEF JoinsOnce, JoinsOf
<1>4. KeptForConnect' /\ ExpectedConnects' /\ CallersHaveWindows'
  BY <1>1, <1>2 DEF KeptForConnect, ExpectedConnects, CallersHaveWindows
<1>5. LaunchedIsKnown'
  BY <1>1, <1>2 DEF LaunchedIsKnown
<1>6. ActiveFlagAgrees'
  BY <1>1 DEF ActiveFlagAgrees, NewSession
<1>7. QED BY <1>3, <1>4, <1>5, <1>6 DEF Connections

LEMMA ConnectionInvariant ==
  ASSUME TypeOK, Connections, [Next]_vars
  PROVE  Connections'
<1> USE DEF vars, serverVars, amsVars, clientVars, boundVars, historyVars
<1>a. session \in Sessions /\ handler \in Seq(Jobs) /\ FlagAgrees(session, races)
  BY TypeIs, FlagIs DEF Connections
<1>b. startCall = "idle" => launched = NoOne
  BY DEF Connections, LaunchedIsKnown
<1>1. ASSUME RequestSceneSessionActivation \/ RequestSceneSessionByCall PROVE Connections'
  <2>1. startCall = "idle" /\ launched' = launched /\ session' = session /\ races' = races
    BY <1>1 DEF RequestSceneSessionActivation, RequestSceneSessionByCall, Front
  <2>2. handler # <<>> /\ handler' = Tail(handler) /\ UNCHANGED <<phase, calling, cut>>
    BY <1>1 DEF RequestSceneSessionActivation, RequestSceneSessionByCall, Front
  <2>3. QED BY <1>a, <1>b, <2>1, <2>2, SessionStep
<1>2. ASSUME RequestSceneSessionBackground PROVE Connections'
  <2> DEFINE s == SetActive(session, FALSE)
  <2>1. s \in Sessions
    BY <1>a DEF SetActive, Sessions, States
  <2>2. s.token = session.token /\ FlagAgrees(s, races)
    BY <1>a DEF SetActive, Sessions, States, FlagAgrees
  <2>3. Untouched(session, races) => Untouched(s, races)
    BY <1>a DEF SetActive, Sessions, States, Untouched
  <2>4. session' = Background(s) /\ races' = races
    BY <1>2 DEF RequestSceneSessionBackground
  <2> HIDE DEF s
  <2>5. session'.token = session.token
    BY <2>1, <2>2, <2>4 DEF Background, Sessions
  <2>6. FlagAgrees(session', races')
    BY <2>1, <2>2, <2>4 DEF Background, Sessions, States, FlagAgrees
  <2>7. Untouched(session, races) => Untouched(session', races')
    BY <2>1, <2>3, <2>4 DEF Background, Sessions, States, Untouched
  <2>8. /\ startCall = "idle" /\ launched' = launched
        /\ handler # <<>> /\ handler' = Tail(handler) /\ UNCHANGED <<phase, calling, cut>>
    BY <1>2 DEF RequestSceneSessionBackground, Front
  <2>9. QED BY <1>b, <2>4, <2>5, <2>6, <2>7, <2>8, SessionStep
<1>3. ASSUME RequestSceneSessionDestruction PROVE Connections'
  <2>1. session' = Disconnect(session) /\ races' = races
    BY <1>3 DEF RequestSceneSessionDestruction
  <2>2. session'.token = session.token /\ FlagAgrees(session', races')
    BY <1>a, <2>1 DEF Disconnect, Sessions, FlagAgrees
  <2>3. Untouched(session, races) => Untouched(session', races')
    BY <1>a, <2>1 DEF Disconnect, Sessions, Untouched
  <2>4. /\ startCall = "idle" /\ launched' = launched
        /\ handler # <<>> /\ handler' = Tail(handler) /\ UNCHANGED <<phase, calling, cut>>
    BY <1>3 DEF RequestSceneSessionDestruction, Front
  <2>5. QED BY <1>b, <2>1, <2>2, <2>3, <2>4, SessionStep
<1>4. ASSUME ClientTask PROVE Connections'
  <2>1. /\ session' \in { Foreground(session), Background(session), DisconnectByClient(session) }
        /\ startCall = "idle" /\ launched' = launched
        /\ handler # <<>> /\ handler' = Tail(handler) /\ UNCHANGED <<phase, calling, cut>>
        /\ races \subseteq races'
    BY <1>4 DEF ClientTask, ForegroundTask, BackgroundTask, DisconnectTask, Front
  <2>2. session'.token = session.token
    BY <1>a, <2>1 DEF Foreground, SetActive, Background, DisconnectByClient, Sessions
  <2>3. FlagAgrees(session, races')
    BY <1>a, <2>1 DEF FlagAgrees
  <2>4. FlagAgrees(session', races')
    BY <1>a, <2>1, <2>3 DEF Foreground, SetActive, Background, DisconnectByClient, Sessions,
      States, FlagAgrees
  <2>5. Untouched(session, races) => Untouched(session', races')
    BY <1>a, <2>1 DEF Foreground, SetActive, Background, DisconnectByClient, Sessions,
      States, Untouched
  <2>6. QED BY <1>b, <2>1, <2>2, <2>4, <2>5, SessionStep
<1>5. ASSUME StartUIAbilityBySCB PROVE Connections'
  BY <1>5, StartKeeps DEF StartUIAbilityBySCB
<1>6. ASSUME LateStart PROVE Connections'
  BY <1>6, StartKeeps DEF LateStart
<1>7. ASSUME CloseUIAbilityBySCB \/ StartTimesOut PROVE Connections'
  <2>1. /\ UNCHANGED <<session, handler, races, phase, calling, cut>>
        /\ \/ launched' = NoOne
           \/ launched' = launched /\ startCall' = startCall
    BY <1>7 DEF CloseUIAbilityBySCB, StartTimesOut
  <2>2. QED BY <1>a, <1>b, <2>1, SessionStep
<1>8. ASSUME SetTerminating PROVE Connections'
  <2>1. /\ UNCHANGED <<handler, races, phase, calling, cut, launched, startCall>>
        /\ session' = [session EXCEPT !.isTerminating = TRUE]
    BY <1>8 DEF SetTerminating
  <2>2. /\ session'.token = session.token /\ session'.state = session.state
        /\ session'.isActive = session.isActive
    BY <1>a, <2>1 DEF Sessions
  <2>3. FlagAgrees(session', races') /\ (Untouched(session, races) => Untouched(session', races'))
    BY <1>a, <2>1, <2>2 DEF FlagAgrees, Untouched
  <2>4. QED BY <1>b, <2>1, <2>2, <2>3, SessionStep
<1>9. ASSUME NEW job \in SceneBoardJobs, Request(job) PROVE Connections'
  <2> DEFINE j == Job(job, NoOne, FALSE)
  <2>1. j \in Jobs /\ j.do \notin Joins
    BY JobKinds DEF Job
  <2>2. /\ handler' = Append(handler, j) /\ races' = races
        /\ UNCHANGED <<session, launched, startCall, cut, phase, calling>>
    BY <1>9 DEF Request
  <2> HIDE DEF j
  <2>3. (\A c \in Clients : PhaseStep(c)) /\ CallersHaveWindows'
    BY <2>2 DEF PhaseStep, Connections, CallersHaveWindows
  <2>4. QED BY <2>1, <2>2, <2>3, AppendStep
<1>10. ASSUME NEW c \in Clients, Create(c) PROVE Connections'
  <2>1. CallersHaveWindows'
    <3>1. \A d \in Clients : calling'[d] = calling[d] /\ (phase'[d] = phase[d] \/ phase[d] = "LAUNCHED")
      BY <1>10 DEF Create, TypeOK
    <3>2. QED BY <3>1 DEF Connections, CallersHaveWindows
  <2>2. CASE c \in cut
    <3>1. /\ UNCHANGED <<session, handler, launched, startCall, cut, races>>
          /\ phase[c] = "LAUNCHED" /\ phase' = [phase EXCEPT ![c] = "FAILED"]
      BY <1>10, <2>2 DEF Create
    <3>2. launched # c /\ session.token # c
      BY <2>2, <3>1, ClientsAssumption DEF Connections, LaunchedIsKnown
    <3>3. \A d \in Clients : PhaseStep(d)
      BY <3>1, <3>2 DEF PhaseStep, TypeOK
    <3>4. QED BY <2>1, <3>1, <3>3, ClientKeeps
  <2>3. CASE c \notin cut
    <3> DEFINE j == Job("Connect", c, FALSE)
    <3>1. j \in Jobs /\ j.by = c /\ j.do = "Connect"
      BY JobKinds DEF Job, Joins
    <3>2. /\ handler' = Append(handler, j) /\ phase' = [phase EXCEPT ![c] = "CONNECTING"]
          /\ UNCHANGED <<session, launched, startCall, cut, races>> /\ phase[c] = "LAUNCHED"
      BY <1>10, <2>3 DEF Create
    <3> HIDE DEF j
    <3>3. JoinsOf(handler, c) = {} /\ JoinsOnce(handler, phase')
      BY <3>2 DEF Connections, JoinsOnce, TypeOK
    <3>4. phase'[c] = "CONNECTING"
      BY <3>2 DEF TypeOK
    <3>5. /\ JoinsOnce(handler', phase')
          /\ \A d \in Clients : ToConnect(handler', d) => ToConnect(handler, d) \/ d = c
      BY <1>a, <3>1, <3>2, <3>3, <3>4, JoinsOnceAppend
    <3>6. \A d \in Clients : PhaseStep(d)
      BY <3>2 DEF PhaseStep, TypeOK
    <3>7. SameToken
      BY <1>a, <1>b, <2>1, <3>2, <3>5, <3>6 DEF SameToken, ToCome, TypeOK
    <3>8. QED BY <3>7, SameTokenKeeps
  <2>4. QED BY <2>2, <2>3
<1>11. ASSUME NEW c \in Clients, Show(c) \/ Hide(c) \/ Destroy(c) PROVE Connections'
  <2>1. UNCHANGED <<session, handler, launched, startCall, cut, races>> /\ calling[c] = "no"
    BY <1>11 DEF Show, Hide, Destroy, MainThread
  <2>2. /\ \A d \in Clients \ {c} : phase'[d] = phase[d] /\ calling'[d] = calling[d]
        /\ \/ phase'[c] = phase[c]
           \/ HasWindow(c) /\ phase'[c] \in { "HIDDEN", "DESTROYED" }
        /\ calling'[c] # "no" => HasWindow(c) /\ phase'[c] = phase[c]
    BY <1>11, <2>1 DEF Show, Hide, Destroy, HasWindow, TypeOK
  <2>3. launched = c => phase[c] \in { "LAUNCHED", "CONNECTING", "DEAD" }
    BY ClientsAssumption DEF Connections, LaunchedIsKnown
  <2>4. \A d \in Clients : PhaseStep(d)
    BY <2>2, <2>3 DEF PhaseStep, HasWindow
  <2>5. CallersHaveWindows'
    BY <2>2 DEF Connections, CallersHaveWindows, HasWindow
  <2>6. QED BY <2>1, <2>4, <2>5, ClientKeeps
<1>12. ASSUME NEW c \in Clients, Die(c) PROVE Connections'
  <2>1. /\ UNCHANGED <<session, handler, launched, startCall, cut, races, calling>>
        /\ phase' = [phase EXCEPT ![c] = "DEAD"] /\ phase[c] # "NONE"
    BY <1>12 DEF Die
  <2>2. (\A d \in Clients : PhaseStep(d)) /\ CallersHaveWindows'
    BY <2>1 DEF PhaseStep, Connections, CallersHaveWindows, TypeOK
  <2>3. QED BY <2>1, <2>2, ClientKeeps
<1>13. ASSUME NEW c \in Clients, RecoverAndReconnectSceneSession(c) PROVE Connections'
  <2> DEFINE j == Job(IF phase[c] = "SHOWN" THEN "ReconnectShown" ELSE "ReconnectHidden", c, FALSE)
  <2>1. j \in Jobs /\ j.by = c /\ j.do # "Connect"
    BY JobKinds DEF Job, Joins
  <2>2. /\ handler' = Append(handler, j) /\ HasWindow(c)
        /\ \A i \in 1 .. Len(handler) : handler[i].by # c
        /\ UNCHANGED <<session, launched, startCall, cut, races, phase, calling>>
    BY <1>13, <1>a, RangeIs DEF RecoverAndReconnectSceneSession
  <2> HIDE DEF j
  <2>3. JoinsOf(handler, c) = {} /\ JoinsOnce(handler, phase)
    BY <2>2 DEF Connections, JoinsOf
  <2>4. /\ JoinsOnce(handler', phase)
        /\ \A d \in Clients : ToConnect(handler', d) => ToConnect(handler, d)
    BY <1>a, <2>1, <2>2, <2>3, JoinsOnceAppend DEF HasWindow
  <2>5. SameToken
    BY <1>a, <1>b, <2>2, <2>4 DEF SameToken, ToCome, PhaseStep, Connections, CallersHaveWindows
  <2>6. QED BY <2>5, SameTokenKeeps
<1>14. ASSUME NEW c \in Clients, CheckForeground(c) \/ PostForeground(c)
       PROVE  /\ \A d \in Clients : PhaseStep(d)
              /\ CallersHaveWindows'
  <2>1. /\ \A d \in Clients \ {c} : phase'[d] = phase[d] /\ calling'[d] = calling[d]
        /\ calling[c] # "no"
        /\ phase'[c] \in { phase[c], IF phase[c] = "DEAD" THEN "DEAD" ELSE "SHOWN" }
    BY <1>14 DEF CheckForeground, PostForeground, TypeOK
  <2>2. phase[c] \notin { "NONE", "LAUNCHED", "CONNECTING", "FAILED" }
    BY <2>1 DEF Connections, CallersHaveWindows
  <2>3. launched = c => phase[c] \in { "LAUNCHED", "CONNECTING", "DEAD" }
    BY ClientsAssumption DEF Connections, LaunchedIsKnown
  <2>4. QED BY <2>1, <2>2, <2>3 DEF PhaseStep, Connections, CallersHaveWindows
<1>15. ASSUME NEW c \in Clients, CheckForeground(c) PROVE Connections'
  BY <1>14, <1>15, ClientKeeps DEF CheckForeground
<1>16. ASSUME NEW c \in Clients, CheckOneWay(c) PROVE Connections'
  <2>1. UNCHANGED <<session, handler, launched, startCall, cut, races, phase, calling>>
    BY <1>16 DEF CheckOneWay
  <2>2. (\A d \in Clients : PhaseStep(d)) /\ CallersHaveWindows'
    BY <2>1 DEF PhaseStep, Connections, CallersHaveWindows
  <2>3. QED BY <2>1, <2>2, ClientKeeps
<1>17. ASSUME NEW c \in Clients, PostForeground(c) PROVE Connections'
  <2> DEFINE j == Job("Foreground", c, Behind(c))
  <2>1. j \in Jobs /\ j.do \notin Joins
    BY JobKinds DEF Job, Joins, ClientJobs, Behind
  <2>2. /\ handler' = Append(handler, j) /\ races \subseteq races'
        /\ UNCHANGED <<session, launched, startCall, cut>>
    BY <1>17 DEF PostForeground
  <2> HIDE DEF j
  <2>3. QED BY <1>14, <1>17, <2>1, <2>2, AppendStep
<1>18. ASSUME NEW c \in Clients, PostOneWay(c) PROVE Connections'
  <2> DEFINE j == Job(passed[c], c, Behind(c))
  <2>1. j \in Jobs /\ j.do \notin Joins
    <3>1. passed[c] \in ClientJobs /\ Behind(c) \in BOOLEAN
      BY <1>18 DEF PostOneWay, TypeOK, ClientJobs, Behind
    <3>2. QED BY <3>1, JobKinds DEF Job
  <2>2. /\ handler' = Append(handler, j) /\ races \subseteq races'
        /\ UNCHANGED <<session, launched, startCall, cut, phase, calling>>
    BY <1>18 DEF PostOneWay
  <2> HIDE DEF j
  <2>3. (\A d \in Clients : PhaseStep(d)) /\ CallersHaveWindows'
    BY <2>2 DEF PhaseStep, Connections, CallersHaveWindows
  <2>4. QED BY <2>1, <2>2, <2>3, AppendStep
<1>19. CASE UNCHANGED vars
  <2>1. (\A d \in Clients : PhaseStep(d)) /\ CallersHaveWindows'
    BY <1>19 DEF PhaseStep, Connections, CallersHaveWindows
  <2>2. QED BY <1>19, <2>1, ClientKeeps
<1>20. QED
  BY <1>1, <1>2, <1>3, <1>4, <1>5, <1>6, <1>7, <1>8, <1>9, <1>10, <1>11, <1>12, <1>13,
     <1>15, <1>16, <1>17, <1>18, <1>19,
     ConnectTaskKeeps, ReconnectTaskKeeps, StartReturnsKeeps, CrashKeeps
     DEF Next, HandlerStep, ClientStep, Environment
-----------------------------------------------------------------------------
LEMMA InitInv == Init => Inv
<1> SUFFICES ASSUME Init PROVE Inv
  OBVIOUS
<1>1. TypeOK
  <2>1. session \in Sessions /\ handler \in Seq(Jobs)
    BY DEF Init, NewSession, Sessions, States, AnyOne
  <2>2. /\ toDo \in [Clients -> Seq({ "Show", "Hide", "Destroy" })]
        /\ wire \in [Clients -> Seq({ "Background", "Disconnect" })]
    BY DEF Init
  <2>3. /\ phase \in [Clients -> Phases]
        /\ calling \in [Clients -> { "no", "asked", "passed" }]
        /\ passed \in [Clients -> { "none", "Background", "Disconnect" }]
    BY DEF Init, Phases
  <2>4. requests \in 0 .. MaxRequests /\ crashes \in 0 .. MaxCrashes
    BY BoundsAssumption DEF Init
  <2>5. OtherTypes
    BY <2>2, <2>3, <2>4 DEF Init, OtherTypes, AnyOne
  <2>6. QED BY <2>1, <2>5, TypeIs
<1>2. Orderly(handler, session.callingPid) /\ PassedInTime
  BY DEF Init, Orderly, PassedInTime, Passed
<1>3. JoinsOnce(handler, phase) /\ CallersHaveWindows
  BY DEF Init, JoinsOnce, JoinsOf, CallersHaveWindows
<1>4. KeptForConnect /\ LaunchedIsKnown /\ ExpectedConnects
  BY ClientsAssumption DEF Init, NewSession, KeptForConnect, LaunchedIsKnown, ExpectedConnects
<1>5. ActiveFlagAgrees
  BY DEF Init, NewSession, ActiveFlagAgrees
<1>6. QED BY <1>1, <1>2, <1>3, <1>4, <1>5 DEF Inv

LEMMA NextInv == Inv /\ [Next]_vars => Inv'
BY TypeInvariant, OrderInvariant, ConnectionInvariant DEF Inv, Connections

LEMMA SpecInv == Spec => []Inv
BY InitInv, NextInv, PTL DEF Spec

LEMMA InvOrder == Inv => OrderProtects
<1> SUFFICES ASSUME Inv, handler # <<>>, Head(handler).do \in ClientJobs, ~Head(handler).behind
             PROVE  session.callingPid \in { Head(handler).by, NoOne }
  BY DEF OrderProtects
<1>1. Head(handler) = handler[1] /\ 1 \in 1 .. Len(handler)
  BY HandlerTyped, TailIs DEF Inv
<1>2. QED BY <1>1 DEF Inv, Orderly

(* The variables keep the types of the members and queues they stand for.  *)
THEOREM LifecycleTyped == Spec => []TypeOK
BY SpecInv, PTL DEF Inv

(* isActive_ and state_ agree, but for the two known leftovers.            *)
THEOREM ActiveFlagIsKept == Spec => []ActiveFlagAgrees
BY SpecInv, PTL DEF Inv

(* The order of the handler's queue does what the jobs' missing names do   *)
(* not: a client's job runs on its own connection unless it was posted     *)
(* late.                                                                   *)
THEOREM QueueOrderProtects == Spec => []OrderProtects
BY SpecInv, InvOrder, PTL

(* A client that SceneBoard knows to be starting is not refused.           *)
THEOREM ExpectedClientConnects == Spec => []ExpectedConnects
BY SpecInv, PTL DEF Inv
-----------------------------------------------------------------------------
(* What each client has under way.  The queues are taken as the sets of    *)
(* what is in them, except where the last request counts.                  *)
Mine(c) == { j \in Range(handler) : j.by = c }
Told(c, do) == do \in Range(toDo[c])

(* A client is silent before it has connected and while its host is dead;  *)
(* it calls Foreground with a window that is not shown, and it disconnects *)
(* a window it has destroyed.                                              *)
Silent(c) ==
  /\ calling[c] = "no" /\ wire[c] = <<>> /\ passed[c] = "none"
  /\ \A j \in Mine(c) : j.do \notin ClientJobs

Leaves(c) ==
  \/ "Disconnect" \in Range(wire[c]) \/ passed[c] = "Disconnect"
  \/ \E j \in Mine(c) : j.do = "Disconnect"

(* A connection on its way finds the client as it was when it was sent,    *)
(* unless the window has been destroyed since.                             *)
Expected(c, j) ==
  /\ j.do = "Connect" => phase[c] \in { "CONNECTING", "DEAD" } /\ c \notin cut
  /\ j.do \in { "ReconnectShown", "ReconnectHidden" } =>
       c \in cut /\ (HasWindow(c) => (phase[c] = "SHOWN" <=> j.do = "ReconnectShown"))

TrafficOf(c) ==
  /\ calling[c] # "no" => phase[c] \in { "CREATED", "HIDDEN", "DEAD" }
  /\ phase[c] \in { "NONE", "LAUNCHED", "CONNECTING" } \/ c \in cut => Silent(c)
  /\ Leaves(c) => phase[c] \in { "DESTROYED", "DEAD" }
  /\ \A j \in Mine(c) : Expected(c, j)

(* AMS holds every client that lives with a window or will have one,       *)
(* unless the client has been told to destroy it.                          *)
Live == { "LAUNCHED", "CONNECTING", "CREATED", "SHOWN", "HIDDEN" }
HeldOrTold == \A c \in Clients : phase[c] \in Live => record = c \/ Told(c, "Destroy")

(* FOREGROUND and INACTIVE are left within the job that enters them.       *)
Settled == races = {} => session.state \notin { "FOREGROUND", "INACTIVE" }

(* What a client's request makes of its own window.                        *)
After(do) ==
  CASE do = "Foreground" -> "SHOWN" [] do = "Background" -> "HIDDEN" [] OTHER -> "DESTROYED"

(* The window is as c's last job in the queue says, if there is any.       *)
LastIsMet(jobs, c, p) ==
  \A i \in 1 .. Len(jobs) :
    jobs[i].by = c /\ (\A k \in 1 .. Len(jobs) : i < k => jobs[k].by # c) =>
      p = After(jobs[i].do)

Sent(c) == wire[c] = <<>> /\ passed[c] = "none"
Closes(c) == Told(c, "Destroy") \/ (closing > 0 /\ record = c)

(* The session's client: the connection is its own, its window is as its   *)
(* last request says, and once the requests have been carried out the      *)
(* session agrees with the window unless the client has been told to       *)
(* change it.                                                              *)
Own(c) ==
  /\ phase[c] \in { "CREATED", "SHOWN", "HIDDEN", "DESTROYED" } /\ c \notin cut
  /\ session.stage = c /\ session.token \in { NoOne, c }
  /\ \A j \in Mine(c) : j.do \notin Joins

LastRequest(c) ==
  /\ wire[c] # <<>> => phase[c] = After(wire[c][Len(wire[c])])
  /\ wire[c] = <<>> /\ passed[c] # "none" => phase[c] = After(passed[c])
  /\ Sent(c) => LastIsMet(handler, c, phase[c])

Agrees(c) ==
  /\ session.state = "DISCONNECT" => phase[c] = "DESTROYED" \/ Closes(c)
  /\ Sent(c) /\ Mine(c) = {} =>
       /\ phase[c] = "SHOWN" => session.state = "ACTIVE" \/ Told(c, "Hide") \/ Closes(c)
       /\ session.state = "ACTIVE" => phase[c] = "SHOWN"

Follows(c) ==
  races = {} /\ session.callingPid = c /\ phase[c] # "DEAD" =>
    Own(c) /\ LastRequest(c) /\ Agrees(c)

Traffic == \A c \in Clients : TrafficOf(c)
Agreement == \A c \in Clients : Follows(c)

QuietInv == Inv /\ Traffic /\ HeldOrTold /\ Settled /\ Agreement
-----------------------------------------------------------------------------
LEMMA RangeOfTail ==
  ASSUME NEW S, NEW s \in Seq(S), s # <<>>
  PROVE  /\ Head(s) \in Range(s) /\ Range(s) = Range(Tail(s)) \cup {Head(s)}
<1> DEFINE t == Tail(s)
<1>1. /\ Head(s) = s[1] /\ Len(s) \in Nat /\ 1 \in 1 .. Len(s) /\ DOMAIN s = 1 .. Len(s)
      /\ DOMAIN t = 1 .. Len(t)
      /\ \A i \in 1 .. Len(t) : i + 1 \in 1 .. Len(s) /\ t[i] = s[i + 1]
      /\ \A i \in 1 .. Len(s) : i = 1 \/ (i - 1 \in 1 .. Len(t) /\ t[i - 1] = s[i])
  OBVIOUS
<1> HIDE DEF t
<1>2. ASSUME NEW v \in Range(s) PROVE v \in Range(t) \cup {Head(s)}
  <2>1. PICK i \in 1 .. Len(s) : v = s[i]
    BY <1>1 DEF Range
  <2>2. QED BY <1>1, <2>1 DEF Range
<1>3. ASSUME NEW v \in Range(t) PROVE v \in Range(s)
  <2>1. PICK i \in 1 .. Len(t) : v = t[i]
    BY <1>1 DEF Range
  <2>2. QED BY <1>1, <2>1 DEF Range
<1>4. Head(s) \in Range(s)
  BY <1>1 DEF Range
<1>5. QED BY <1>2, <1>3, <1>4 DEF t

LEMMA RangeOfConcat ==
  ASSUME NEW S, NEW s \in Seq(S), NEW t \in Seq(S)
  PROVE  Range(s \o t) = Range(s) \cup Range(t)
<1> DEFINE u == s \o t
<1>1. /\ Len(s) \in Nat /\ Len(t) \in Nat /\ Len(u) = Len(s) + Len(t)
      /\ DOMAIN s = 1 .. Len(s) /\ DOMAIN t = 1 .. Len(t) /\ DOMAIN u = 1 .. Len(u)
      /\ \A i \in 1 .. Len(s) : u[i] = s[i]
      /\ \A i \in 1 .. Len(t) : u[Len(s) + i] = t[i]
      /\ \A i \in 1 .. Len(u) : i > Len(s) => u[i] = t[i - Len(s)]
  OBVIOUS
<1> HIDE DEF u
<1>2. ASSUME NEW v \in Range(u) PROVE v \in Range(s) \cup Range(t)
  <2>1. PICK i \in 1 .. Len(u) : v = u[i]
    BY <1>1 DEF Range
  <2>2. CASE i > Len(s)
    <3>1. i - Len(s) \in 1 .. Len(t)
      BY <1>1, <2>2
    <3>2. QED BY <1>1, <2>1, <2>2, <3>1 DEF Range
  <2>3. CASE ~(i > Len(s))
    <3>1. i \in 1 .. Len(s)
      BY <1>1, <2>3
    <3>2. QED BY <1>1, <2>1, <3>1 DEF Range
  <2>4. QED BY <2>2, <2>3
<1>3. ASSUME NEW v \in Range(s) PROVE v \in Range(u)
  <2>1. PICK i \in 1 .. Len(s) : v = s[i]
    BY <1>1 DEF Range
  <2>2. i \in 1 .. Len(u)
    BY <1>1
  <2>3. QED BY <1>1, <2>1, <2>2 DEF Range
<1>4. ASSUME NEW v \in Range(t) PROVE v \in Range(u)
  <2>1. PICK i \in 1 .. Len(t) : v = t[i]
    BY <1>1 DEF Range
  <2>2. Len(s) + i \in 1 .. Len(u)
    BY <1>1
  <2>3. QED BY <1>1, <2>1, <2>2 DEF Range
<1>5. QED BY <1>2, <1>3, <1>4 DEF u

LEMMA RangeOfAppend ==
  ASSUME NEW S, NEW s \in Seq(S), NEW v \in S
  PROVE  Range(Append(s, v)) = Range(s) \cup {v}
<1> DEFINE t == <<v>>
<1>1. Append(s, v) = s \o t /\ t \in Seq(S)
  OBVIOUS
<1>2. Range(t) = {v}
  BY DEF Range
<1> HIDE DEF t
<1>3. Range(s \o t) = Range(s) \cup Range(t)
  BY <1>1, RangeOfConcat
<1>4. QED BY <1>1, <1>2, <1>3

LEMMA RangeOfEmpty == Range(<<>>) = {}
BY DEF Range

(* The queue loses its front job, or a job is added to it.                 *)
LEMMA MineTail ==
  ASSUME TypeOK, handler # <<>>, handler' = Tail(handler)
  PROVE  \A c \in Clients : /\ Mine(c)' \subseteq Mine(c)
                            /\ Head(handler).by # c => Mine(c)' = Mine(c)
                            /\ Head(handler).by = c => Head(handler) \in Mine(c)
BY HandlerTyped, RangeOfTail DEF Mine

LEMMA MineAppend ==
  ASSUME TypeOK, NEW j \in Jobs, handler' = Append(handler, j)
  PROVE  \A c \in Clients : Mine(c)' = IF j.by = c THEN Mine(c) \cup {j} ELSE Mine(c)
<1>1. Range(handler') = Range(handler) \cup {j}
  BY HandlerTyped, RangeOfAppend
<1>2. QED BY <1>1 DEF Mine

LEMMA LastOfTail ==
  ASSUME NEW h \in Seq(Jobs), h # <<>>, NEW c \in Clients, NEW p, LastIsMet(h, c, p)
  PROVE  /\ LastIsMet(Tail(h), c, p)
         /\ Head(h).by = c /\ (\A j \in Range(Tail(h)) : j.by # c) => p = After(Head(h).do)
<1> DEFINE t == Tail(h)
<1>1. /\ Head(h) = h[1] /\ 1 \in 1 .. Len(h) /\ Len(h) \in Nat
      /\ \A i \in 1 .. Len(t) : i + 1 \in 1 .. Len(h) /\ i + 1 > 1 /\ t[i] = h[i + 1]
      /\ \A i \in 1 .. Len(h) : 1 < i => i - 1 \in 1 .. Len(t) /\ t[i - 1] = h[i]
      /\ t \in Seq(Jobs)
  OBVIOUS
<1> HIDE DEF t
<1>2. ASSUME NEW i \in 1 .. Len(t), t[i].by = c,
             \A k \in 1 .. Len(t) : i < k => t[k].by # c
      PROVE  p = After(t[i].do)
  <2>1. ASSUME NEW k \in 1 .. Len(h), i + 1 < k PROVE h[k].by # c
    <3>1. 1 < k /\ i < k - 1
      BY <1>1, <2>1
    <3>2. k - 1 \in 1 .. Len(t) /\ t[k - 1] = h[k]
      BY <1>1, <3>1
    <3>3. QED BY <1>2, <3>1, <3>2
  <2>2. i + 1 \in 1 .. Len(h) /\ t[i] = h[i + 1]
    BY <1>1
  <2>3. QED BY <1>2, <2>1, <2>2 DEF LastIsMet
<1>3. ASSUME Head(h).by = c, \A j \in Range(t) : j.by # c
      PROVE  p = After(Head(h).do)
  <2>1. \A i \in 1 .. Len(t) : t[i] \in Range(t)
    BY <1>1, RangeIs
  <2>2. \A k \in 1 .. Len(h) : 1 < k => h[k].by # c
    BY <1>1, <1>3, <2>1
  <2>3. QED BY <1>1, <1>3, <2>2 DEF LastIsMet
<1>4. QED BY <1>2, <1>3 DEF LastIsMet, t

LEMMA LastOfAppend ==
  ASSUME NEW h \in Seq(Jobs), NEW c \in Clients, NEW p, NEW j \in Jobs,
         IF j.by = c THEN p = After(j.do) ELSE LastIsMet(h, c, p)
  PROVE  LastIsMet(Append(h, j), c, p)
<1> DEFINE a == Append(h, j)
<1>a. /\ Len(a) = Len(h) + 1 /\ a[Len(h) + 1] = j /\ Len(h) \in Nat
      /\ \A i \in 1 .. Len(h) : a[i] = h[i] /\ i \in 1 .. Len(a) /\ i < Len(h) + 1
      /\ \A i \in 1 .. Len(a) : i \in 1 .. Len(h) \/ i = Len(h) + 1
      /\ Len(h) + 1 \in 1 .. Len(a)
  OBVIOUS
<1> HIDE DEF a
<1>1. ASSUME NEW i \in 1 .. Len(a), a[i].by = c,
             \A k \in 1 .. Len(a) : i < k => a[k].by # c
      PROVE  p = After(a[i].do)
  <2>1. CASE i = Len(h) + 1
    <3>1. a[i] = j
      BY <1>a, <2>1
    <3>2. j.by = c
      BY <1>1, <3>1
    <3>3. QED BY <3>1, <3>2
  <2>2. CASE i \in 1 .. Len(h)
    <3>1. i < Len(h) + 1 /\ a[i] = h[i]
      BY <1>a, <2>2
    <3>2. j.by # c
      BY <1>a, <1>1, <3>1
    <3>3. \A k \in 1 .. Len(h) : i < k => h[k].by # c
      BY <1>a, <1>1
    <3>4. QED BY <1>1, <2>2, <3>1, <3>2, <3>3 DEF LastIsMet
  <2>3. QED BY <1>a, <2>1, <2>2
<1>2. QED BY <1>1 DEF LastIsMet, a
-----------------------------------------------------------------------------
(* AMS and SceneBoard only add to what a client is told.                   *)
LEMMA TellAdds ==
  ASSUME TypeOK, NEW c \in AnyOne, NEW do \in { "Show", "Hide", "Destroy" }
  PROVE  /\ \A d \in Clients : Range(toDo[d]) \subseteq Range(Tell(c, do)[d])
         /\ c # NoOne => do \in Range(Tell(c, do)[c])
<1> DEFINE Dos == { "Show", "Hide", "Destroy" }
<1>1. \A d \in Clients : toDo[d] \in Seq(Dos)
  BY DEF TypeOK
<1>2. \A d \in Clients : Range(Append(toDo[d], do)) = Range(toDo[d]) \cup {do}
  BY <1>1, RangeOfAppend
<1>3. \A d \in Clients : Tell(c, do)[d] = IF c = d THEN Append(toDo[d], do) ELSE toDo[d]
  BY ClientsAssumption DEF Tell, TypeOK, AnyOne
<1>4. QED BY <1>2, <1>3, ClientsAssumption DEF AnyOne

LEMMA StartAdds ==
  ASSUME TypeOK, NEW todo \in Seq({ "Show" }), Start(todo), NEW c \in Clients
  PROVE  \/ phase[c] = "NONE" /\ phase'[c] = "LAUNCHED" /\ record' = c
         \/ /\ phase'[c] = phase[c] /\ Range(toDo[c]) \subseteq Range(toDo'[c])
            /\ record = c => record' = c
<1>1. toDo[c] \in Seq({ "Show", "Hide", "Destroy" }) /\ todo \in Seq({ "Show", "Hide", "Destroy" })
  <2>1. todo \in Seq({ "Show", "Hide", "Destroy" })
    OBVIOUS
  <2>2. QED BY <2>1 DEF TypeOK
<1>2. Range(toDo[c] \o todo) = Range(toDo[c]) \cup Range(todo)
  BY <1>1, RangeOfConcat
<1>3. CASE record # NoOne /\ toDo' = [toDo EXCEPT ![record] = @ \o todo] /\ UNCHANGED <<phase, record>>
  <2>1. toDo'[c] = IF record = c THEN toDo[c] \o todo ELSE toDo[c]
    BY <1>3 DEF TypeOK
  <2>2. QED BY <1>2, <1>3, <2>1
<1>4. ASSUME NEW d \in Clients, record = NoOne, phase[d] = "NONE", record' = d,
             phase' = [phase EXCEPT ![d] = "LAUNCHED"], toDo' = [toDo EXCEPT ![d] = todo]
      PROVE  \/ phase[c] = "NONE" /\ phase'[c] = "LAUNCHED" /\ record' = c
             \/ /\ phase'[c] = phase[c] /\ Range(toDo[c]) \subseteq Range(toDo'[c])
                /\ record = c => record' = c
  <2>1. CASE c = d
    BY <1>4, <2>1 DEF TypeOK
  <2>2. CASE c # d
    <3>1. phase'[c] = phase[c] /\ toDo'[c] = toDo[c] /\ record # c
      BY <1>4, <2>2, ClientsAssumption DEF TypeOK
    <3>2. QED BY <3>1
  <2>3. QED BY <2>1, <2>2
<1>5. CASE UNCHANGED <<phase, toDo, record>>
  BY <1>5
<1>6. QED BY <1>3, <1>4, <1>5 DEF Start

LEMMA StartsTodo == (IF startCall = "Activation" THEN <<"Show">> ELSE <<>>) \in Seq({ "Show" })
<1>1. <<"Show">> \in Seq({ "Show" }) /\ <<>> \in Seq({ "Show" })
  OBVIOUS
<1>2. QED BY <1>1
-----------------------------------------------------------------------------
(* What the clients have under way.                                        *)
SameClient(c) ==
  /\ phase'[c] = phase[c] /\ calling'[c] = calling[c]
  /\ wire'[c] = wire[c] /\ passed'[c] = passed[c] /\ (c \in cut' <=> c \in cut)

LEMMA FewerJobs ==
  ASSUME NEW c \in Clients, TrafficOf(c), SameClient(c), Mine(c)' \subseteq Mine(c)
  PROVE  TrafficOf(c)'
BY DEF TrafficOf, SameClient, Silent, Leaves, Expected, HasWindow

LEMMA MainThreadTraffic ==
  ASSUME Inv, Traffic, NEW c \in Clients, Show(c) \/ Hide(c) \/ Destroy(c)
  PROVE  Traffic'
<1> USE DEF serverVars, amsVars, boundVars, historyVars
<1>1. TypeOK /\ TrafficOf(c) /\ UNCHANGED <<handler, passed, cut>> /\ calling[c] = "no"
  BY DEF Inv, Traffic, Show, Hide, Destroy, MainThread
<1>2. \A d \in Clients : Mine(d)' = Mine(d)
  BY <1>1 DEF Mine
<1>3. ASSUME NEW d \in Clients, d # c PROVE TrafficOf(d)'
  <2>1. SameClient(d)
    BY <1>1, <1>3 DEF SameClient, Show, Hide, Destroy, TypeOK
  <2>2. QED BY <1>2, <2>1, FewerJobs DEF Traffic
<1>4. TrafficOf(c)'
  <2>1. CASE Show(c)
    <3>1. /\ phase'[c] = phase[c] /\ wire'[c] = wire[c]
          /\ calling'[c] # "no" => phase[c] \in { "CREATED", "HIDDEN" } /\ c \notin cut
      BY <1>1, <2>1 DEF Show, TypeOK
    <3>2. QED BY <1>1, <1>2, <3>1 DEF TrafficOf, Silent, Leaves, Expected, HasWindow
  <2>2. CASE Hide(c)
    <3>1. CASE phase[c] = "SHOWN" /\ c \notin cut
      <4>1. /\ phase'[c] = "HIDDEN" /\ wire'[c] = Append(wire[c], "Background")
            /\ calling'[c] = calling[c]
        BY <1>1, <2>2, <3>1 DEF Hide, TypeOK
      <4>2. Range(wire'[c]) = Range(wire[c]) \cup {"Background"}
        <5>1. wire[c] \in Seq({ "Background", "Disconnect" })
          BY <1>1 DEF TypeOK
        <5>2. Range(Append(wire[c], "Background")) = Range(wire[c]) \cup {"Background"}
          BY <5>1, RangeOfAppend
        <5>3. QED BY <4>1, <5>2
      <4>3. QED BY <1>1, <1>2, <3>1, <4>1, <4>2 DEF TrafficOf, Silent, Leaves, Expected, HasWindow
    <3>2. CASE ~(phase[c] = "SHOWN" /\ c \notin cut)
      <4>1. SameClient(c)
        BY <1>1, <2>2, <3>2 DEF Hide, SameClient
      <4>2. QED BY <1>1, <1>2, <4>1, FewerJobs
    <3>3. QED BY <3>1, <3>2
  <2>3. CASE Destroy(c)
    <3>1. CASE HasWindow(c)
      <4>1. /\ phase'[c] = "DESTROYED" /\ calling'[c] = calling[c]
            /\ c \in cut => wire'[c] = wire[c]
        BY <1>1, <2>3, <3>1 DEF Destroy, TypeOK
      <4>2. QED BY <1>1, <1>2, <3>1, <4>1 DEF TrafficOf, Silent, Leaves, Expected, HasWindow
    <3>2. CASE ~HasWindow(c)
      <4>1. SameClient(c)
        BY <1>1, <2>3, <3>2 DEF Destroy, SameClient
      <4>2. QED BY <1>1, <1>2, <4>1, FewerJobs
    <3>3. QED BY <3>1, <3>2
  <2>4. QED BY <2>1, <2>2, <2>3
<1>5. QED BY <1>3, <1>4 DEF Traffic

LEMMA ClientTraffic ==
  ASSUME Inv, Traffic, NEW c \in Clients,
         Create(c) \/ Die(c) \/ RecoverAndReconnectSceneSession(c) \/ CheckForeground(c)
           \/ PostForeground(c) \/ CheckOneWay(c) \/ PostOneWay(c)
  PROVE  Traffic'
<1> USE DEF serverVars, amsVars, clientVars, boundVars, historyVars
<1>1. TypeOK /\ TrafficOf(c) /\ UNCHANGED cut
  BY DEF Inv, Traffic, Create, Die, RecoverAndReconnectSceneSession, CheckForeground,
     PostForeground, CheckOneWay, PostOneWay
<1>2. ASSUME NEW d \in Clients, d # c, Mine(d)' = Mine(d) PROVE TrafficOf(d)'
  <2>1. SameClient(d)
    BY <1>1, <1>2 DEF SameClient, Create, Die, RecoverAndReconnectSceneSession,
      CheckForeground, PostForeground, CheckOneWay, PostOneWay, TypeOK
  <2>2. QED BY <1>2, <2>1, FewerJobs DEF Traffic
<1>3. ASSUME UNCHANGED handler, TrafficOf(c)' PROVE Traffic'
  BY <1>2, <1>3 DEF Traffic, Mine
<1>4. ASSUME NEW j \in Jobs, j.by = c, handler' = Append(handler, j)
      PROVE  /\ Mine(c)' = Mine(c) \cup {j}
             /\ TrafficOf(c)' => Traffic'
  <2>1. \A d \in Clients : Mine(d)' = IF j.by = d THEN Mine(d) \cup {j} ELSE Mine(d)
    BY <1>1, <1>4, MineAppend
  <2>2. QED BY <1>2, <1>4, <2>1 DEF Traffic
<1>5. CASE Create(c)
  <2>1. CASE c \in cut
    <3>1. /\ UNCHANGED handler /\ phase'[c] = "FAILED" /\ phase[c] = "LAUNCHED"
          /\ UNCHANGED <<calling, wire, passed>>
      BY <1>1, <1>5, <2>1 DEF Create, TypeOK
    <3>2. Mine(c)' = Mine(c)
      BY <3>1 DEF Mine
    <3>3. TrafficOf(c)'
      BY <1>1, <3>1, <3>2 DEF TrafficOf, Silent, Leaves, Expected, HasWindow
    <3>4. QED BY <1>3, <3>1, <3>3
  <2>2. CASE c \notin cut
    <3> DEFINE j == Job("Connect", c, FALSE)
    <3>1. j \in Jobs /\ j.by = c /\ j.do = "Connect" /\ j.do \notin ClientJobs
      BY JobKinds DEF Job, Joins, ClientJobs
    <3>2. /\ handler' = Append(handler, j) /\ phase'[c] = "CONNECTING" /\ phase[c] = "LAUNCHED"
          /\ UNCHANGED <<calling, wire, passed>>
      BY <1>1, <1>5, <2>2 DEF Create, TypeOK
    <3> HIDE DEF j
    <3>3. Mine(c)' = Mine(c) \cup {j}
      BY <1>4, <3>1, <3>2
    <3>3a. \A i \in Mine(c) : i.do # "Connect"
      <4>1. SUFFICES ASSUME NEW i \in Mine(c) PROVE i.do # "Connect"
        OBVIOUS
      <4>2. Expected(c, i)
        BY <1>1 DEF TrafficOf
      <4>3. QED BY <3>2, <4>2 DEF Expected
    <3>4. TrafficOf(c)'
      BY <1>1, <2>2, <3>1, <3>2, <3>3, <3>3a DEF TrafficOf, Silent, Leaves, Expected, HasWindow
    <3>5. QED BY <1>4, <3>1, <3>2, <3>4
  <2>3. QED BY <2>1, <2>2
<1>6. CASE Die(c)
  <2>1. UNCHANGED <<handler, calling, wire, passed>> /\ phase'[c] = "DEAD"
    BY <1>1, <1>6 DEF Die, TypeOK
  <2>2. Mine(c)' = Mine(c)
    BY <2>1 DEF Mine
  <2>3. TrafficOf(c)'
    <3>1. ASSUME NEW j \in Mine(c) PROVE Expected(c, j)'
      <4>1. Expected(c, j)
        BY <1>1 DEF TrafficOf
      <4>2. QED BY <1>1, <2>1, <4>1 DEF Expected, HasWindow
    <3>2. QED BY <1>1, <2>1, <2>2, <3>1 DEF TrafficOf, Silent
  <2>4. QED BY <1>3, <2>1, <2>3
<1>7. CASE RecoverAndReconnectSceneSession(c)
  <2> DEFINE j == Job(IF phase[c] = "SHOWN" THEN "ReconnectShown" ELSE "ReconnectHidden", c, FALSE)
  <2>1. j \in Jobs /\ j.by = c /\ j.do \notin ClientJobs
    BY JobKinds DEF Job, Joins, ClientJobs
  <2>1a. j.do = IF phase[c] = "SHOWN" THEN "ReconnectShown" ELSE "ReconnectHidden"
    BY DEF Job
  <2>2. /\ handler' = Append(handler, j) /\ c \in cut
        /\ UNCHANGED <<calling, wire, passed, phase>>
    BY <1>7 DEF RecoverAndReconnectSceneSession
  <2> HIDE DEF j
  <2>3. Mine(c)' = Mine(c) \cup {j}
    BY <1>4, <2>1, <2>2
  <2>4. TrafficOf(c)'
    <3>1. ASSUME NEW i \in Mine(c) \cup {j} PROVE Expected(c, i)'
      <4>1. CASE i = j
        BY <1>1, <2>1a, <2>2, <4>1 DEF Expected, HasWindow
      <4>2. CASE i \in Mine(c)
        BY <1>1, <2>2, <4>2 DEF TrafficOf, Expected, HasWindow
      <4>3. QED BY <4>1, <4>2
    <3>2. j.do # "Disconnect"
      BY <2>1 DEF ClientJobs
    <3>3. QED BY <1>1, <2>1, <2>2, <2>3, <3>1, <3>2 DEF TrafficOf, Silent, Leaves
  <2>5. QED BY <1>4, <2>1, <2>2, <2>4
<1>8. ASSUME calling[c] # "no"
      PROVE  /\ phase[c] \in { "CREATED", "HIDDEN", "DEAD" } /\ c \notin cut
             /\ phase[c] # "DEAD" => ~Leaves(c) /\ \A j \in Mine(c) : j.do \notin Joins
  BY <1>1, <1>8 DEF TrafficOf, Silent, Expected, Joins
<1>9. CASE CheckForeground(c)
  <2>1. /\ UNCHANGED <<handler, wire, passed>> /\ calling[c] # "no"
        /\ phase'[c] \in { phase[c], IF phase[c] = "DEAD" THEN "DEAD" ELSE "SHOWN" }
        /\ calling'[c] # "no" => phase'[c] = phase[c]
    BY <1>1, <1>9 DEF CheckForeground, TypeOK
  <2>2. Mine(c)' = Mine(c)
    BY <2>1 DEF Mine
  <2>3. TrafficOf(c)'
    BY <1>1, <1>8, <2>1, <2>2 DEF TrafficOf, Silent, Leaves, Expected, HasWindow, Joins
  <2>4. QED BY <1>3, <2>1, <2>3
<1>10. CASE PostForeground(c)
  <2> DEFINE j == Job("Foreground", c, Behind(c))
  <2>1. j \in Jobs /\ j.by = c /\ j.do = "Foreground"
    BY JobKinds DEF Job, ClientJobs, Behind
  <2>2. /\ handler' = Append(handler, j) /\ UNCHANGED <<wire, passed>>
        /\ calling[c] # "no" /\ calling'[c] = "no"
        /\ phase'[c] = IF phase[c] = "DEAD" THEN "DEAD" ELSE "SHOWN"
    BY <1>1, <1>10 DEF PostForeground, TypeOK
  <2> HIDE DEF j
  <2>3. Mine(c)' = Mine(c) \cup {j}
    BY <1>4, <2>1, <2>2
  <2>4. TrafficOf(c)'
    BY <1>1, <1>8, <2>1, <2>2, <2>3 DEF TrafficOf, Silent, Leaves, Expected, HasWindow, Joins
  <2>5. QED BY <1>4, <2>1, <2>2, <2>4
<1>11. CASE CheckOneWay(c)
  <2>1. /\ UNCHANGED <<handler, phase, calling>> /\ wire[c] # <<>> /\ wire'[c] = Tail(wire[c])
        /\ passed'[c] \in { passed[c], Head(wire[c]) }
    BY <1>1, <1>11 DEF CheckOneWay, TypeOK
  <2>2. Mine(c)' = Mine(c)
    BY <2>1 DEF Mine
  <2>3. Range(wire[c]) = Range(wire'[c]) \cup {Head(wire[c])}
    BY <1>1, <2>1, RangeOfTail DEF TypeOK
  <2>4. TrafficOf(c)'
    BY <1>1, <2>1, <2>2, <2>3 DEF TrafficOf, Silent, Leaves, Expected, HasWindow
  <2>5. QED BY <1>3, <2>1, <2>4
<1>12. CASE PostOneWay(c)
  <2> DEFINE j == Job(passed[c], c, Behind(c))
  <2>1. j \in Jobs /\ j.by = c /\ j.do = passed[c] /\ j.do \in ClientJobs
    <3>1. passed[c] \in ClientJobs /\ Behind(c) \in BOOLEAN
      BY <1>1, <1>12 DEF PostOneWay, TypeOK, ClientJobs, Behind
    <3>2. QED BY <3>1, JobKinds DEF Job
  <2>2. /\ handler' = Append(handler, j) /\ UNCHANGED <<phase, calling, wire>>
        /\ passed[c] # "none" /\ passed'[c] = "none"
    BY <1>1, <1>12 DEF PostOneWay, TypeOK
  <2> HIDE DEF j
  <2>3. Mine(c)' = Mine(c) \cup {j}
    BY <1>4, <2>1, <2>2
  <2>4. TrafficOf(c)'
    BY <1>1, <2>1, <2>2, <2>3 DEF TrafficOf, Silent, Leaves, Expected, HasWindow, ClientJobs
  <2>5. QED BY <1>4, <2>1, <2>2, <2>4
<1>13. QED BY <1>5, <1>6, <1>7, <1>9, <1>10, <1>11, <1>12

LEMMA NoMoreJoins ==
  ASSUME NEW h \in Seq(Jobs), h # <<>>, NEW ph, JoinsOnce(h, ph),
         Head(h).do \in Joins, Head(h).by \in Clients
  PROVE  \A j \in Range(Tail(h)) : j.do \in Joins => j.by # Head(h).by
<1> DEFINE t == Tail(h)  c == Head(h).by
<1>1. /\ Head(h) = h[1] /\ 1 \in 1 .. Len(h) /\ DOMAIN t = 1 .. Len(t)
      /\ \A i \in 1 .. Len(t) : i + 1 \in 1 .. Len(h) /\ i + 1 # 1 /\ t[i] = h[i + 1]
  BY TailIs
<1> HIDE DEF t
<1>2. 1 \in JoinsOf(h, c)
  BY <1>1 DEF JoinsOf
<1>3. ASSUME NEW i \in 1 .. Len(t), t[i].do \in Joins, t[i].by = c PROVE FALSE
  <2>1. i + 1 \in JoinsOf(h, c) /\ i + 1 # 1
    BY <1>1, <1>3 DEF JoinsOf
  <2>2. QED BY <1>2, <2>1 DEF JoinsOnce
<1>4. QED BY <1>1, <1>3 DEF Range, t

LEMMA ServerTraffic ==
  ASSUME Inv, Traffic,
         \/ RequestSceneSessionActivation \/ RequestSceneSessionByCall
         \/ RequestSceneSessionBackground \/ RequestSceneSessionDestruction
         \/ StartReturns \/ ClientTask \/ StartTimesOut \/ SetTerminating
         \/ CloseUIAbilityBySCB \/ UNCHANGED vars
  PROVE  Traffic'
<1> USE DEF vars, serverVars, amsVars, clientVars, boundVars, historyVars
<1>1. /\ TypeOK /\ UNCHANGED <<phase, calling, wire, passed, cut>>
      /\ handler' = handler \/ (handler # <<>> /\ handler' = Tail(handler))
  BY DEF Inv, RequestSceneSessionActivation, RequestSceneSessionByCall,
     RequestSceneSessionBackground, RequestSceneSessionDestruction, StartReturns, ClientTask,
     ForegroundTask, BackgroundTask, DisconnectTask, Front, StartTimesOut, SetTerminating,
     CloseUIAbilityBySCB
<1>2. \A c \in Clients : Mine(c)' \subseteq Mine(c) /\ SameClient(c)
  BY <1>1, MineTail DEF Mine, SameClient
<1>3. QED BY <1>2, FewerJobs DEF Traffic

LEMMA StartTraffic ==
  ASSUME Inv, Traffic, StartUIAbilityBySCB \/ LateStart
  PROVE  Traffic'
<1> USE DEF vars, serverVars, amsVars, clientVars, boundVars, historyVars
<1>1. TypeOK /\ UNCHANGED <<handler, calling, wire, passed, cut>>
  BY DEF Inv, StartUIAbilityBySCB, LateStart
<1>2. PICK todo \in Seq({ "Show" }) : Start(todo)
  <2>1. <<"Show">> \in Seq({ "Show" })
    OBVIOUS
  <2>2. QED BY <2>1, StartsTodo DEF StartUIAbilityBySCB, LateStart
<1>3. SUFFICES ASSUME NEW c \in Clients PROVE TrafficOf(c)'
  BY DEF Traffic
<1>4. TrafficOf(c) /\ Mine(c)' = Mine(c)
  BY <1>1 DEF Traffic, Mine
<1>5. \/ phase[c] = "NONE" /\ phase'[c] = "LAUNCHED"
      \/ phase'[c] = phase[c]
  BY <1>1, <1>2, StartAdds
<1>6. CASE phase'[c] = phase[c]
  BY <1>1, <1>4, <1>6, FewerJobs DEF SameClient
<1>7. CASE phase[c] = "NONE" /\ phase'[c] = "LAUNCHED"
  BY <1>1, <1>4, <1>7 DEF TrafficOf, Silent, Leaves, Expected, HasWindow
<1>8. QED BY <1>5, <1>6, <1>7

LEMMA JoinTraffic ==
  ASSUME Inv, Traffic, ConnectTask \/ ReconnectTask, NEW c \in Clients, c = AtFront
  PROVE  /\ Traffic' /\ Mine(c)' \subseteq Mine(c)
         /\ \A j \in Mine(c)' : j.do \notin Joins
<1>1. /\ TypeOK /\ JoinsOnce(handler, phase) /\ UNCHANGED <<calling, wire, passed>>
      /\ handler \in Seq(Jobs) /\ handler # <<>> /\ handler' = Tail(handler)
      /\ Head(handler).do \in Joins /\ Head(handler).by = c
  <2>1. UNCHANGED <<calling, wire, passed>>
    BY DEF ConnectTask, ReconnectTask
  <2>2. QED BY <2>1, FrontIs DEF Inv, ConnectTask, ReconnectTask, Joins, AtFront
<1>2. \A j \in Range(handler') : j.do \in Joins => j.by # c
  BY <1>1, NoMoreJoins
<1>3. \A d \in Clients : Mine(d)' \subseteq Mine(d)
  BY <1>1, MineTail
<1>4. /\ \A d \in Clients : d # c => phase'[d] = phase[d] /\ (d \in cut' <=> d \in cut)
      /\ \/ phase'[c] = phase[c]
         \/ phase[c] = "CONNECTING" /\ phase'[c] \in { "CREATED", "FAILED" }
      /\ c \in cut' => c \in cut
  <2>1. CASE ConnectTask
    BY <1>1, <2>1 DEF ConnectTask, TypeOK
  <2>2. CASE ReconnectTask
    BY <1>1, <2>2 DEF ReconnectTask, TypeOK
  <2>3. QED BY <2>1, <2>2
<1>5. ASSUME NEW d \in Clients, d # c PROVE TrafficOf(d)'
  BY <1>1, <1>3, <1>4, <1>5, FewerJobs DEF Traffic, SameClient
<1>6. \A j \in Mine(c)' : j.do \notin Joins
  BY <1>2 DEF Mine
<1>7. TrafficOf(c)'
  <2>1. TrafficOf(c) /\ Mine(c)' \subseteq Mine(c)
    BY <1>3 DEF Traffic
  <2>2. \A j \in Mine(c)' : Expected(c, j)'
    BY <1>6 DEF Expected, Joins
  <2>3. QED BY <1>1, <1>4, <2>1, <2>2 DEF TrafficOf, Silent, Leaves
<1>8. QED BY <1>3, <1>5, <1>6, <1>7 DEF Traffic

LEMMA RequestTraffic ==
  ASSUME Inv, Traffic, NEW job \in SceneBoardJobs, Request(job)
  PROVE  Traffic'
<1> USE DEF clientVars
<1> DEFINE j == Job(job, NoOne, FALSE)
<1>1. j \in Jobs /\ j.by = NoOne
  BY JobKinds DEF Job
<1>2. TypeOK /\ handler' = Append(handler, j) /\ UNCHANGED <<phase, calling, wire, passed, cut>>
  BY DEF Inv, Request
<1> HIDE DEF j
<1>3. \A c \in Clients : Mine(c)' = Mine(c) /\ SameClient(c)
  BY <1>1, <1>2, MineAppend, ClientsAssumption DEF SameClient
<1>4. QED BY <1>3, FewerJobs DEF Traffic

LEMMA CrashTraffic ==
  ASSUME Inv, Traffic, Crash
  PROVE  Traffic'
<1>1. /\ handler' = <<>>
      /\ \A c \in Clients : calling'[c] = "no" /\ wire'[c] = <<>> /\ passed'[c] = "none"
  BY DEF Crash
<1>2. \A c \in Clients : Mine(c)' = {} /\ Range(wire'[c]) = {}
  BY <1>1, RangeOfEmpty DEF Mine
<1>3. QED BY <1>1, <1>2 DEF Traffic, TrafficOf, Silent, Leaves

LEMMA TrafficInvariant == Inv /\ Traffic /\ [Next]_vars => Traffic'
<1> SUFFICES ASSUME Inv, Traffic, [Next]_vars PROVE Traffic'
  OBVIOUS
<1>1. ASSUME ConnectTask \/ ReconnectTask PROVE Traffic'
  <2>1. AtFront \in Clients
    BY <1>1, FrontIs DEF Inv, ConnectTask, ReconnectTask, Joins
  <2>2. QED BY <1>1, <2>1, JoinTraffic
<1>2. ASSUME NEW c \in Clients, ClientStep(c) \/ Die(c) \/ RecoverAndReconnectSceneSession(c)
               \/ CheckForeground(c) \/ PostForeground(c) \/ CheckOneWay(c) \/ PostOneWay(c)
      PROVE  Traffic'
  BY <1>2, MainThreadTraffic, ClientTraffic DEF ClientStep
<1>3. QED
  BY <1>1, <1>2, ServerTraffic, StartTraffic, RequestTraffic, CrashTraffic
     DEF Next, HandlerStep, Environment
-----------------------------------------------------------------------------
(* Who holds the clients.                                                  *)
LEMMA HeldStep ==
  ASSUME HeldOrTold,
         \A c \in Clients : /\ phase'[c] \in Live => phase[c] \in Live
                            /\ Range(toDo[c]) \subseteq Range(toDo'[c])
                            /\ record = c => record' = c \/ Told(c, "Destroy")'
  PROVE  HeldOrTold'
BY DEF HeldOrTold, Told

LEMMA HeldInvariant == Inv /\ Traffic /\ HeldOrTold /\ [Next]_vars => HeldOrTold'
<1> SUFFICES ASSUME Inv, Traffic, HeldOrTold, [Next]_vars PROVE HeldOrTold'
  OBVIOUS
<1> USE DEF vars, serverVars, amsVars, clientVars, boundVars, historyVars
<1>a. TypeOK
  BY DEF Inv
<1>1. ASSUME RequestSceneSessionActivation \/ RequestSceneSessionBackground PROVE HeldOrTold'
  <2>1. session.stage \in AnyOne /\ record \in AnyOne
    BY <1>a DEF TypeOK
  <2>2. \A c \in Clients : Range(toDo[c]) \subseteq Range(toDo'[c])
    BY <1>1, <1>a, <2>1, TellAdds DEF RequestSceneSessionActivation, RequestSceneSessionBackground
  <2>3. UNCHANGED <<phase, record>>
    BY <1>1 DEF RequestSceneSessionActivation, RequestSceneSessionBackground
  <2>4. QED BY <2>2, <2>3, HeldStep
<1>2. ASSUME RequestSceneSessionDestruction \/ CloseUIAbilityBySCB PROVE HeldOrTold'
  <2>1. record \in AnyOne /\ UNCHANGED phase
    BY <1>2, <1>a DEF TypeOK, RequestSceneSessionDestruction, CloseUIAbilityBySCB
  <2>2. CASE UNCHANGED <<toDo, record>>
    BY <2>1, <2>2, HeldStep
  <2>3. CASE toDo' = Tell(record, "Destroy")
    <3>1. /\ \A c \in Clients : Range(toDo[c]) \subseteq Range(toDo'[c])
          /\ record # NoOne => "Destroy" \in Range(toDo'[record])
      BY <1>a, <2>1, <2>3, TellAdds
    <3>2. \A c \in Clients : record = c => Told(c, "Destroy")'
      BY <3>1, ClientsAssumption DEF Told
    <3>3. QED BY <2>1, <3>1, <3>2, HeldStep
  <2>4. QED BY <1>2, <2>2, <2>3 DEF RequestSceneSessionDestruction, CloseUIAbilityBySCB
<1>3. ASSUME StartUIAbilityBySCB \/ LateStart PROVE HeldOrTold'
  <2>1. PICK todo \in Seq({ "Show" }) : Start(todo)
    <3>1. <<"Show">> \in Seq({ "Show" })
      OBVIOUS
    <3>2. QED BY <1>3, <3>1, StartsTodo DEF StartUIAbilityBySCB, LateStart
  <2>2. \A c \in Clients :
          \/ phase[c] = "NONE" /\ phase'[c] = "LAUNCHED" /\ record' = c
          \/ /\ phase'[c] = phase[c] /\ Range(toDo[c]) \subseteq Range(toDo'[c])
             /\ record = c => record' = c
    BY <1>a, <2>1, StartAdds
  <2>3. QED BY <2>2 DEF HeldOrTold, Told
<1>4. ASSUME NEW c \in Clients, Show(c) \/ Hide(c) \/ Destroy(c) PROVE HeldOrTold'
  <2>1. /\ UNCHANGED record /\ toDo[c] # <<>> /\ toDo'[c] = Tail(toDo[c])
        /\ \A d \in Clients : d # c => toDo'[d] = toDo[d] /\ phase'[d] = phase[d]
    BY <1>4, <1>a DEF Show, Hide, Destroy, MainThread, TypeOK
  <2>2. Range(toDo[c]) = Range(toDo'[c]) \cup {Head(toDo[c])}
    BY <1>a, <2>1, RangeOfTail DEF TypeOK
  <2>3. /\ phase'[c] \in Live => phase[c] \in Live
        /\ Head(toDo[c]) = "Destroy" => phase'[c] \notin Live
    BY <1>4, <1>a DEF Show, Hide, Destroy, MainThread, HasWindow, TypeOK, Live
  <2>4. QED BY <2>1, <2>2, <2>3 DEF HeldOrTold, Told
<1>5. ASSUME NEW c \in Clients, Die(c) PROVE HeldOrTold'
  <2>1. /\ phase'[c] = "DEAD" /\ record' = IF record = c THEN NoOne ELSE record
        /\ \A d \in Clients : d # c => toDo'[d] = toDo[d] /\ phase'[d] = phase[d]
    BY <1>5, <1>a DEF Die, TypeOK
  <2>2. QED BY <2>1 DEF HeldOrTold, Told, Live
<1>6. ASSUME ConnectTask PROVE HeldOrTold'
  <2>1. UNCHANGED <<toDo, record>> /\ \A c \in Clients : phase'[c] \in Live => phase[c] \in Live
    BY <1>6, <1>a DEF ConnectTask, TypeOK, Live
  <2>2. QED BY <2>1, HeldStep
<1>7. ASSUME Crash PROVE HeldOrTold'
  <2>1. UNCHANGED <<toDo, record>> /\ \A c \in Clients : phase'[c] \in Live => phase[c] \in Live
    BY <1>7 DEF Crash, Live
  <2>2. QED BY <2>1, HeldStep
<1>8. ASSUME NEW c \in Clients, Create(c) PROVE HeldOrTold'
  <2>1. UNCHANGED <<toDo, record>> /\ \A d \in Clients : phase'[d] \in Live => phase[d] \in Live
    BY <1>8, <1>a DEF Create, TypeOK, Live
  <2>2. QED BY <2>1, HeldStep
<1>9. ASSUME NEW c \in Clients, CheckForeground(c) \/ PostForeground(c) PROVE HeldOrTold'
  <2>1. UNCHANGED <<toDo, record>> /\ calling[c] # "no"
    BY <1>9 DEF CheckForeground, PostForeground
  <2>2. phase[c] \in { "CREATED", "HIDDEN", "DEAD" }
    BY <2>1 DEF Traffic, TrafficOf
  <2>3. \A d \in Clients : phase'[d] \in Live => phase[d] \in Live
    BY <1>9, <1>a, <2>2 DEF CheckForeground, PostForeground, TypeOK, Live
  <2>4. QED BY <2>1, <2>3, HeldStep
<1>10. ASSUME \/ RequestSceneSessionByCall \/ StartReturns \/ ClientTask \/ ReconnectTask
              \/ StartTimesOut \/ SetTerminating \/ UNCHANGED vars
              \/ \E job \in SceneBoardJobs : Request(job)
              \/ \E c \in Clients : \/ RecoverAndReconnectSceneSession(c)
                                    \/ CheckOneWay(c) \/ PostOneWay(c)
       PROVE  HeldOrTold'
  <2>1. UNCHANGED <<toDo, record, phase>>
    BY <1>10 DEF RequestSceneSessionByCall, StartReturns, ClientTask, ReconnectTask,
      StartTimesOut, SetTerminating, Request, RecoverAndReconnectSceneSession, CheckOneWay,
      PostOneWay
  <2>2. QED BY <2>1, HeldStep
<1>11. QED
  BY <1>1, <1>2, <1>3, <1>4, <1>5, <1>6, <1>7, <1>8, <1>9, <1>10
     DEF Next, HandlerStep, ClientStep, Environment
-----------------------------------------------------------------------------
(* The session between its jobs.  Without the two leftovers the flag of a  *)
(* session that is not active is down, so that Foreground activates it.    *)
SettledSession(s) == s.state \notin { "FOREGROUND", "INACTIVE" }

LEMMA SettledOperations ==
  ASSUME NEW s \in Sessions, SettledSession(s), s.state = "ACTIVE" => s.isActive,
         s.isActive => s.state \in { "ACTIVE", "DISCONNECT" }
  PROVE  /\ SettledSession(Foreground(s)) /\ SettledSession(Background(SetActive(s, FALSE)))
         /\ SettledSession(Background(s))
         /\ Foreground(s).state = IF s.state \in { "CONNECT", "BACKGROUND" } THEN "ACTIVE" ELSE s.state
         /\ Background(s).state = IF s.state = "ACTIVE" THEN "BACKGROUND" ELSE s.state
         /\ Background(SetActive(s, FALSE)).state =
              IF s.state = "ACTIVE" THEN "BACKGROUND" ELSE s.state
<1>1. s.state \in { "DISCONNECT", "CONNECT", "ACTIVE", "BACKGROUND" }
  BY DEF Sessions, States, SettledSession
<1>2. Foreground(s).state = IF s.state \in { "CONNECT", "BACKGROUND" } THEN "ACTIVE" ELSE s.state
  BY <1>1 DEF Foreground, SetActive, Sessions
<1>3. Background(s).state = IF s.state = "ACTIVE" THEN "BACKGROUND" ELSE s.state
  BY <1>1 DEF Background, Sessions
<1>4. Background(SetActive(s, FALSE)).state = IF s.state = "ACTIVE" THEN "BACKGROUND" ELSE s.state
  BY <1>1 DEF Background, SetActive, Sessions
<1>5. QED BY <1>1, <1>2, <1>3, <1>4 DEF SettledSession

LEMMA SettledInvariant == Inv /\ Settled /\ [Next]_vars => Settled'
<1> SUFFICES ASSUME Inv, Settled, [Next]_vars, races' = {}
             PROVE  SettledSession(session')
  BY DEF Settled, SettledSession
<1> USE DEF vars, serverVars, amsVars, clientVars, boundVars, historyVars
<1>a. TypeOK /\ session \in Sessions
  BY TypeIs DEF Inv
<1>1. races = {}
  <2>1. races \subseteq races'
    BY DEF Next, HandlerStep, ClientStep, Environment, RequestSceneSessionActivation,
      RequestSceneSessionByCall, RequestSceneSessionBackground,
      RequestSceneSessionDestruction, StartReturns, ClientTask, ConnectTask, ReconnectTask,
      StartUIAbilityBySCB, CloseUIAbilityBySCB, Create, Show, Hide, Destroy, MainThread,
      CheckForeground, PostForeground, CheckOneWay, PostOneWay, Request, LateStart,
      StartTimesOut, SetTerminating, Crash, Die, RecoverAndReconnectSceneSession
  <2>2. QED BY <2>1
<1>2. /\ SettledSession(session)
      /\ session.state = "ACTIVE" => session.isActive
      /\ session.isActive => session.state \in { "ACTIVE", "DISCONNECT" }
  BY <1>1 DEF Settled, SettledSession, Inv, ActiveFlagAgrees
<1>3. CASE \/ RequestSceneSessionBackground \/ ForegroundTask \/ BackgroundTask
  BY <1>a, <1>2, <1>3, SettledOperations
     DEF RequestSceneSessionBackground, ForegroundTask, BackgroundTask
<1>4. CASE RequestSceneSessionDestruction \/ DisconnectTask
  BY <1>a, <1>4 DEF RequestSceneSessionDestruction, DisconnectTask, Disconnect,
     DisconnectByClient, SettledSession, Sessions
<1>5. CASE StartReturns
  BY <1>a, <1>2, <1>5 DEF StartReturns, ColdStart, ResetSessionConnectState, ResetIsActive,
     SettledSession, Sessions
<1>6. CASE ConnectTask
  BY <1>a, <1>2, <1>6 DEF ConnectTask, ConnectInner, SettledSession, Sessions
<1>7. CASE ReconnectTask
  BY <1>a, <1>7 DEF ReconnectTask, Reconnect, SettledSession, Sessions
<1>8. CASE SetTerminating
  BY <1>a, <1>2, <1>8 DEF SetTerminating, SettledSession, Sessions
<1>9. CASE Crash
  BY <1>9 DEF Crash, NewSession, SettledSession
<1>10. CASE UNCHANGED session
  BY <1>2, <1>10
<1>11. QED
  <2>1. CASE ClientTask
    BY <1>3, <1>4, <2>1 DEF ClientTask
  <2>2. CASE \/ RequestSceneSessionActivation \/ RequestSceneSessionByCall
             \/ StartUIAbilityBySCB \/ CloseUIAbilityBySCB \/ LateStart \/ StartTimesOut
             \/ UNCHANGED vars \/ \E job \in SceneBoardJobs : Request(job)
             \/ \E c \in Clients : ClientStep(c) \/ CheckForeground(c) \/ PostForeground(c)
             \/ \E c \in Clients : CheckOneWay(c) \/ PostOneWay(c)
             \/ \E c \in Clients : Die(c) \/ RecoverAndReconnectSceneSession(c)
    <3>1. UNCHANGED session
      BY <2>2 DEF RequestSceneSessionActivation, RequestSceneSessionByCall,
        StartUIAbilityBySCB, CloseUIAbilityBySCB, LateStart, StartTimesOut, Request,
        ClientStep, Create, Show, Hide, Destroy, MainThread, CheckForeground,
        PostForeground, CheckOneWay, PostOneWay, Die, RecoverAndReconnectSceneSession
    <3>2. QED BY <1>10, <3>1
  <2>3. QED BY <1>3, <1>4, <1>5, <1>6, <1>7, <1>8, <1>9, <2>1, <2>2
               DEF Next, HandlerStep, Environment
-----------------------------------------------------------------------------
(* The session and the window of its client.                               *)
QueueKept(c) ==
  Mine(c)' = Mine(c) /\ \A p : LastIsMet(handler, c, p) => LastIsMet(handler', c, p)

SameRequests(c) ==
  /\ phase'[c] = phase[c] /\ wire'[c] = wire[c] /\ passed'[c] = passed[c]
  /\ c \in cut' => c \in cut

SameConnection ==
  /\ session'.callingPid = session.callingPid /\ session'.stage = session.stage
  /\ session'.token = session.token

OrdersKept(c) == (Told(c, "Hide") => Told(c, "Hide")') /\ (Closes(c) => Closes(c)')

LEMMA FollowsKept ==
  ASSUME NEW c \in Clients, Follows(c), races \subseteq races', QueueKept(c),
         SameRequests(c), SameConnection, session'.state = session.state, OrdersKept(c)
  PROVE  Follows(c)'
<1> SUFFICES ASSUME races' = {}, session'.callingPid = c, phase'[c] # "DEAD"
             PROVE  Own(c)' /\ LastRequest(c)' /\ Agrees(c)'
  BY DEF Follows
<1>1. Own(c) /\ LastRequest(c) /\ Agrees(c)
  BY DEF Follows, SameRequests, SameConnection
<1>2. Own(c)'
  BY <1>1 DEF Own, QueueKept, SameRequests, SameConnection
<1>3. LastRequest(c)'
  BY <1>1 DEF LastRequest, Sent, QueueKept, SameRequests
<1>4. Agrees(c)'
  BY <1>1 DEF Agrees, Sent, QueueKept, SameRequests, OrdersKept
<1>5. QED BY <1>2, <1>3, <1>4

LEMMA OthersQueue ==
  ASSUME TypeOK, NEW c \in Clients,
         \/ UNCHANGED handler
         \/ handler # <<>> /\ Head(handler).by # c /\ handler' = Tail(handler)
         \/ \E j \in Jobs : j.by # c /\ handler' = Append(handler, j)
  PROVE  QueueKept(c)
<1>a. handler \in Seq(Jobs)
  BY HandlerTyped
<1>1. CASE UNCHANGED handler
  BY <1>1 DEF QueueKept, Mine
<1>2. CASE handler # <<>> /\ Head(handler).by # c /\ handler' = Tail(handler)
  BY <1>a, <1>2, MineTail, LastOfTail DEF QueueKept
<1>3. ASSUME NEW j \in Jobs, j.by # c, handler' = Append(handler, j) PROVE QueueKept(c)
  <2>1. Mine(c)' = Mine(c)
    BY <1>3, MineAppend
  <2>2. ASSUME NEW p, LastIsMet(handler, c, p) PROVE LastIsMet(handler', c, p)
    BY <1>a, <1>3, <2>2, LastOfAppend
  <2>3. QED BY <2>1, <2>2 DEF QueueKept
<1>4. QED BY <1>1, <1>2, <1>3

(* A job of SceneBoard at the front leaves the clients' jobs as they are.  *)
LEMMA SceneBoardsJob ==
  ASSUME Inv, NEW do \in SceneBoardJobs, Front(do), NEW c \in Clients
  PROVE  QueueKept(c)
<1>1. /\ TypeOK /\ handler # <<>> /\ handler' = Tail(handler)
      /\ Head(handler) \in Jobs /\ Head(handler).do = do
  BY FrontIs DEF Inv
<1>2. Head(handler).by = NoOne
  BY <1>1 DEF Jobs, SceneBoardJobs, Joins, ClientJobs
<1>3. QED BY <1>1, <1>2, OthersQueue, ClientsAssumption

(* Steps that leave the session to its client and the client as it was.    *)
LEMMA ServerFollows ==
  ASSUME Inv, Agreement,
         \/ RequestSceneSessionActivation \/ RequestSceneSessionByCall
         \/ StartTimesOut \/ SetTerminating \/ CloseUIAbilityBySCB
         \/ UNCHANGED vars \/ \E job \in SceneBoardJobs : Request(job)
  PROVE  Agreement'
<1> USE DEF vars, serverVars, amsVars, clientVars, boundVars, historyVars
<1> SUFFICES ASSUME NEW c \in Clients PROVE Follows(c)'
  BY DEF Agreement
<1>a. TypeOK /\ session \in Sessions /\ Follows(c) /\ session.stage \in AnyOne /\ record \in AnyOne
  BY TypeIs DEF Inv, Agreement, Sessions, TypeOK
<1>1. races \subseteq races' /\ SameRequests(c)
  BY DEF RequestSceneSessionActivation, RequestSceneSessionByCall, StartTimesOut,
     SetTerminating, CloseUIAbilityBySCB, Request, SameRequests
<1>2. SameConnection /\ session'.state = session.state
  <2>1. CASE SetTerminating
    BY <1>a, <2>1 DEF SetTerminating, Sessions, SameConnection
  <2>2. CASE ~SetTerminating
    BY <2>2 DEF RequestSceneSessionActivation, RequestSceneSessionByCall, StartTimesOut,
      CloseUIAbilityBySCB, Request, SameConnection
  <2>3. QED BY <2>1, <2>2
<1>3. QueueKept(c)
  <2>1. CASE RequestSceneSessionActivation \/ RequestSceneSessionByCall
    BY <2>1, SceneBoardsJob
       DEF RequestSceneSessionActivation, RequestSceneSessionByCall, SceneBoardJobs
  <2>2. ASSUME NEW job \in SceneBoardJobs, Request(job) PROVE QueueKept(c)
    <3> DEFINE j == Job(job, NoOne, FALSE)
    <3>1. j \in Jobs /\ j.by # c /\ handler' = Append(handler, j)
      BY <2>2, JobKinds, ClientsAssumption DEF Job, Request
    <3> HIDE DEF j
    <3>2. QED BY <1>a, <3>1, OthersQueue
  <2>3. CASE StartTimesOut \/ SetTerminating \/ CloseUIAbilityBySCB \/ UNCHANGED vars
    BY <1>a, <2>3, OthersQueue DEF StartTimesOut, SetTerminating, CloseUIAbilityBySCB
  <2>4. QED BY <2>1, <2>2, <2>3
<1>4. OrdersKept(c)
  <2>1. CASE RequestSceneSessionActivation
    BY <1>a, <2>1, TellAdds DEF RequestSceneSessionActivation, OrdersKept, Told, Closes
  <2>2. CASE CloseUIAbilityBySCB
    <3>1. /\ \A d \in Clients : Range(toDo[d]) \subseteq Range(toDo'[d])
          /\ record # NoOne => "Destroy" \in Range(toDo'[record])
      BY <1>a, <2>2, TellAdds DEF CloseUIAbilityBySCB
    <3>2. QED BY <3>1, ClientsAssumption DEF OrdersKept, Told, Closes
  <2>3. CASE ~RequestSceneSessionActivation /\ ~CloseUIAbilityBySCB
    <3>1. UNCHANGED <<toDo, closing, record>>
      BY <2>3 DEF RequestSceneSessionByCall, StartTimesOut, SetTerminating, Request
    <3>2. QED BY <3>1 DEF OrdersKept, Told, Closes
  <2>4. QED BY <2>1, <2>2, <2>3
<1>5. QED BY <1>a, <1>1, <1>2, <1>3, <1>4, FollowsKept

(* What AMS starts is not the session's client.                            *)
LEMMA StartFollows ==
  ASSUME Inv, Agreement, StartUIAbilityBySCB \/ LateStart
  PROVE  Agreement'
<1> USE DEF vars, serverVars, amsVars, clientVars, boundVars, historyVars
<1> SUFFICES ASSUME NEW c \in Clients PROVE Follows(c)'
  BY DEF Agreement
<1>a. TypeOK /\ Follows(c)
  BY DEF Inv, Agreement
<1>1. /\ races' = races /\ session' = session
      /\ UNCHANGED <<handler, wire, passed, cut, closing>>
  BY DEF StartUIAbilityBySCB, LateStart
<1>2. PICK todo \in Seq({ "Show" }) : Start(todo)
  <2>1. <<"Show">> \in Seq({ "Show" })
    OBVIOUS
  <2>2. QED BY <2>1, StartsTodo DEF StartUIAbilityBySCB, LateStart
<1>3. \/ phase[c] = "NONE" /\ phase'[c] = "LAUNCHED" /\ record' = c
      \/ /\ phase'[c] = phase[c] /\ Range(toDo[c]) \subseteq Range(toDo'[c])
         /\ record = c => record' = c
  BY <1>a, <1>2, StartAdds
<1>4. CASE phase[c] = "NONE" /\ phase'[c] = "LAUNCHED"
  BY <1>a, <1>1, <1>4 DEF Follows, Own
<1>5. CASE /\ phase'[c] = phase[c] /\ Range(toDo[c]) \subseteq Range(toDo'[c])
           /\ record = c => record' = c
  <2>1. SameRequests(c) /\ SameConnection /\ OrdersKept(c)
    BY <1>1, <1>5 DEF SameRequests, SameConnection, OrdersKept, Told, Closes
  <2>2. QueueKept(c)
    BY <1>a, <1>1, OthersQueue
  <2>3. QED BY <1>a, <1>1, <2>1, <2>2, FollowsKept
<1>6. QED BY <1>3, <1>4, <1>5

(* A reset leaves the session to nobody.                                   *)
LEMMA ResetFollows ==
  ASSUME Inv, Agreement, StartReturns \/ Crash
  PROVE  Agreement'
<1> SUFFICES ASSUME NEW c \in Clients PROVE Follows(c)'
  BY DEF Agreement
<1> USE DEF clientVars, boundVars, amsVars
<1>a. TypeOK /\ session \in Sessions /\ Follows(c)
  BY TypeIs DEF Inv, Agreement
<1>1. CASE Crash
  BY <1>1, ClientsAssumption DEF Crash, NewSession, Follows
<1>2. CASE StartReturns /\ launched # NoOne
  <2>1. launched \in Clients
    BY <1>a, <1>2 DEF TypeOK, AnyOne
  <2>2. session'.callingPid = NoOne
    <3>1. ColdStart(session, launched, startCall).callingPid = NoOne
      BY <1>a DEF ColdStart, ResetSessionConnectState, ResetIsActive, Sessions
    <3>2. QED BY <1>2, <3>1 DEF StartReturns
  <2>3. QED BY <2>2, ClientsAssumption DEF Follows
<1>3. CASE StartReturns /\ launched = NoOne
  <2>1. /\ races \subseteq races' /\ session' = session /\ UNCHANGED handler
        /\ SameRequests(c) /\ SameConnection /\ OrdersKept(c)
    BY <1>3 DEF StartReturns, SameRequests, SameConnection, OrdersKept, Told, Closes
  <2>2. QueueKept(c)
    BY <1>a, <2>1, OthersQueue
  <2>3. QED BY <1>a, <2>1, <2>2, FollowsKept
<1>4. QED BY <1>1, <1>2, <1>3

(* SceneBoard puts the session into the background, or disconnects it, and *)
(* has the client told.                                                    *)
LEMMA BackgroundFollows ==
  ASSUME Inv, HeldOrTold, Settled, Agreement, RequestSceneSessionBackground
  PROVE  Agreement'
<1> USE DEF boundVars, amsVars, historyVars
<1> SUFFICES ASSUME NEW c \in Clients, races' = {}, session'.callingPid = c, phase'[c] # "DEAD"
             PROVE  Own(c)' /\ LastRequest(c)' /\ Agrees(c)'
  BY DEF Agreement, Follows
<1>a. TypeOK /\ session \in Sessions /\ session.stage \in AnyOne /\ record \in AnyOne
  BY TypeIs DEF Inv, TypeOK
<1>1. /\ races = {} /\ UNCHANGED <<phase, calling, wire, passed, cut, closing, record>>
      /\ session' = Background(SetActive(session, FALSE))
      /\ Front("RequestBackground")
      /\ toDo' = Tell(IF backgroundSwitch THEN session.stage ELSE record, "Hide")
  BY DEF RequestSceneSessionBackground
<1>2. SameConnection
  BY <1>a, <1>1 DEF SameConnection, Background, SetActive, Sessions
<1>3. session'.state = IF session.state = "ACTIVE" THEN "BACKGROUND" ELSE session.state
  <2>1. /\ SettledSession(session)
        /\ session.state = "ACTIVE" => session.isActive
        /\ session.isActive => session.state \in { "ACTIVE", "DISCONNECT" }
    BY <1>1 DEF Inv, Settled, SettledSession, ActiveFlagAgrees
  <2>2. QED BY <1>a, <1>1, <2>1, SettledOperations
<1>4. Own(c) /\ LastRequest(c) /\ Agrees(c)
  BY <1>1, <1>2 DEF Agreement, Follows, SameConnection
<1>5. QueueKept(c)
  BY <1>1, SceneBoardsJob DEF SceneBoardJobs
<1>6. Own(c)'
  BY <1>1, <1>2, <1>4, <1>5 DEF Own, SameConnection, QueueKept
<1>7. LastRequest(c)'
  BY <1>1, <1>4, <1>5 DEF LastRequest, Sent, QueueKept
<1>8. /\ Closes(c) => Closes(c)'
      /\ Told(c, "Destroy") => Told(c, "Destroy")'
      /\ session.stage = c /\ backgroundSwitch => Told(c, "Hide")'
      /\ record = c /\ ~backgroundSwitch => Told(c, "Hide")'
  <2>1. /\ \A d \in Clients : Range(toDo[d]) \subseteq Range(toDo'[d])
        /\ backgroundSwitch /\ session.stage = c => "Hide" \in Range(toDo'[c])
        /\ ~backgroundSwitch /\ record = c => "Hide" \in Range(toDo'[c])
    BY <1>a, <1>1, TellAdds, ClientsAssumption
  <2>2. QED BY <1>1, <2>1 DEF Closes, Told
<1>9. phase[c] = "SHOWN" => Told(c, "Hide")' \/ Closes(c)'
  <2>1. phase[c] = "SHOWN" => record = c \/ Told(c, "Destroy")
    BY DEF HeldOrTold, Live
  <2>2. session.stage = c
    BY <1>4 DEF Own
  <2>3. QED BY <1>8, <2>1, <2>2 DEF Closes
<1>10. Agrees(c)'
  BY <1>1, <1>3, <1>4, <1>5, <1>8, <1>9 DEF Agrees, Sent, QueueKept
<1>11. QED BY <1>6, <1>7, <1>10

LEMMA DestructionFollows ==
  ASSUME Inv, HeldOrTold, Agreement, RequestSceneSessionDestruction
  PROVE  Agreement'
<1> USE DEF boundVars, historyVars
<1> SUFFICES ASSUME NEW c \in Clients, races' = {}, session'.callingPid = c, phase'[c] # "DEAD"
             PROVE  Own(c)' /\ LastRequest(c)' /\ Agrees(c)'
  BY DEF Agreement, Follows
<1>a. TypeOK /\ session \in Sessions /\ record \in AnyOne /\ closing \in Nat
  BY TypeIs DEF Inv, TypeOK
<1>1. /\ races = {} /\ UNCHANGED <<phase, calling, wire, passed, cut>>
      /\ session' = Disconnect(session) /\ Front("Destruction")
  BY DEF RequestSceneSessionDestruction
<1>2. SameConnection /\ session'.state = "DISCONNECT"
  BY <1>a, <1>1 DEF SameConnection, Disconnect, Sessions
<1>3. Own(c) /\ LastRequest(c)
  BY <1>1, <1>2 DEF Agreement, Follows, SameConnection
<1>4. QueueKept(c)
  BY <1>1, SceneBoardsJob DEF SceneBoardJobs
<1>5. Own(c)'
  BY <1>1, <1>2, <1>3, <1>4 DEF Own, SameConnection, QueueKept
<1>6. LastRequest(c)'
  BY <1>1, <1>3, <1>4 DEF LastRequest, Sent, QueueKept
<1>7. phase[c] = "DESTROYED" \/ Closes(c)'
  <2>1. phase[c] # "DESTROYED" => record = c \/ Told(c, "Destroy")
    BY <1>3 DEF HeldOrTold, Own, Live
  <2>2. CASE closing' = closing + 1 /\ UNCHANGED <<toDo, record>>
    <3>1. closing' > 0
      BY <1>a, <2>2
    <3>2. QED BY <2>1, <2>2, <3>1 DEF Closes, Told
  <2>3. CASE toDo' = Tell(record, "Destroy")
    <3>1. /\ \A d \in Clients : Range(toDo[d]) \subseteq Range(toDo'[d])
          /\ record = c => "Destroy" \in Range(toDo'[c])
      BY <1>a, <2>3, TellAdds, ClientsAssumption
    <3>2. QED BY <2>1, <3>1 DEF Closes, Told
  <2>4. QED BY <2>2, <2>3 DEF RequestSceneSessionDestruction
<1>8. Agrees(c)'
  BY <1>1, <1>2, <1>7 DEF Agrees
<1>9. QED BY <1>5, <1>6, <1>8

(* A client's job is the present client's, or a race; when it was the last *)
(* one the session becomes what the window is.                             *)
LEMMA ClientTaskFollows ==
  ASSUME Inv, Traffic, Settled, Agreement, ClientTask
  PROVE  Agreement'
<1> SUFFICES ASSUME NEW c \in Clients, races' = {}, session'.callingPid = c, phase'[c] # "DEAD"
             PROVE  Own(c)' /\ LastRequest(c)' /\ Agrees(c)'
  BY DEF Agreement, Follows
<1> USE DEF boundVars, amsVars, clientVars
<1>a. TypeOK /\ session \in Sessions /\ handler \in Seq(Jobs)
  BY TypeIs DEF Inv
<1>1. UNCHANGED <<phase, calling, wire, passed, cut, toDo, closing, record>> /\ races \subseteq races'
  BY DEF ClientTask
<1>2. PICK do \in ClientJobs :
        /\ Front(do)
        /\ \/ do = "Foreground" /\ session' = Foreground(session)
           \/ do = "Background" /\ session' = Background(session)
           \/ do = "Disconnect" /\ session' = DisconnectByClient(session)
  BY DEF ClientTask, ForegroundTask, BackgroundTask, DisconnectTask, ClientJobs
<1>3. /\ handler # <<>> /\ handler' = Tail(handler) /\ Head(handler).do = do
      /\ AtFront \in Clients
  BY <1>a, <1>2, FrontIs
<1>4. SameConnection
  BY <1>a, <1>2 DEF SameConnection, Foreground, SetActive, Background, DisconnectByClient, Sessions
<1>5. Head(handler).by = c
  <2>1. ~Foreign(AtFront)
    BY DEF ClientTask
  <2>2. QED BY <1>4, <2>1, ClientsAssumption DEF Foreign, AtFront, SameConnection
<1>6. races = {} /\ Own(c) /\ LastRequest(c) /\ Agrees(c)
  BY <1>1, <1>4 DEF Agreement, Follows, SameConnection
<1>7. Mine(c)' \subseteq Mine(c) /\ Head(handler) \in Mine(c)
  BY <1>a, <1>3, <1>5, MineTail
<1>8. LastIsMet(handler, c, phase[c]) =>
        /\ LastIsMet(handler', c, phase[c])
        /\ Mine(c)' = {} => phase[c] = After(do)
  BY <1>a, <1>3, <1>5, LastOfTail DEF Mine
<1>9. Own(c)'
  BY <1>1, <1>4, <1>6, <1>7 DEF Own, SameConnection
<1>10. LastRequest(c)'
  BY <1>1, <1>6, <1>8 DEF LastRequest, Sent
<1>11. session'.state = CASE do = "Foreground" /\ session.state \in { "CONNECT", "BACKGROUND" } -> "ACTIVE"
                          [] do = "Background" /\ session.state = "ACTIVE" -> "BACKGROUND"
                          [] do = "Disconnect" -> "DISCONNECT"
                          [] OTHER -> session.state
  <2>1. /\ SettledSession(session)
        /\ session.state = "ACTIVE" => session.isActive
        /\ session.isActive => session.state \in { "ACTIVE", "DISCONNECT" }
    BY <1>6 DEF Inv, Settled, SettledSession, ActiveFlagAgrees
  <2>2. DisconnectByClient(session).state = "DISCONNECT"
    BY <1>a DEF DisconnectByClient, Sessions
  <2>3. /\ Foreground(session).state =
             IF session.state \in { "CONNECT", "BACKGROUND" } THEN "ACTIVE" ELSE session.state
        /\ Background(session).state = IF session.state = "ACTIVE" THEN "BACKGROUND" ELSE session.state
    BY <1>a, <2>1, SettledOperations
  <2>4. QED BY <1>2, <2>2, <2>3
<1>12. session.state \in { "DISCONNECT", "CONNECT", "ACTIVE", "BACKGROUND" }
  BY <1>a, <1>6 DEF Settled, Sessions, States
<1>13. do = "Disconnect" => phase[c] = "DESTROYED"
  <2>1. do = "Disconnect" => Leaves(c)
    BY <1>3, <1>7 DEF Leaves
  <2>2. QED BY <1>1, <2>1 DEF Traffic, TrafficOf
<1>14. Sent(c) /\ Mine(c)' = {} => phase[c] = After(do)
  BY <1>6, <1>8 DEF LastRequest
<1>15. Agrees(c)'
  <2>1. session'.state = "DISCONNECT" => phase[c] = "DESTROYED" \/ Closes(c)'
    BY <1>1, <1>6, <1>11, <1>12, <1>13 DEF Agrees, Closes, Told
  <2>2. ASSUME Sent(c)', Mine(c)' = {}, phase'[c] = "SHOWN"
        PROVE  session'.state = "ACTIVE" \/ Closes(c)'
    <3>1. do = "Foreground"
      BY <1>1, <1>2, <1>14, <2>2 DEF After, Sent, ClientJobs
    <3>2. session'.state = "ACTIVE" \/ session'.state = "DISCONNECT"
      BY <1>11, <1>12, <3>1
    <3>3. QED BY <1>1, <2>1, <2>2, <3>2
  <2>3. ASSUME Sent(c)', Mine(c)' = {}, session'.state = "ACTIVE"
        PROVE  phase'[c] = "SHOWN"
    <3>1. do = "Foreground"
      BY <1>2, <1>11, <1>12, <2>3 DEF ClientJobs
    <3>2. QED BY <1>1, <1>14, <2>3, <3>1 DEF After, Sent
  <2>4. QED BY <1>1, <2>1, <2>2, <2>3 DEF Agrees
<1>16. QED BY <1>9, <1>10, <1>15

(* A connection makes the session its client's own, with nothing under     *)
(* way.                                                                    *)
LEMMA ConnectFollows ==
  ASSUME Inv, Traffic, Agreement, ConnectTask
  PROVE  Agreement'
<1> SUFFICES ASSUME NEW c \in Clients PROVE Follows(c)'
  BY DEF Agreement
<1> USE DEF boundVars, amsVars
<1>a. TypeOK /\ session \in Sessions /\ Follows(c)
  BY TypeIs DEF Inv, Agreement
<1>1. /\ handler # <<>> /\ handler' = Tail(handler) /\ AtFront \in Clients
      /\ Head(handler).do = "Connect" /\ AtFront = Head(handler).by
  BY <1>a, FrontIs DEF ConnectTask, Joins, AtFront
<1>2. /\ UNCHANGED <<toDo, calling, wire, passed, cut, closing, record>>
      /\ races \subseteq races' /\ session' = ConnectInner(session, AtFront)
      /\ phase' = [phase EXCEPT ![AtFront] =
                     IF @ # "CONNECTING" THEN @
                     ELSE IF CanConnect(session, AtFront) THEN "CREATED" ELSE "FAILED"]
  BY DEF ConnectTask
<1>3. CASE AtFront # c
  <2>1. QueueKept(c) /\ SameRequests(c) /\ OrdersKept(c)
    BY <1>a, <1>1, <1>2, <1>3, OthersQueue DEF SameRequests, OrdersKept, Told, Closes, TypeOK
  <2>2. CASE CanConnect(session, AtFront)
    <3>1. session'.callingPid # c
      BY <1>a, <1>2, <1>3, <2>2 DEF ConnectInner, Sessions
    <3>2. QED BY <3>1 DEF Follows
  <2>3. CASE ~CanConnect(session, AtFront)
    <3>1. SameConnection /\ session'.state = session.state
      BY <1>2, <2>3 DEF ConnectInner, SameConnection
    <3>2. QED BY <1>a, <1>2, <2>1, <3>1, FollowsKept
  <2>4. QED BY <2>2, <2>3
<1>4. CASE AtFront = c
  <2>1. /\ Mine(c)' \subseteq Mine(c) /\ Head(handler) \in Mine(c)
        /\ \A j \in Mine(c)' : j.do \notin Joins
    BY <1>a, <1>1, <1>4, MineTail, JoinTraffic
  <2>2. Expected(c, Head(handler)) /\ TrafficOf(c)
    BY <2>1 DEF Traffic, TrafficOf
  <2>3. phase[c] \in { "CONNECTING", "DEAD" } /\ c \notin cut
    BY <1>1, <2>2 DEF Expected
  <2>4. CASE CanConnect(session, c) /\ phase[c] = "CONNECTING"
    <3>1. /\ session'.state = "CONNECT" /\ session'.stage = c
          /\ session'.token = session.token /\ session.token \in { NoOne, c }
      BY <1>a, <1>2, <1>4, <2>4
         DEF ConnectInner, CanConnect, CheckIdentityTokenIfMatched, Sessions
    <3>2. phase'[c] = "CREATED"
      BY <1>a, <1>2, <1>4, <2>4 DEF TypeOK
    <3>3. wire[c] = <<>> /\ passed[c] = "none" /\ \A j \in Mine(c) : j.do \notin ClientJobs
      BY <2>2, <2>4 DEF TrafficOf, Silent
    <3>4. Mine(c)' = {}
      <4>1. ASSUME NEW j \in Mine(c)' PROVE FALSE
        <5>1. j \in Jobs /\ j.by = c /\ j \in Mine(c)
          BY <1>a, <2>1, <4>1, HandlerTyped DEF Mine, Range
        <5>2. j.do \in Joins \/ j.do \in ClientJobs
          BY <5>1, ClientsAssumption DEF Jobs
        <5>3. QED BY <2>1, <3>3, <4>1, <5>1, <5>2
      <4>2. QED BY <4>1
    <3>5. Own(c)'
      BY <1>2, <2>3, <3>1, <3>2, <3>4 DEF Own
    <3>6. LastRequest(c)'
      <4>1. handler' \in Seq(Jobs)
        BY <1>a, <1>1, HandlerTyped, TailIs
      <4>2. \A i \in 1 .. Len(handler') : handler'[i].by # c
        BY <3>4, <4>1, RangeIs DEF Mine
      <4>3. QED BY <1>2, <3>3, <4>2 DEF LastRequest, LastIsMet, Sent
    <3>7. Agrees(c)'
      BY <3>1, <3>2 DEF Agrees
    <3>8. QED BY <3>5, <3>6, <3>7 DEF Follows
  <2>5. CASE phase[c] = "DEAD"
    <3>1. phase'[c] = "DEAD"
      BY <1>a, <1>2, <1>4, <2>5 DEF TypeOK
    <3>2. QED BY <3>1 DEF Follows
  <2>6. CASE ~CanConnect(session, c) /\ phase[c] = "CONNECTING"
    <3>1. session' = session
      BY <1>2, <1>4, <2>6 DEF ConnectInner
    <3>2. session.callingPid # c \/ races # {}
      BY <1>a, <2>6 DEF Follows, Own
    <3>3. QED BY <1>2, <3>1, <3>2 DEF Follows
  <2>7. QED BY <2>3, <2>4, <2>5, <2>6
<1>5. QED BY <1>3, <1>4

(* A client that reconnects has been silent since its host died and brings *)
(* its window along.                                                       *)
LEMMA ReconnectFollows ==
  ASSUME Inv, Traffic, Agreement, ReconnectTask
  PROVE  Agreement'
<1> SUFFICES ASSUME NEW c \in Clients, races' = {}, session'.callingPid = c, phase'[c] # "DEAD"
             PROVE  Own(c)' /\ LastRequest(c)' /\ Agrees(c)'
  BY DEF Agreement, Follows
<1>a. TypeOK /\ session \in Sessions
  BY TypeIs DEF Inv
<1>1. PICK shown \in BOOLEAN :
        /\ Front(IF shown THEN "ReconnectShown" ELSE "ReconnectHidden")
        /\ session' = Reconnect(session, AtFront, shown)
  BY DEF ReconnectTask
<1>2. /\ handler # <<>> /\ handler' = Tail(handler) /\ AtFront \in Clients
      /\ Head(handler).do = IF shown THEN "ReconnectShown" ELSE "ReconnectHidden"
  BY <1>a, <1>1, FrontIs DEF Joins
<1>3. UNCHANGED <<phase, wire, passed>> /\ cut' = cut \ {AtFront}
  BY DEF ReconnectTask
<1>4. /\ AtFront = c /\ session'.state = IF shown THEN "ACTIVE" ELSE "BACKGROUND"
      /\ session'.stage = c /\ session'.token = session.token
  BY <1>a, <1>1 DEF Reconnect, Sessions
<1>5. HasWindow(c) /\ session.token \in { NoOne, c }
  <2>1. HasWindow(AtFront) /\ CheckIdentityTokenIfMatched(session, AtFront)
    BY DEF ReconnectTask
  <2>2. QED BY <1>4, <2>1 DEF CheckIdentityTokenIfMatched
<1>6. /\ Mine(c)' \subseteq Mine(c) /\ Head(handler) \in Mine(c)
      /\ \A j \in Mine(c)' : j.do \notin Joins
  BY <1>a, <1>2, <1>4, MineTail, JoinTraffic DEF AtFront
<1>7. Expected(c, Head(handler)) /\ TrafficOf(c)
  BY <1>6 DEF Traffic, TrafficOf
<1>8. c \in cut /\ (phase[c] = "SHOWN" <=> shown)
  BY <1>2, <1>5, <1>7 DEF Expected
<1>9. wire[c] = <<>> /\ passed[c] = "none" /\ \A j \in Mine(c) : j.do \notin ClientJobs
  BY <1>7, <1>8 DEF TrafficOf, Silent
<1>10. Mine(c)' = {}
  <2>1. ASSUME NEW j \in Mine(c)' PROVE FALSE
    <3>1. j \in Jobs /\ j.by = c /\ j \in Mine(c)
      BY <1>a, <1>6, <2>1, HandlerTyped DEF Mine, Range
    <3>2. j.do \in Joins \/ j.do \in ClientJobs
      BY <3>1, ClientsAssumption DEF Jobs
    <3>3. QED BY <1>6, <1>9, <2>1, <3>1, <3>2
  <2>2. QED BY <2>1
<1>11. Own(c)'
  BY <1>3, <1>4, <1>5, <1>10 DEF Own, HasWindow
<1>12. LastRequest(c)'
  <2>1. handler' \in Seq(Jobs)
    BY <1>a, <1>2, HandlerTyped, TailIs
  <2>2. \A i \in 1 .. Len(handler') : handler'[i].by # c
    BY <1>10, <2>1, RangeIs DEF Mine
  <2>3. QED BY <1>3, <1>9, <2>2 DEF LastRequest, LastIsMet, Sent
<1>13. Agrees(c)'
  BY <1>3, <1>4, <1>8 DEF Agrees
<1>14. QED BY <1>11, <1>12, <1>13

(* What one client does is nothing to another's session.                   *)
ClientMoves(c) ==
  \/ Create(c) \/ Show(c) \/ Hide(c) \/ Destroy(c) \/ Die(c)
  \/ RecoverAndReconnectSceneSession(c) \/ CheckForeground(c) \/ PostForeground(c)
  \/ CheckOneWay(c) \/ PostOneWay(c)

LEMMA MovesAppend ==
  ASSUME Inv, NEW c \in Clients, ClientMoves(c)
  PROVE  UNCHANGED handler \/ \E j \in Jobs : j.by = c /\ handler' = Append(handler, j)
<1> USE DEF serverVars
<1>a. TypeOK
  BY DEF Inv
<1>1. \A do \in Joins : Job(do, c, FALSE) \in Jobs /\ Job(do, c, FALSE).by = c
  BY JobKinds DEF Job
<1>2. \A do \in ClientJobs : Job(do, c, Behind(c)) \in Jobs /\ Job(do, c, Behind(c)).by = c
  BY JobKinds DEF Job, Behind
<1>3. CASE Create(c)
  BY <1>1, <1>3 DEF Create, Joins
<1>4. CASE RecoverAndReconnectSceneSession(c)
  BY <1>1, <1>4 DEF RecoverAndReconnectSceneSession, Joins
<1>5. CASE PostForeground(c)
  BY <1>2, <1>5 DEF PostForeground, ClientJobs
<1>6. CASE PostOneWay(c)
  <2>1. passed[c] \in ClientJobs
    BY <1>a, <1>6 DEF PostOneWay, TypeOK, ClientJobs
  <2>2. QED BY <1>2, <1>6, <2>1 DEF PostOneWay
<1>7. CASE \/ Show(c) \/ Hide(c) \/ Destroy(c) \/ Die(c) \/ CheckForeground(c) \/ CheckOneWay(c)
  BY <1>7 DEF Show, Hide, Destroy, MainThread, Die, CheckForeground, CheckOneWay
<1>8. QED BY <1>3, <1>4, <1>5, <1>6, <1>7 DEF ClientMoves

LEMMA OthersFollow ==
  ASSUME Inv, Agreement, NEW c \in Clients, ClientMoves(c), NEW d \in Clients, d # c
  PROVE  Follows(d)'
<1> USE DEF serverVars, amsVars, clientVars, boundVars, historyVars
<1>a. TypeOK /\ Follows(d)
  BY DEF Inv, Agreement
<1>1. /\ UNCHANGED <<session, closing, cut>> /\ races \subseteq races'
      /\ phase'[d] = phase[d] /\ wire'[d] = wire[d] /\ passed'[d] = passed[d]
      /\ toDo'[d] = toDo[d] /\ (record = d => record' = d)
  <2>1. CASE Create(c) \/ Die(c) \/ RecoverAndReconnectSceneSession(c)
    BY <1>a, <2>1 DEF Create, Die, RecoverAndReconnectSceneSession, TypeOK
  <2>2. CASE Show(c) \/ Hide(c) \/ Destroy(c)
    BY <1>a, <2>2 DEF Show, Hide, Destroy, MainThread, TypeOK
  <2>3. CASE CheckForeground(c) \/ PostForeground(c)
    BY <1>a, <2>3 DEF CheckForeground, PostForeground, TypeOK
  <2>4. CASE CheckOneWay(c) \/ PostOneWay(c)
    BY <1>a, <2>4 DEF CheckOneWay, PostOneWay, TypeOK
  <2>5. QED BY <2>1, <2>2, <2>3, <2>4 DEF ClientMoves
<1>2. QueueKept(d)
  <2>1. UNCHANGED handler \/ \E j \in Jobs : j.by # d /\ handler' = Append(handler, j)
    BY MovesAppend
  <2>2. QED BY <1>a, <2>1, OthersQueue
<1>3. SameRequests(d) /\ SameConnection /\ OrdersKept(d)
  BY <1>1 DEF SameRequests, SameConnection, OrdersKept, Told, Closes
<1>4. QED BY <1>a, <1>1, <1>2, <1>3, FollowsKept

(* The session's client keeps its requests in order: a synchronous call    *)
(* overtakes none, and the window already is as the last one says.         *)
LEMMA OwnMoves ==
  ASSUME Inv, Traffic, Agreement, NEW c \in Clients, ClientMoves(c)
  PROVE  Follows(c)'
<1> SUFFICES ASSUME races' = {}, session'.callingPid = c, phase'[c] # "DEAD"
             PROVE  Own(c)' /\ LastRequest(c)' /\ Agrees(c)'
  BY DEF Follows
<1> USE DEF serverVars, amsVars, clientVars, boundVars, historyVars
<1>a. TypeOK /\ handler \in Seq(Jobs)
  BY TypeIs DEF Inv
<1>b. /\ UNCHANGED <<session, closing, cut>> /\ races \subseteq races'
      /\ phase[c] = "DEAD" => phase'[c] = "DEAD"
  <2>1. UNCHANGED <<session, closing, cut>> /\ races \subseteq races'
    BY DEF ClientMoves, Create, Show, Hide, Destroy, MainThread, Die, CheckForeground,
      CheckOneWay, RecoverAndReconnectSceneSession, PostForeground, PostOneWay
  <2>2. ASSUME phase[c] = "DEAD" PROVE phase'[c] = "DEAD"
    <3>1. CASE Create(c) \/ Die(c) \/ RecoverAndReconnectSceneSession(c)
      BY <1>a, <2>2, <3>1 DEF Create, Die, RecoverAndReconnectSceneSession
    <3>2. CASE Show(c) \/ Hide(c) \/ Destroy(c)
      BY <2>2, <3>2 DEF Show, Hide, Destroy, HasWindow
    <3>3. CASE CheckForeground(c) \/ PostForeground(c)
      BY <1>a, <2>2, <3>3 DEF CheckForeground, PostForeground, TypeOK
    <3>4. CASE CheckOneWay(c) \/ PostOneWay(c)
      BY <2>2, <3>4 DEF CheckOneWay, PostOneWay
    <3>5. QED BY <3>1, <3>2, <3>3, <3>4 DEF ClientMoves
  <2>3. QED BY <2>1, <2>2
<1>c. races = {} /\ session.callingPid = c /\ Own(c) /\ LastRequest(c) /\ Agrees(c) /\ TrafficOf(c)
  BY <1>b DEF Agreement, Follows, Traffic
<1>d. /\ phase[c] \in { "CREATED", "SHOWN", "HIDDEN", "DESTROYED" } /\ c \notin cut
      /\ wire[c] \in Seq({ "Background", "Disconnect" })
      /\ toDo[c] \in Seq({ "Show", "Hide", "Destroy" })
  BY <1>a, <1>c DEF Own, TypeOK
<1>1. CASE Create(c) \/ Die(c) \/ RecoverAndReconnectSceneSession(c)
  BY <1>a, <1>d, <1>1 DEF Create, Die, RecoverAndReconnectSceneSession, TypeOK
<1>2. CASE CheckForeground(c)
  <2>1. Matches(session, c)
    BY <1>c DEF Matches, CheckPidIfMatched, CheckIdentityTokenIfMatched, Own
  <2>2. UNCHANGED <<phase, handler, wire, passed, toDo, record>>
    BY <1>2, <2>1 DEF CheckForeground
  <2>3. QueueKept(c) /\ SameRequests(c) /\ SameConnection /\ OrdersKept(c)
    BY <1>a, <1>b, <2>2, OthersQueue DEF SameRequests, SameConnection, OrdersKept, Told, Closes
  <2>4. Follows(c)'
    BY <1>b, <2>3, FollowsKept DEF Agreement
  <2>5. QED BY <2>4 DEF Follows
<1>3. ASSUME Show(c) \/ Hide(c) \/ Destroy(c)
      PROVE  /\ UNCHANGED <<handler, passed, record>> /\ toDo[c] # <<>>
             /\ Range(toDo[c]) = Range(toDo'[c]) \cup {Head(toDo[c])}
             /\ Mine(c)' = Mine(c)
  <2>1. /\ UNCHANGED <<handler, passed, record>> /\ toDo[c] # <<>>
        /\ toDo'[c] = Tail(toDo[c])
    BY <1>a, <1>3 DEF Show, Hide, Destroy, MainThread, TypeOK
  <2>2. Range(toDo[c]) = Range(toDo'[c]) \cup {Head(toDo[c])}
    BY <1>d, <2>1, RangeOfTail
  <2>3. QED BY <2>1, <2>2 DEF Mine
<1>4. CASE Show(c)
  <2>1. Head(toDo[c]) = "Show" /\ UNCHANGED <<phase, wire>>
    BY <1>4 DEF Show, MainThread
  <2>2. QueueKept(c) /\ SameRequests(c) /\ SameConnection /\ OrdersKept(c)
    BY <1>a, <1>b, <1>3, <1>4, <2>1, OthersQueue
       DEF SameRequests, SameConnection, OrdersKept, Told, Closes
  <2>3. Follows(c)'
    BY <1>b, <2>2, FollowsKept DEF Agreement
  <2>4. QED BY <2>3 DEF Follows
<1>5. ASSUME NEW call \in { "Background", "Disconnect" },
             wire'[c] = Append(wire[c], call), phase'[c] = After(call),
             UNCHANGED <<handler, passed>>, Mine(c)' = Mine(c)
      PROVE  Own(c)' /\ LastRequest(c)' /\ ~Sent(c)'
  <2>1. /\ Append(wire[c], call) # <<>>
        /\ Append(wire[c], call)[Len(Append(wire[c], call))] = call
    BY <1>d
  <2>2. Own(c)'
    BY <1>b, <1>c, <1>5 DEF Own, After
  <2>3. QED BY <1>5, <2>1, <2>2 DEF LastRequest, Sent
<1>6. CASE Hide(c)
  <2>1. /\ Head(toDo[c]) = "Hide"
        /\ IF phase[c] = "SHOWN"
             THEN phase'[c] = "HIDDEN" /\ wire'[c] = Append(wire[c], "Background")
             ELSE UNCHANGED <<phase, wire>>
    BY <1>a, <1>d, <1>6 DEF Hide, MainThread, TypeOK
  <2>2. Closes(c) => Closes(c)'
    BY <1>b, <1>3, <1>6, <2>1 DEF Closes, Told
  <2>3. CASE phase[c] = "SHOWN"
    <3>1. Own(c)' /\ LastRequest(c)' /\ ~Sent(c)'
      BY <1>3, <1>5, <1>6, <2>1, <2>3 DEF After
    <3>2. Agrees(c)'
      BY <1>b, <1>c, <2>2, <2>3, <3>1 DEF Agrees
    <3>3. QED BY <3>1, <3>2
  <2>4. CASE phase[c] # "SHOWN"
    <3>1. UNCHANGED <<phase, wire>>
      BY <2>1, <2>4
    <3>2. Own(c)' /\ LastRequest(c)'
      BY <1>b, <1>c, <1>3, <1>6, <3>1 DEF Own, LastRequest, Sent
    <3>3. Agrees(c)'
      BY <1>b, <1>c, <1>3, <1>6, <2>2, <2>4, <3>1 DEF Agrees, Sent
    <3>4. QED BY <3>2, <3>3
  <2>5. QED BY <2>3, <2>4
<1>7. CASE Destroy(c)
  <2>1. IF phase[c] # "DESTROYED"
          THEN phase'[c] = "DESTROYED" /\ wire'[c] = Append(wire[c], "Disconnect")
          ELSE UNCHANGED <<phase, wire>>
    BY <1>a, <1>d, <1>7 DEF Destroy, MainThread, HasWindow, TypeOK
  <2>2. CASE phase[c] # "DESTROYED"
    <3>1. Own(c)' /\ LastRequest(c)' /\ ~Sent(c)'
      BY <1>3, <1>5, <1>7, <2>1, <2>2 DEF After
    <3>2. Agrees(c)'
      BY <2>1, <2>2, <3>1 DEF Agrees
    <3>3. QED BY <3>1, <3>2
  <2>3. CASE phase[c] = "DESTROYED"
    <3>1. UNCHANGED <<phase, wire>>
      BY <2>1, <2>3
    <3>2. Own(c)' /\ LastRequest(c)'
      BY <1>b, <1>c, <1>3, <1>7, <3>1 DEF Own, LastRequest, Sent
    <3>3. Agrees(c)'
      BY <1>b, <1>c, <1>3, <1>7, <2>3, <3>1 DEF Agrees, Sent
    <3>4. QED BY <3>2, <3>3
  <2>4. QED BY <2>2, <2>3
<1>8. CASE PostForeground(c)
  <2> DEFINE j == Job("Foreground", c, Behind(c))
  <2>1. j \in Jobs /\ j.by = c /\ j.do = "Foreground"
    BY JobKinds DEF Job, ClientJobs, Behind
  <2>2. /\ handler' = Append(handler, j) /\ UNCHANGED <<wire, passed, toDo, record>>
        /\ calling[c] # "no" /\ phase'[c] = "SHOWN" /\ Sent(c)
    BY <1>a, <1>d, <1>8 DEF PostForeground, TypeOK, Sent
  <2> HIDE DEF j
  <2>3. Mine(c)' = Mine(c) \cup {j}
    BY <1>a, <2>1, <2>2, MineAppend
  <2>4. LastIsMet(handler', c, "SHOWN")
    BY <1>a, <2>1, <2>2, LastOfAppend DEF After
  <2>5. phase[c] # "DESTROYED"
    BY <1>c, <2>2 DEF TrafficOf
  <2>6. Own(c)'
    BY <1>b, <1>c, <2>1, <2>2, <2>3 DEF Own, Joins
  <2>7. LastRequest(c)'
    BY <2>2, <2>4 DEF LastRequest, Sent
  <2>8. Agrees(c)'
    BY <1>b, <1>c, <2>2, <2>3, <2>5 DEF Agrees, Closes, Told
  <2>9. QED BY <2>6, <2>7, <2>8
<1>9. CASE CheckOneWay(c)
  <2>1. Matches(session, c)
    BY <1>c DEF Matches, CheckPidIfMatched, CheckIdentityTokenIfMatched, Own
  <2>2. /\ UNCHANGED <<phase, handler, toDo, record>> /\ wire[c] # <<>> /\ passed[c] = "none"
        /\ wire'[c] = Tail(wire[c]) /\ passed'[c] = Head(wire[c])
    BY <1>a, <1>9, <2>1 DEF CheckOneWay, TypeOK
  <2>3. phase[c] = After(wire[c][Len(wire[c])])
    BY <1>c, <2>2 DEF LastRequest
  <2>4. /\ Tail(wire[c]) = <<>> => wire[c][Len(wire[c])] = Head(wire[c])
        /\ Tail(wire[c]) # <<>> =>
             Tail(wire[c])[Len(Tail(wire[c]))] = wire[c][Len(wire[c])]
        /\ Head(wire[c]) # "none"
    <3>1. Head(wire[c]) \in { "Background", "Disconnect" }
      BY <1>d, <2>2
    <3>2. /\ Head(wire[c]) = wire[c][1] /\ Len(wire[c]) \in Nat
          /\ Len(Tail(wire[c])) = Len(wire[c]) - 1
      BY <1>d, <2>2
    <3>3. Tail(wire[c]) = <<>> => Len(wire[c]) = 1
      <4>1. SUFFICES ASSUME Tail(wire[c]) = <<>> PROVE Len(wire[c]) = 1
        OBVIOUS
      <4>2. Len(Tail(wire[c])) = 0
        BY <4>1
      <4>3. QED BY <3>2, <4>2
    <3>4. ASSUME Tail(wire[c]) # <<>>
          PROVE  Tail(wire[c])[Len(Tail(wire[c]))] = wire[c][Len(wire[c])]
      BY <1>d, <2>2, <3>4
    <3>5. QED BY <3>1, <3>2, <3>3, <3>4
  <2>5. Own(c)'
    BY <1>b, <1>c, <2>2 DEF Own, Mine
  <2>6. LastRequest(c)' /\ ~Sent(c)'
    BY <2>2, <2>3, <2>4 DEF LastRequest, Sent
  <2>7. Agrees(c)'
    BY <1>b, <1>c, <2>2, <2>6 DEF Agrees, Closes, Told
  <2>8. QED BY <2>5, <2>6, <2>7
<1>10. CASE PostOneWay(c)
  <2> DEFINE j == Job(passed[c], c, Behind(c))
  <2>1. j \in Jobs /\ j.by = c /\ j.do = passed[c] /\ j.do \in ClientJobs
    <3>1. passed[c] \in ClientJobs /\ Behind(c) \in BOOLEAN
      BY <1>a, <1>10 DEF PostOneWay, TypeOK, ClientJobs, Behind
    <3>2. QED BY <3>1, JobKinds DEF Job
  <2>2. /\ handler' = Append(handler, j) /\ UNCHANGED <<phase, wire, toDo, record>>
        /\ passed[c] # "none" /\ passed'[c] = "none"
    BY <1>a, <1>10 DEF PostOneWay, TypeOK
  <2> HIDE DEF j
  <2>3. Mine(c)' = Mine(c) \cup {j}
    BY <1>a, <2>1, <2>2, MineAppend
  <2>4. wire[c] = <<>> => phase[c] = After(passed[c])
    BY <1>c, <2>2 DEF LastRequest
  <2>5. wire[c] = <<>> => LastIsMet(handler', c, phase[c])
    BY <1>a, <2>1, <2>2, <2>4, LastOfAppend
  <2>6. Own(c)'
    BY <1>b, <1>c, <2>1, <2>2, <2>3 DEF Own, Joins, ClientJobs
  <2>7. LastRequest(c)'
    BY <1>c, <2>2, <2>5 DEF LastRequest, Sent
  <2>8. Agrees(c)'
    BY <1>b, <1>c, <2>2, <2>3 DEF Agrees, Closes, Told
  <2>9. QED BY <2>6, <2>7, <2>8
<1>11. QED BY <1>1, <1>2, <1>4, <1>6, <1>7, <1>8, <1>9, <1>10 DEF ClientMoves

LEMMA AgreementInvariant ==
  Inv /\ Traffic /\ HeldOrTold /\ Settled /\ Agreement /\ [Next]_vars => Agreement'
<1> SUFFICES ASSUME Inv, Traffic, HeldOrTold, Settled, Agreement, [Next]_vars
             PROVE  Agreement'
  OBVIOUS
<1>1. ASSUME NEW c \in Clients, ClientMoves(c) PROVE Agreement'
  BY <1>1, OthersFollow, OwnMoves DEF Agreement
<1>2. QED
  BY <1>1, ServerFollows, StartFollows, ResetFollows, BackgroundFollows, DestructionFollows,
     ClientTaskFollows, ConnectFollows, ReconnectFollows
     DEF Next, HandlerStep, ClientStep, Environment, ClientMoves
-----------------------------------------------------------------------------
LEMMA InitQuietInv == Init => QuietInv
<1> SUFFICES ASSUME Init PROVE QuietInv
  OBVIOUS
<1>1. Inv
  BY InitInv
<1>2. \A c \in Clients : Mine(c) = {} /\ Range(wire[c]) = {}
  BY RangeOfEmpty DEF Init, Mine
<1>3. Traffic
  BY <1>2 DEF Init, Traffic, TrafficOf, Silent, Leaves
<1>4. HeldOrTold /\ Settled
  BY DEF Init, NewSession, HeldOrTold, Live, Settled
<1>5. Agreement
  BY ClientsAssumption DEF Init, NewSession, Agreement, Follows
<1>6. QED BY <1>1, <1>3, <1>4, <1>5 DEF QuietInv

LEMMA NextQuietInv == QuietInv /\ [Next]_vars => QuietInv'
BY NextInv, TrafficInvariant, HeldInvariant, SettledInvariant, AgreementInvariant DEF QuietInv

LEMMA QuietInvAgrees == QuietInv => QuietAgreement
<1> SUFFICES ASSUME QuietInv, Quiet, races = {}, NEW c \in Clients,
                    phase[c] # "DEAD", session.callingPid = c
             PROVE  phase[c] = "SHOWN" <=> session.state = "ACTIVE"
  BY DEF QuietAgreement
<1>1. Agrees(c)
  BY DEF QuietInv, Agreement, Follows
<1>2. Sent(c) /\ Mine(c) = {} /\ ~(closing > 0)
  BY RangeOfEmpty DEF Quiet, Sent, Mine
<1>3. phase[c] = "SHOWN" => ~Told(c, "Hide") /\ ~Closes(c)
  BY <1>2, RangeOfEmpty DEF Quiet, HasWindow, Told, Closes
<1>4. QED BY <1>1, <1>2, <1>3 DEF Agrees

(* When every queue has run empty, the session's client shows its window   *)
(* if and only if the session is active, unless a race has been run.       *)
THEOREM QuietStatesAgree == Spec => []QuietAgreement
<1>1. Spec => []QuietInv
  BY InitQuietInv, NextQuietInv, PTL DEF Spec
<1>2. QED BY <1>1, QuietInvAgrees, PTL
-----------------------------------------------------------------------------
(* A client that is being created waits for Connect on its main thread.    *)
(* Its Connect stays on the handler's queue until it is run and answers,   *)
(* or SceneBoard's process dies and the call fails.                        *)
CreatorsAreAnswered ==
  \A c \in Clients : phase[c] = "CONNECTING" => ToConnect(handler, c)

LEMMA ToConnectTail ==
  ASSUME NEW h \in Seq(Jobs), h # <<>>, NEW c \in Clients, ToConnect(h, c),
         ~(Head(h).do = "Connect" /\ Head(h).by = c)
  PROVE  ToConnect(Tail(h), c)
<1>1. PICK i \in 1 .. Len(h) : h[i].do = "Connect" /\ h[i].by = c
  BY DEF ToConnect
<1>2. i # 1
  BY <1>1, TailIs
<1>3. i - 1 \in 1 .. Len(Tail(h)) /\ Tail(h)[i - 1] = h[i]
  BY <1>1, <1>2
<1>4. QED BY <1>1, <1>3 DEF ToConnect

LEMMA ToConnectAppend ==
  ASSUME NEW h \in Seq(Jobs), NEW j
  PROVE  /\ \A c \in Clients : ToConnect(h, c) => ToConnect(Append(h, j), c)
         /\ \A c \in Clients :
              j.do = "Connect" /\ j.by = c => ToConnect(Append(h, j), c)
<1>1. /\ Len(h) \in Nat /\ Len(Append(h, j)) = Len(h) + 1
      /\ Append(h, j)[Len(h) + 1] = j
      /\ \A i \in 1 .. Len(h) : Append(h, j)[i] = h[i]
  OBVIOUS
<1>2. \A i \in 1 .. Len(h) : i \in 1 .. Len(h) + 1
  BY <1>1
<1>3. Len(h) + 1 \in 1 .. Len(h) + 1
  BY <1>1
<1>4. QED BY <1>1, <1>2, <1>3 DEF ToConnect

(* A step that takes nobody's Connect off the queue.                       *)
Waits(c) == phase'[c] = "CONNECTING" => phase[c] = "CONNECTING"

LEMMA AnsweredStep ==
  ASSUME TypeOK, CreatorsAreAnswered, \A c \in Clients : Waits(c),
         \/ handler' = handler
         \/ \E j : handler' = Append(handler, j)
         \/ handler # <<>> /\ handler' = Tail(handler) /\ Head(handler).do # "Connect"
  PROVE  CreatorsAreAnswered'
<1>1. handler \in Seq(Jobs)
  BY HandlerTyped
<1>2. SUFFICES ASSUME NEW c \in Clients, ToConnect(handler, c)
               PROVE  ToConnect(handler', c)
  BY DEF CreatorsAreAnswered, Waits
<1>3. CASE handler' = handler
  BY <1>2, <1>3
<1>4. CASE \E j : handler' = Append(handler, j)
  <2>1. PICK j : handler' = Append(handler, j)
    BY <1>4
  <2>2. ToConnect(Append(handler, j), c)
    BY <1>1, <1>2, ToConnectAppend
  <2>3. QED BY <2>1, <2>2
<1>5. CASE handler # <<>> /\ handler' = Tail(handler) /\ Head(handler).do # "Connect"
  <2>1. ToConnect(Tail(handler), c)
    BY <1>1, <1>2, <1>5, ToConnectTail
  <2>2. QED BY <1>5, <2>1
<1>6. QED BY <1>3, <1>4, <1>5

LEMMA CreateAnswered ==
  ASSUME TypeOK, CreatorsAreAnswered, NEW c \in Clients, Create(c)
  PROVE  CreatorsAreAnswered'
<1>1. CASE c \in cut
  <2>1. handler' = handler /\ \A d \in Clients : Waits(d)
    BY <1>1 DEF Create, Waits, TypeOK
  <2>2. QED BY <2>1, AnsweredStep
<1>2. CASE c \notin cut
  <2> DEFINE j == Job("Connect", c, FALSE)
  <2>1. j.do = "Connect" /\ j.by = c
    BY DEF Job
  <2>2. /\ handler' = Append(handler, j)
        /\ \A d \in Clients : d # c => phase'[d] = phase[d]
    BY <1>2 DEF Create, TypeOK
  <2> HIDE DEF j
  <2>3. handler \in Seq(Jobs)
    BY HandlerTyped
  <2>4. /\ \A d \in Clients : ToConnect(handler, d) => ToConnect(handler', d)
        /\ ToConnect(handler', c)
    BY <2>1, <2>2, <2>3, ToConnectAppend
  <2>5. QED BY <2>2, <2>4 DEF CreatorsAreAnswered
<1>3. QED BY <1>1, <1>2

LEMMA ConnectTaskAnswers ==
  ASSUME TypeOK, CreatorsAreAnswered, ConnectTask
  PROVE  CreatorsAreAnswered'
<1>1. /\ handler \in Seq(Jobs) /\ handler # <<>> /\ handler' = Tail(handler)
      /\ AtFront \in Clients
  BY FrontIs DEF ConnectTask, Joins
<1>2. /\ phase'[AtFront] # "CONNECTING"
      /\ \A d \in Clients : d # AtFront => phase'[d] = phase[d]
  BY <1>1 DEF ConnectTask, TypeOK
<1>3. ASSUME NEW d \in Clients, phase'[d] = "CONNECTING"
      PROVE  ToConnect(handler', d)
  <2>1. d # AtFront /\ ToConnect(handler, d)
    BY <1>2, <1>3 DEF CreatorsAreAnswered
  <2>2. ToConnect(Tail(handler), d)
    BY <1>1, <2>1, ToConnectTail DEF AtFront
  <2>3. QED BY <1>1, <2>2
<1>4. QED BY <1>3 DEF CreatorsAreAnswered

LEMMA AnsweredInvariant ==
  ASSUME TypeOK, CreatorsAreAnswered, [Next]_vars
  PROVE  CreatorsAreAnswered'
<1> USE DEF vars, serverVars, amsVars, clientVars, boundVars, historyVars
<1>1. ASSUME \/ RequestSceneSessionActivation \/ RequestSceneSessionByCall
             \/ RequestSceneSessionBackground \/ RequestSceneSessionDestruction
             \/ ClientTask \/ ReconnectTask
      PROVE  CreatorsAreAnswered'
  <2>1. phase' = phase
    BY <1>1 DEF RequestSceneSessionActivation, RequestSceneSessionByCall, ClientTask,
      RequestSceneSessionBackground, RequestSceneSessionDestruction, ReconnectTask
  <2>2. handler # <<>> /\ handler' = Tail(handler) /\ Head(handler).do # "Connect"
    BY <1>1 DEF RequestSceneSessionActivation, RequestSceneSessionByCall, ClientTask,
      RequestSceneSessionBackground, RequestSceneSessionDestruction, ReconnectTask,
      ForegroundTask, BackgroundTask, DisconnectTask, Front
  <2>3. QED BY <2>1, <2>2, AnsweredStep DEF Waits
<1>2. ASSUME \/ StartReturns \/ StartTimesOut \/ CloseUIAbilityBySCB \/ SetTerminating
             \/ UNCHANGED vars
      PROVE  CreatorsAreAnswered'
  <2>1. UNCHANGED <<handler, phase>>
    BY <1>2 DEF StartReturns, StartTimesOut, CloseUIAbilityBySCB, SetTerminating
  <2>2. QED BY <2>1, AnsweredStep DEF Waits
<1>3. ASSUME StartUIAbilityBySCB \/ LateStart PROVE CreatorsAreAnswered'
  <2>1. handler' = handler /\ \E todo : Start(todo)
    BY <1>3 DEF StartUIAbilityBySCB, LateStart
  <2>2. \A d \in Clients : Waits(d)
    BY <2>1 DEF Start, Waits, TypeOK
  <2>3. QED BY <2>1, <2>2, AnsweredStep
<1>4. ASSUME ConnectTask PROVE CreatorsAreAnswered'
  BY <1>4, ConnectTaskAnswers
<1>5. ASSUME NEW job \in SceneBoardJobs, Request(job) PROVE CreatorsAreAnswered'
  <2>1. phase' = phase /\ \E j : handler' = Append(handler, j)
    BY <1>5 DEF Request
  <2>2. QED BY <2>1, AnsweredStep DEF Waits
<1>6. ASSUME Crash PROVE CreatorsAreAnswered'
  <2>1. \A d \in Clients : phase'[d] # "CONNECTING"
    BY <1>6 DEF Crash
  <2>2. QED BY <2>1 DEF CreatorsAreAnswered
<1>7. ASSUME NEW c \in Clients, Create(c) PROVE CreatorsAreAnswered'
  BY <1>7, CreateAnswered
<1>8. ASSUME NEW c \in Clients,
             Show(c) \/ Hide(c) \/ Destroy(c) \/ Die(c) \/ CheckForeground(c) \/ CheckOneWay(c)
      PROVE  CreatorsAreAnswered'
  <2>1. handler' = handler
    BY <1>8 DEF Show, Hide, Destroy, MainThread, Die, CheckForeground, CheckOneWay
  <2>2. \A d \in Clients : Waits(d)
    BY <1>8 DEF Show, Hide, Destroy, MainThread, Die, CheckForeground, CheckOneWay,
      Waits, TypeOK
  <2>3. QED BY <2>1, <2>2, AnsweredStep
<1>9. ASSUME NEW c \in Clients,
             PostForeground(c) \/ PostOneWay(c) \/ RecoverAndReconnectSceneSession(c)
      PROVE  CreatorsAreAnswered'
  <2>1. \E j : handler' = Append(handler, j)
    BY <1>9 DEF PostForeground, PostOneWay, RecoverAndReconnectSceneSession
  <2>2. \A d \in Clients : Waits(d)
    BY <1>9 DEF PostForeground, PostOneWay, RecoverAndReconnectSceneSession, Waits, TypeOK
  <2>3. QED BY <2>1, <2>2, AnsweredStep
<1>10. QED
  BY <1>1, <1>2, <1>3, <1>4, <1>5, <1>6, <1>7, <1>8, <1>9
  DEF Next, HandlerStep, ClientStep, Environment

(* No client waits for a Connect that nobody will answer, whatever AMS     *)
(* starts, closes or gives up and however often SceneBoard crashes.        *)
THEOREM NoCreatorIsForgotten == Spec => []CreatorsAreAnswered
<1>1. Init => CreatorsAreAnswered
  BY DEF Init, CreatorsAreAnswered
<1>2. TypeOK /\ CreatorsAreAnswered /\ [Next]_vars => CreatorsAreAnswered'
  BY AnsweredInvariant
<1>3. QED BY <1>1, <1>2, LifecycleTyped, PTL DEF Spec
=============================================================================
