--------------------------- MODULE SessionLifecycle ---------------------------
(***************************************************************************)
(* The life cycle of one main window: its session in SceneBoard's process, *)
(* the client processes that connect to it one after the other, and the    *)
(* ability manager (AMS) that starts and closes them.                      *)
(*                                                                         *)
(* A client is one incarnation of the ability, with an identity token and  *)
(* a pid of its own.  It connects and shows itself by synchronous calls;   *)
(* it leaves by one-way calls, which keep their order among themselves and *)
(* may be overtaken by a synchronous one.  An IPC thread checks a call     *)
(* against the session and then posts what it asks for to the handler      *)
(* thread, without the caller's name.                                      *)
(***************************************************************************)
EXTENDS Naturals, Sequences, FiniteSets, Functions

CONSTANTS
  Clients,      \* the incarnations of the ability
  NoOne,        \* no client: pid -1, an empty token, a null stage
  MaxRequests,  \* bound: requests of SceneBoard
  MaxCrashes    \* bound: crashes of SceneBoard's process

ASSUME ClientsAssumption == NoOne \notin Clients
ASSUME BoundsAssumption == MaxRequests \in Nat /\ MaxCrashes \in Nat

VARIABLES
  session,      \* state_, isActive_, isTerminating_, callingPid_,
                \* clientIdentityToken_ and sessionStage_
  handler,      \* the jobs of the handler thread
  startCall,    \* the request that waits for AMS on the handler thread
  answered,     \* AMS has answered it
  launched,     \* the client AMS launched for it
  overdue,      \* a start that timed out and that AMS has still to carry out
  record,       \* the client AMS holds for this session
  closing,      \* CloseUIAbilityBySCB calls on the ffrt queue
  phase,        \* each client's process and its window's state_
  toDo,         \* the jobs of each client's main thread
  calling,      \* each client's call of Foreground
  wire,         \* each client's one-way calls
  passed,       \* the one-way call that passed its check, not posted yet
  cut,          \* the clients whose hostSession_ died
  requests,     \* requests of SceneBoard so far
  crashes,      \* crashes so far
  backgroundSwitch, \* systemConfig_.backgroundswitch
  late,         \* history: the clients whose call has passed its check and
                \* whose connection has been reset or replaced since
  races         \* history: the races that have been run

serverVars == <<session, handler, startCall, answered, launched>>
amsVars == <<overdue, record, closing>>
clientVars == <<phase, toDo, calling, wire, passed, cut>>
boundVars == <<requests, crashes, backgroundSwitch>>
historyVars == <<late, races>>
vars == <<serverVars, amsVars, clientVars, boundVars, historyVars>>

SceneBoardJobs == { "Activation", "ByCall", "RequestBackground", "Destruction" }
Joins == { "Connect", "ReconnectShown", "ReconnectHidden" }
ClientJobs == { "Foreground", "Background", "Disconnect" }

Job(do, by, behind) == [ do |-> do, by |-> by, behind |-> behind ]

NewSession == [ state |-> "DISCONNECT", isActive |-> FALSE, isTerminating |-> FALSE,
                callingPid |-> NoOne, token |-> NoOne, stage |-> NoOne ]

Init ==
  /\ session = NewSession
  /\ handler = <<>> /\ startCall = "idle" /\ answered = FALSE /\ launched = NoOne
  /\ overdue = FALSE /\ record = NoOne /\ closing = 0
  /\ phase = [c \in Clients |-> "NONE"]
  /\ toDo = [c \in Clients |-> <<>>]
  /\ calling = [c \in Clients |-> "no"]
  /\ wire = [c \in Clients |-> <<>>]
  /\ passed = [c \in Clients |-> "none"]
  /\ cut = {} /\ requests = 0 /\ crashes = 0 /\ late = {} /\ races = {}
  /\ backgroundSwitch \in BOOLEAN
-----------------------------------------------------------------------------
(* The session's own operations, as functions of the session.              *)
SetActive(s, active) ==
  CASE active /\ ~s.isActive /\ s.state = "FOREGROUND" ->
         [s EXCEPT !.state = "ACTIVE", !.isActive = TRUE]
    [] ~active /\ s.isActive /\ s.state = "ACTIVE" ->
         [s EXCEPT !.state = "INACTIVE", !.isActive = FALSE]
    [] OTHER -> s

(* Mutant: a hidden window is not foregrounded again.                      *)
ForegroundOnce(s) ==
  IF s.state = "CONNECT"
    THEN [ SetActive([s EXCEPT !.state = "FOREGROUND"], TRUE)
             EXCEPT !.isTerminating = FALSE ]
    ELSE s

(* Mutant: SetActive(true) is left to the caller.                          *)
ForegroundInactive(s) ==
  IF s.state \in { "CONNECT", "BACKGROUND", "INACTIVE" }
    THEN [s EXCEPT !.state = "FOREGROUND", !.isTerminating = FALSE] ELSE s

Foreground(s) ==
  IF s.state \in { "CONNECT", "BACKGROUND", "INACTIVE" }
    THEN [ SetActive([s EXCEPT !.state = "FOREGROUND"], TRUE)
             EXCEPT !.isTerminating = FALSE ]
    ELSE s

(* BackgroundTask and Session::Background: an active main window becomes   *)
(* inactive first.                                                         *)
Background(s) ==
  IF s.state \in { "ACTIVE", "INACTIVE" }
    THEN [s EXCEPT !.state = "BACKGROUND",
                   !.isActive = IF s.state = "ACTIVE" THEN FALSE ELSE @]
    ELSE s

(* DisconnectTask: for a client only the state changes.                    *)
DisconnectByClient(s) == [s EXCEPT !.state = "DISCONNECT"]
Disconnect(s) ==
  [s EXCEPT !.state = "DISCONNECT", !.isActive = FALSE, !.isTerminating = FALSE]

CheckIdentityTokenIfMatched(s, c) == s.token \in { NoOne, c }
CheckPidIfMatched(s, c) == s.callingPid = c

(* Mutant: the calls of a former client are not refused.                   *)
MatchesAnyone(s, c) == s.callingPid # NoOne

Matches(s, c) == CheckPidIfMatched(s, c) /\ CheckIdentityTokenIfMatched(s, c)

CanConnect(s, c) ==
  /\ CheckIdentityTokenIfMatched(s, c)
  /\ s.state = "DISCONNECT" \/ s.isTerminating

ConnectInner(s, c) ==
  IF CanConnect(s, c)
    THEN [s EXCEPT !.state = "CONNECT", !.callingPid = c, !.stage = c]
    ELSE s

(* MainSession::Reconnect, whatever the session was.                       *)
Reconnect(s, c, shown) ==
  [s EXCEPT !.state = IF shown THEN "ACTIVE" ELSE "BACKGROUND", !.isActive = shown,
            !.callingPid = c, !.stage = c]

(* A cold start resets the connection, and by RequestSceneSessionActivation *)
(* ResetIsActive as well.                                                  *)
ResetSessionConnectState(s) == [s EXCEPT !.state = "DISCONNECT", !.callingPid = NoOne]
ResetIsActive(s) == [s EXCEPT !.isActive = FALSE]

(* Mutant: ResetIsActive is forgotten.                                     *)
ColdStartActive(s, c, request) == [ResetSessionConnectState(s) EXCEPT !.token = c]

(* Mutant: only the token is set.                                          *)
ColdStartConnected(s, c, request) == [s EXCEPT !.token = c]

ColdStart(s, c, request) ==
  LET r == [ResetSessionConnectState(s) EXCEPT !.token = c]
  IN IF request = "Activation" THEN ResetIsActive(r) ELSE r
-----------------------------------------------------------------------------
(* SceneBoard asks, from the JS main thread.                               *)
Request(job) ==
  /\ requests < MaxRequests
  /\ requests' = requests + 1
  /\ handler' = Append(handler, Job(job, NoOne, FALSE))
  /\ UNCHANGED <<session, startCall, answered, launched, amsVars, clientVars,
                 crashes, backgroundSwitch, historyVars>>

(* The front job of the handler thread.                                    *)
Front(do) ==
  /\ startCall = "idle" /\ handler # <<>> /\ Head(handler).do = do
  /\ handler' = Tail(handler)

AtFront == Head(handler).by

Tell(c, do) == IF c = NoOne THEN toDo ELSE [toDo EXCEPT ![c] = Append(@, do)]

(* RequestSceneSessionActivationInner up to its call of AMS.  With the     *)
(* background switch a connected session may only tell its stage.          *)
RequestSceneSessionActivation ==
  /\ Front("Activation")
  /\ \/ startCall' = "Activation" /\ answered' = FALSE /\ UNCHANGED toDo
     \/ /\ backgroundSwitch /\ session.state # "DISCONNECT"
        /\ toDo' = Tell(session.stage, "Show") /\ UNCHANGED <<startCall, answered>>
  /\ UNCHANGED <<session, launched, amsVars, phase, calling, wire, passed, cut,
                 boundVars, historyVars>>

(* RequestSceneSessionByCall: the ability is called, not shown.            *)
RequestSceneSessionByCall ==
  /\ Front("ByCall")
  /\ startCall' = "ByCall" /\ answered' = FALSE
  /\ UNCHANGED <<session, launched, amsVars, clientVars, boundVars, historyVars>>

(* Every call between its check and its post is late from now on.          *)
Passed(c) == passed[c] # "none" \/ calling[c] = "passed"
NewConnection == late' = { c \in Clients : Passed(c) }

(* AMS hands the start to the client it holds, launches a new one, or      *)
(* refuses.                                                                *)
Start(todo) ==
  \/ /\ record # NoOne
     /\ toDo' = [toDo EXCEPT ![record] = @ \o todo]
     /\ UNCHANGED <<phase, record>>
  \/ /\ record = NoOne
     /\ \E c \in Clients :
          /\ phase[c] = "NONE"
          /\ record' = c
          /\ phase' = [phase EXCEPT ![c] = "LAUNCHED"]
          /\ toDo' = [toDo EXCEPT ![c] = todo]
  \/ UNCHANGED <<phase, toDo, record>>

StartUIAbilityBySCB ==
  /\ startCall # "idle" /\ ~answered
  /\ answered' = TRUE
  /\ Start(IF startCall = "Activation" THEN <<"Show">> ELSE <<>>)
  /\ launched' = IF record' # record THEN record' ELSE NoOne
  /\ UNCHANGED <<session, handler, startCall, overdue, closing, calling, wire,
                 passed, cut, boundVars, historyVars>>

LateStart ==
  /\ overdue /\ overdue' = FALSE
  /\ Start(<<"Show">>)
  /\ UNCHANGED <<serverVars, closing, calling, wire, passed, cut, boundVars, historyVars>>

(* The call returns in time.                                               *)
StartReturns ==
  /\ startCall # "idle" /\ answered
  /\ session' = IF launched = NoOne THEN session
                ELSE ColdStart(session, launched, startCall)
  /\ races' = IF launched # NoOne /\ startCall = "ByCall" /\ session.isActive
                THEN races \cup {"leftover"} ELSE races
  /\ IF launched = NoOne THEN UNCHANGED late ELSE NewConnection
  /\ startCall' = "idle" /\ launched' = NoOne
  /\ UNCHANGED <<handler, answered, amsVars, clientVars, boundVars>>

(* StartUIAbilityBySCBTimeoutCheck gives up, and with it on whether the    *)
(* start was a cold one.  One overdue start at a time.                     *)
StartTimesOut ==
  /\ startCall = "Activation" /\ ~overdue
  /\ startCall' = "idle" /\ launched' = NoOne
  /\ overdue' = ~answered
  /\ UNCHANGED <<session, handler, answered, record, closing, clientVars, boundVars,
                 historyVars>>

(* SetActive(false), BackgroundTask in its place, then the client.         *)
RequestSceneSessionBackground ==
  /\ Front("RequestBackground")
  /\ session' = Background(SetActive(session, FALSE))
  /\ toDo' = Tell(IF backgroundSwitch THEN session.stage ELSE record, "Hide")
  /\ UNCHANGED <<startCall, answered, launched, amsVars, phase, calling, wire, passed,
                 cut, boundVars, historyVars>>

(* DisconnectTask in its place; the ability is cleaned at once or closed   *)
(* on the ffrt queue.                                                      *)
RequestSceneSessionDestruction ==
  /\ Front("Destruction")
  /\ session' = Disconnect(session)
  /\ \/ closing' = closing + 1 /\ UNCHANGED <<toDo, record>>
     \/ toDo' = Tell(record, "Destroy") /\ record' = NoOne /\ UNCHANGED closing
  /\ UNCHANGED <<startCall, answered, launched, overdue, phase, calling, wire, passed,
                 cut, boundVars, historyVars>>

(* Mutant: nothing was submitted.                                          *)
CloseAgain ==
  /\ closing' = closing - 1
  /\ toDo' = Tell(record, "Destroy") /\ record' = NoOne
  /\ UNCHANGED <<serverVars, overdue, phase, calling, wire, passed, cut, boundVars,
                 historyVars>>

CloseUIAbilityBySCB ==
  /\ closing > 0
  /\ closing' = closing - 1
  /\ toDo' = Tell(record, "Destroy") /\ record' = NoOne
  /\ UNCHANGED <<serverVars, overdue, phase, calling, wire, passed, cut, boundVars,
                 historyVars>>

(* The body of a STOP task of the life cycle queue.                        *)
SetTerminating ==
  /\ startCall = "idle" /\ ~session.isTerminating
  /\ session' = [session EXCEPT !.isTerminating = TRUE]
  /\ UNCHANGED <<handler, startCall, answered, launched, amsVars, clientVars,
                 boundVars, historyVars>>
-----------------------------------------------------------------------------
(* The client's main thread.  Create: Connect is posted and waited for;    *)
(* the host may have died since the launch.                                *)
Create(c) ==
  /\ phase[c] = "LAUNCHED"
  /\ IF c \in cut
       THEN phase' = [phase EXCEPT ![c] = "FAILED"] /\ UNCHANGED handler
       ELSE /\ phase' = [phase EXCEPT ![c] = "CONNECTING"]
            /\ handler' = Append(handler, Job("Connect", c, FALSE))
  /\ UNCHANGED <<session, startCall, answered, launched, amsVars, toDo, calling,
                 wire, passed, cut, boundVars, historyVars>>

HasWindow(c) == phase[c] \in { "CREATED", "SHOWN", "HIDDEN" }

(* The next job of c's main thread, which waits while it calls Foreground. *)
MainThread(c, do) ==
  /\ toDo[c] # <<>> /\ Head(toDo[c]) = do /\ calling[c] = "no"
  /\ phase[c] \notin { "LAUNCHED", "CONNECTING" }
  /\ toDo' = [toDo EXCEPT ![c] = Tail(@)]
  /\ UNCHANGED <<serverVars, amsVars, passed, cut, boundVars, historyVars>>

Show(c) ==
  /\ MainThread(c, "Show")
  /\ calling' = IF phase[c] \in { "CREATED", "HIDDEN" } /\ c \notin cut
                  THEN [calling EXCEPT ![c] = "asked"] ELSE calling
  /\ UNCHANGED <<phase, wire>>

(* A one-way call to a dead host fails and the window stays as it is.      *)
Hide(c) ==
  /\ MainThread(c, "Hide")
  /\ IF phase[c] = "SHOWN" /\ c \notin cut
       THEN /\ phase' = [phase EXCEPT ![c] = "HIDDEN"]
            /\ wire' = [wire EXCEPT ![c] = Append(@, "Background")]
       ELSE UNCHANGED <<phase, wire>>
  /\ UNCHANGED calling

Destroy(c) ==
  /\ MainThread(c, "Destroy")
  /\ IF HasWindow(c)
       THEN /\ phase' = [phase EXCEPT ![c] = "DESTROYED"]
            /\ wire' = IF c \in cut THEN wire
                       ELSE [wire EXCEPT ![c] = Append(@, "Disconnect")]
       ELSE UNCHANGED <<phase, wire>>
  /\ UNCHANGED calling

(* The client's process dies: what it has sent is still delivered.         *)
Die(c) ==
  /\ phase[c] \notin { "NONE", "DEAD" }
  /\ phase' = [phase EXCEPT ![c] = "DEAD"]
  /\ toDo' = [toDo EXCEPT ![c] = <<>>]
  /\ record' = IF record = c THEN NoOne ELSE record
  /\ UNCHANGED <<serverVars, overdue, closing, calling, wire, passed, cut, boundVars,
                 historyVars>>
-----------------------------------------------------------------------------
(* The IPC threads.  SceneSession::Foreground: an error below the screen   *)
(* lock, WS_OK without any effect if the caller is not the session's.      *)
CheckForeground(c) ==
  /\ calling[c] = "asked"
  /\ \/ calling' = [calling EXCEPT ![c] = "no"] /\ UNCHANGED phase
     \/ /\ ~Matches(session, c)
        /\ calling' = [calling EXCEPT ![c] = "no"]
        /\ phase' = [phase EXCEPT ![c] = IF @ = "DEAD" THEN @ ELSE "SHOWN"]
     \/ /\ Matches(session, c)
        /\ calling' = [calling EXCEPT ![c] = "passed"]
        /\ UNCHANGED phase
  /\ UNCHANGED <<serverVars, amsVars, toDo, wire, passed, cut, boundVars, historyVars>>

(* The connection is another one already, or is about to be, when c's job  *)
(* is posted.                                                              *)
Behind(c) ==
  \/ c \in late
  \/ \E j \in Range(handler) : j.do \in Joins /\ j.by # c

PostForeground(c) ==
  /\ calling[c] = "passed"
  /\ calling' = [calling EXCEPT ![c] = "no"]
  /\ phase' = [phase EXCEPT ![c] = IF @ = "DEAD" THEN @ ELSE "SHOWN"]
  /\ handler' = Append(handler, Job("Foreground", c, Behind(c)))
  /\ late' = IF passed[c] = "none" THEN late \ {c} ELSE late
  /\ races' = IF wire[c] # <<>> \/ passed[c] # "none"
                THEN races \cup {"overtaken"} ELSE races
  /\ UNCHANGED <<session, startCall, answered, launched, amsVars, toDo, wire, passed,
                 cut, boundVars>>

(* SceneSession::Background and Disconnect.                                *)
CheckOneWay(c) ==
  /\ wire[c] # <<>> /\ passed[c] = "none"
  /\ wire' = [wire EXCEPT ![c] = Tail(@)]
  /\ passed' = IF Matches(session, c)
                 THEN [passed EXCEPT ![c] = Head(wire[c])] ELSE passed
  /\ UNCHANGED <<serverVars, amsVars, phase, toDo, calling, cut, boundVars, historyVars>>

PostOneWay(c) ==
  /\ passed[c] # "none"
  /\ passed' = [passed EXCEPT ![c] = "none"]
  /\ handler' = Append(handler, Job(passed[c], c, Behind(c)))
  /\ late' = IF calling[c] = "passed" THEN late ELSE late \ {c}
  /\ UNCHANGED <<session, startCall, answered, launched, amsVars, phase, toDo, calling,
                 wire, cut, boundVars, races>>

(* The posted jobs no longer know who asked.                               *)
ForegroundTask == session' = Foreground(session) /\ Front("Foreground")
BackgroundTask == session' = Background(session) /\ Front("Background")
DisconnectTask == session' = DisconnectByClient(session) /\ Front("Disconnect")

Foreign(c) == session.callingPid \notin { c, NoOne }

ClientTask ==
  /\ ForegroundTask \/ BackgroundTask \/ DisconnectTask
  /\ races' = IF Foreign(AtFront) THEN races \cup {"crossed"} ELSE races
  /\ UNCHANGED <<startCall, answered, launched, amsVars, clientVars, boundVars, late>>

(* A token that does not match ends without an error, as SceneBoard sees   *)
(* it; the client fails all the same, for want of a surface node.          *)
ConnectTask ==
  /\ Front("Connect")
  /\ session' = ConnectInner(session, AtFront)
  /\ phase' = [phase EXCEPT ![AtFront] =
                 IF @ # "CONNECTING" THEN @
                 ELSE IF CanConnect(session, AtFront) THEN "CREATED" ELSE "FAILED"]
  /\ IF CanConnect(session, AtFront) THEN NewConnection ELSE UNCHANGED late
  /\ races' = IF CanConnect(session, AtFront) /\ session.isActive /\ session.token = NoOne
                THEN races \cup {"leftover"} ELSE races
  /\ UNCHANGED <<startCall, answered, launched, amsVars, toDo, calling, wire, passed,
                 cut, boundVars>>
-----------------------------------------------------------------------------
(* SceneBoard's process dies with all it has been asked, and comes back    *)
(* with a new session.  AMS and the clients stay.                          *)
Crash ==
  /\ crashes < MaxCrashes
  /\ crashes' = crashes + 1
  /\ session' = NewSession /\ handler' = <<>>
  /\ startCall' = "idle" /\ answered' = FALSE /\ launched' = NoOne
  /\ overdue' \in { FALSE, overdue \/ (startCall # "idle" /\ ~answered) }
  /\ closing' = 0
  /\ wire' = [c \in Clients |-> <<>>]
  /\ passed' = [c \in Clients |-> "none"]
  /\ calling' = [c \in Clients |-> "no"]
  /\ phase' = [c \in Clients |-> IF phase[c] = "CONNECTING" THEN "FAILED" ELSE phase[c]]
  /\ cut' = { c \in Clients : phase[c] # "NONE" }
  /\ late' = {}
  /\ UNCHANGED <<toDo, record, requests, backgroundSwitch, races>>

(* RecoverAndReconnectSceneSession: the window's state is read, then the   *)
(* reconnection is posted and waited for.                                  *)
RecoverAndReconnectSceneSession(c) ==
  /\ c \in cut /\ HasWindow(c) /\ calling[c] = "no"
  /\ \A j \in Range(handler) : j.by # c
  /\ handler' = Append(handler, Job(IF phase[c] = "SHOWN" THEN "ReconnectShown"
                                    ELSE "ReconnectHidden", c, FALSE))
  /\ UNCHANGED <<session, startCall, answered, launched, amsVars, clientVars,
                 boundVars, historyVars>>

ReconnectTask ==
  /\ \/ Front("ReconnectShown") /\ session' = Reconnect(session, AtFront, TRUE)
     \/ Front("ReconnectHidden") /\ session' = Reconnect(session, AtFront, FALSE)
  /\ cut' = cut \ {AtFront}
  /\ NewConnection
  /\ races' = IF \/ Foreign(AtFront) \/ ~HasWindow(AtFront)
                  \/ ~CheckIdentityTokenIfMatched(session, AtFront)
                THEN races \cup {"lateRecovery"} ELSE races
  /\ UNCHANGED <<startCall, answered, launched, amsVars, phase, toDo, calling, wire,
                 passed, boundVars>>

HandlerStep ==
  \/ RequestSceneSessionActivation \/ RequestSceneSessionByCall
  \/ RequestSceneSessionBackground \/ RequestSceneSessionDestruction
  \/ StartReturns \/ ClientTask \/ ConnectTask \/ ReconnectTask

ClientStep(c) == Create(c) \/ Show(c) \/ Hide(c) \/ Destroy(c)

Environment ==
  \/ \E job \in SceneBoardJobs : Request(job)
  \/ LateStart \/ StartTimesOut \/ SetTerminating \/ Crash
  \/ \E c \in Clients : Die(c) \/ RecoverAndReconnectSceneSession(c)

Next ==
  \/ HandlerStep \/ StartUIAbilityBySCB \/ CloseUIAbilityBySCB
  \/ \E c \in Clients : ClientStep(c)
  \/ \E c \in Clients : CheckForeground(c) \/ PostForeground(c)
  \/ \E c \in Clients : CheckOneWay(c) \/ PostOneWay(c)
  \/ Environment

Spec == Init /\ [][Next]_vars

(* Threads run on, one-way calls arrive and AMS answers.  Nobody has to    *)
(* ask, to time out, to terminate, to die or to crash.                     *)
FairSpec ==
  /\ Spec
  /\ WF_vars(HandlerStep) /\ WF_vars(StartUIAbilityBySCB) /\ WF_vars(CloseUIAbilityBySCB)
  /\ \A c \in Clients :
       /\ WF_vars(ClientStep(c))
       /\ WF_vars(CheckForeground(c)) /\ WF_vars(PostForeground(c))
       /\ WF_vars(CheckOneWay(c)) /\ WF_vars(PostOneWay(c))
-----------------------------------------------------------------------------
States == { "DISCONNECT", "CONNECT", "FOREGROUND", "ACTIVE", "INACTIVE", "BACKGROUND" }
Phases == { "NONE", "LAUNCHED", "CONNECTING", "CREATED", "SHOWN", "HIDDEN",
            "DESTROYED", "FAILED", "DEAD" }
Races == { "leftover", "overtaken", "crossed", "lateRecovery" }
AnyOne == Clients \cup {NoOne}

(* Every variable holds what its C++ member, or the queue it stands for,   *)
(* can hold.                                                               *)
TypeOK ==
  /\ session \in [ state : States, isActive : BOOLEAN, isTerminating : BOOLEAN,
                   callingPid : AnyOne, token : AnyOne, stage : AnyOne ]
  /\ handler \in Seq([ do : SceneBoardJobs, by : {NoOne}, behind : {FALSE} ]
                     \cup [ do : Joins, by : Clients, behind : {FALSE} ]
                     \cup [ do : ClientJobs, by : Clients, behind : BOOLEAN ])
  /\ startCall \in { "idle", "Activation", "ByCall" }
  /\ answered \in BOOLEAN /\ overdue \in BOOLEAN
  /\ launched \in AnyOne /\ record \in AnyOne
  /\ closing \in Nat
  /\ phase \in [Clients -> Phases]
  /\ toDo \in [Clients -> Seq({ "Show", "Hide", "Destroy" })]
  /\ calling \in [Clients -> { "no", "asked", "passed" }]
  /\ wire \in [Clients -> Seq({ "Background", "Disconnect" })]
  /\ passed \in [Clients -> { "none", "Background", "Disconnect" }]
  /\ cut \subseteq Clients
  /\ requests \in 0 .. MaxRequests /\ crashes \in 0 .. MaxCrashes
  /\ backgroundSwitch \in BOOLEAN
  /\ late \subseteq Clients /\ races \subseteq Races

(* isActive_ says whether the session is active, from connection to        *)
(* connection and through every reset: Foreground only activates a session *)
(* whose flag is down and Background only leaves ACTIVE.  A client's own   *)
(* Disconnect leaves the flag up, and so may the two known leftovers.      *)
ActiveFlagAgrees ==
  /\ session.state = "ACTIVE" => session.isActive
  /\ session.isActive =>
       \/ session.state \in { "ACTIVE", "DISCONNECT" }
       \/ "leftover" \in races \/ "lateRecovery" \in races

(* What a client asked for is done to its own connection: jobs carry no    *)
(* name, but the order of the handler's queue runs a former client's jobs  *)
(* before the next one connects.  Except jobs that were posted, after a    *)
(* check they had passed, behind a connection or its reset.                *)
OrderProtects ==
  handler # <<>> /\ Head(handler).do \in ClientJobs /\ ~Head(handler).behind =>
    session.callingPid \in { Head(handler).by, NoOne }

(* The client whose cold start SceneBoard knows of is never refused:       *)
(* nothing connects or revives the session between the reset and its       *)
(* Connect, which may have been posted before the reset.                   *)
ExpectedConnects ==
  "lateRecovery" \notin races =>
    \A c \in Clients : phase[c] = "FAILED" => session.token # c

(* Once every queue is empty the window is shown where the session is      *)
(* active and nowhere else, unless one of the races has been run.          *)
Quiet ==
  /\ handler = <<>> /\ startCall = "idle" /\ ~overdue /\ closing = 0
  /\ \A c \in Clients : /\ calling[c] = "no" /\ wire[c] = <<>> /\ passed[c] = "none"
                        /\ HasWindow(c) => toDo[c] = <<>>

QuietAgreement ==
  Quiet /\ races = {} =>
    \A c \in Clients : phase[c] # "DEAD" /\ session.callingPid = c =>
      (phase[c] = "SHOWN" <=> session.state = "ACTIVE")

(* A window shown by the connected client gets an active session, or it is *)
(* hidden, destroyed or replaced again.                                    *)
ShownBecomesActive ==
  \A c \in Clients :
    phase[c] = "SHOWN" /\ session.callingPid = c ~>
      \/ session.state = "ACTIVE" \/ phase[c] # "SHOWN"
      \/ session.callingPid # c \/ races # {}
=============================================================================
