------------------------------ MODULE WindowFocus ------------------------------
(***************************************************************************)
(* Which window of a display group holds the focus, and which window's     *)
(* client has been told that it does.  SceneSessionManager decides the     *)
(* first, keeps it in the FocusGroup, and holds the second back while the  *)
(* next window is not in the foreground yet.                               *)
(*                                                                         *)
(* Every handler is a task of one thread, so a handler is one step; only   *)
(* the loop of PostProcessFocus is a step for each session.  The device is *)
(* a phone or pad with the SCB core enabled and one display group; windows *)
(* are focusable, focused on show, not hidden by force and not topmost;    *)
(* the system windows are the scene board's own, which have no client.     *)
(***************************************************************************)
EXTENDS Naturals, Sequences, FiniteSets, Functions

CONSTANTS
  Mains,        \* main windows of applications
  Dialogs,      \* their dialogs
  Systems,      \* system windows of the scene board
  DialogOf,     \* the dialog bound to a main window, or None
  Desktops,     \* system windows of type DESKTOP
  LowerSystems, \* desktop, negative screen and global search
  PopMenus,     \* system windows of type SYSTEM_FLOAT
  AboveApps,    \* drop-down panel, gesture dock, alarms
  Blockers,     \* system windows whose blockingFocus is set
  Keyguards,    \* those of them of type KEYGUARD
  Covering,     \* windows that cover the screen and block a click
  Floating,     \* main windows in floating mode
  FreeMultiModes, \* what the free multi-window mode may be
  ZOrders,      \* z-orders the scene board may flush
  ScbReasons,   \* reasons of its requests
  MayPause,     \* main windows the scene board may pause
  MayDisconnect,\* sessions that may disconnect
  None

Apps == Mains \cup Dialogs
Sessions == Apps \cup Systems

ASSUME WindowsAssumption ==
  /\ Mains \cap Dialogs = {} /\ Apps \cap Systems = {} /\ None \notin Sessions
  /\ IsFiniteSet(Sessions)
  /\ DialogOf \in [Mains -> Dialogs \cup {None}]
  /\ \A d \in Dialogs : \E m \in Mains : DialogOf[m] = d
  /\ \A m, n \in Mains : DialogOf[m] = DialogOf[n] => m = n \/ DialogOf[m] = None

ASSUME KindsAssumption ==
  /\ Desktops \subseteq LowerSystems /\ Keyguards \subseteq Blockers
  /\ LowerSystems \cup PopMenus \cup AboveApps \cup Blockers \subseteq Systems
  /\ Covering \subseteq Mains \cup Blockers /\ Floating \subseteq Mains
  /\ MayDisconnect \subseteq Apps /\ MayPause \subseteq Mains
  /\ FreeMultiModes \subseteq BOOLEAN /\ FreeMultiModes # {}

ASSUME RequestsAssumption ==
  /\ ZOrders \subseteq [Sessions -> Nat] /\ ZOrders # {}
  /\ \A z \in ZOrders : \A s, t \in Sessions : z[s] = z[t] => s = t
  /\ ScbReasons \subseteq { "FOREGROUND", "FORCE_FOCUSED", "MOVE_UP", "RECENT", "DEFAULT" }

VARIABLES
  win,      \* state_, isVisible_, zOrder_ of the sessions; the device's mode
  focus,    \* the FocusGroup, isFocused_ of every session, and what clients know
  post,     \* postProcessFocusState_ of every session
  starting, \* sessions whose isStarting_ is set
  property, \* main windows with a dialog whose postProcessProperty_ is set
  loop      \* the locals of a running PostProcessFocus

vars == <<win, focus, post, starting, property, loop>>

(* STATE_FOREGROUND and STATE_ACTIVE are one here.  A main window whose    *)
(* client has disconnected is CLOSED, STATE_DISCONNECT in the code, until  *)
(* the scene board destroys the session.  A dialog exists only between     *)
(* Connect and its destruction: DISCONNECT is a dialog that is not there.  *)
State == { "DISCONNECT", "CONNECT", "FOREGROUND", "INACTIVE", "BACKGROUND", "CLOSED" }

Reason == { "CLIENT_REQUEST", "CLICK", "MOVE_UP", "FORCE_FOCUSED", "FOREGROUND",
            "APP_FOREGROUND", "SCB_START_APP", "RECENT", "BACKGROUND", "DEFAULT" }

Group == [ focused : Sessions \cup {None},   \* focusedSessionId_
           last : Sessions \cup {None},      \* lastFocusedSessionId_
           lastApp : Sessions \cup {None},   \* lastFocusedAppSessionId_
           blockFocus : BOOLEAN,   \* needBlockNotifyFocusStatusUntilForeground_
           blockUnfocus : BOOLEAN, \* needBlockNotifyUnfocusStatus_
           isFocused : SUBSET Sessions,
           told : SUBSET Apps ]    \* clients whose last answer was "focused"

PostState == [ enabled : BOOLEAN, isFocused : BOOLEAN, byForeground : BOOLEAN,
               reason : Reason ]

(* queue: sessions still to be processed; changed: focusChangedSet holds   *)
(* the group; base, for the properties only: who was focused at its start. *)
Loop == [ queue : Seq(Sessions), changed : BOOLEAN, base : Sessions \cup {None} ]

NoPost == [ enabled |-> FALSE, isFocused |-> FALSE, byForeground |-> TRUE,
            reason |-> "DEFAULT" ]
NoLoop == [ queue |-> <<>>, changed |-> FALSE, base |-> None ]

Init ==
  /\ win \in { [ state |-> [s \in Apps |-> "DISCONNECT"], visible |-> {}, z |-> z,
                 freeMulti |-> m ] : z \in ZOrders, m \in FreeMultiModes }
  /\ focus = [ focused |-> None, last |-> None, lastApp |-> None,
               blockFocus |-> FALSE, blockUnfocus |-> FALSE,
               isFocused |-> {}, told |-> {} ]
  /\ post = [s \in Sessions |-> NoPost]
  /\ starting = {}
  /\ property = {}
  /\ loop = NoLoop

-----------------------------------------------------------------------------
(* What the rules ask of a session in the windows w.                       *)

OwnerOf(d) == CHOOSE m \in Mains : DialogOf[m] = d
MainOf(s) == IF s \in Dialogs THEN OwnerOf(s) ELSE s
WithDialog == { m \in Mains : DialogOf[m] # None }

Exists(w, s) == s \in Dialogs => w.state[s] # "DISCONNECT"

HasDialog(w, m) == m \in Mains /\ DialogOf[m] # None /\ Exists(w, DialogOf[m])

LifecycleForeground(w, s) == s \in Apps /\ w.state[s] = "FOREGROUND"

(* A dialog shares the visibility of its main window.                      *)
VisibleForeground(w, s) ==
  { s, MainOf(s) } \subseteq { t \in w.visible : t \in Systems \/ w.state[t] = "FOREGROUND" }

VisibleNotBackground(w, s) ==
  { s, MainOf(s) } \subseteq { t \in w.visible :
    t \in Systems \/ w.state[t] \notin { "INACTIVE", "BACKGROUND" } }

ParentVisible(w, s) == s \in Dialogs => VisibleForeground(w, MainOf(s))

(* Only a connected client of an application is told about its focus.      *)
IsSessionValid(w, s) == s \in Apps /\ w.state[s] \notin { "DISCONNECT", "CLOSED" }

Above(w, s, t) == w.z[s] > w.z[t]

Highest(w, S) == CHOOSE s \in S : \A t \in S \ {s} : Above(w, s, t)

CheckBlockingFocus(w, s) ==
  s \in Blockers \/ (s \in Apps /\ (w.freeMulti \/ s \notin Floating))

(* A window between s and the focused one shields the focus from s.        *)
CheckFocusIsDownThroughBlockingType(w, s, focused) ==
  \E b \in Sessions :
    /\ Above(w, b, s) /\ ~Above(w, b, focused)
    /\ VisibleForeground(w, b) /\ CheckBlockingFocus(w, b)

ShouldCheckBlocking(s, focused, byForeground, reason) ==
  /\ byForeground
  /\ ~ ( /\ reason = "CLIENT_REQUEST" /\ { s, focused } \subseteq Apps
         /\ MainOf(s) = MainOf(focused) )
  /\ reason # "FORCE_FOCUSED"

(* Mutant: a forced request passes the keyguard, too.                      *)
FocusRulesForcePastKeyguard(w, f, s, byForeground, reason) ==
  f.focused # None =>
    /\ ~ ( /\ ShouldCheckBlocking(s, f.focused, byForeground, reason)
           /\ CheckFocusIsDownThroughBlockingType(w, s, f.focused) )
    /\ ~ ( /\ f.focused \in Keyguards /\ Above(w, f.focused, s)
           /\ reason # "FORCE_FOCUSED" )
    /\ ~ ( reason = "CLICK" /\ f.focused \in Covering /\ Above(w, f.focused, s) )

(* RequestFocusSpecificCheck after the dialogs have been looked after.     *)
FocusRulesAdmit(w, f, s, byForeground, reason) ==
  f.focused # None =>
    /\ ~ ( /\ ShouldCheckBlocking(s, f.focused, byForeground, reason)
           /\ CheckFocusIsDownThroughBlockingType(w, s, f.focused) )
    /\ ~ ( f.focused \in Keyguards /\ Above(w, f.focused, s) )
    /\ ~ ( reason = "CLICK" /\ f.focused \in Covering /\ Above(w, f.focused, s) )

-----------------------------------------------------------------------------
(* Operations on the focus f.  Those that the code asks for a result       *)
(* return [f |-> the focus after, ok |-> WS_OK].                           *)

Done(f) == [ f |-> f, ok |-> TRUE ]
Refused(f) == [ f |-> f, ok |-> FALSE ]

(* Mutant: a session whose client was not told keeps the focus, too.       *)
UnfocusedWithClient(w, f, s) ==
  IF f.blockUnfocus THEN f
  ELSE [f EXCEPT !.isFocused = @ \ {s},
                 !.told = IF IsSessionValid(w, s) THEN @ \ {s} ELSE @]

(* UpdateFocusStatus(session, false): the session learns it at once, its   *)
(* client unless it was never told that it had the focus.                  *)
Unfocused(w, f, s) ==
  [f EXCEPT !.isFocused = @ \ {s},
            !.told = IF ~f.blockUnfocus /\ IsSessionValid(w, s) THEN @ \ {s} ELSE @]

(* Mutant: nobody is focused as if it were a session.                      *)
FocusedUnchecked(w, f, s) ==
  [f EXCEPT !.focused = s,
            !.last = IF s = f.focused THEN @ ELSE f.focused,
            !.lastApp = IF s \in Apps \cup LowerSystems \cup {None} THEN s ELSE @,
            !.isFocused = @ \cup {s},
            !.told = IF ~f.blockFocus /\ IsSessionValid(w, s) THEN @ \cup {s} ELSE @]

(* UpdateFocusStatus(session, true).                                       *)
Focused(w, f, s) ==
  [f EXCEPT !.focused = s,
            !.last = IF s = f.focused THEN @ ELSE f.focused,
            !.lastApp = IF s \in Apps \cup LowerSystems \cup {None} THEN s ELSE @,
            !.isFocused = @ \cup ({s} \ {None}),
            !.told = IF ~f.blockFocus /\ IsSessionValid(w, s) THEN @ \cup {s} ELSE @]

ShiftFocus(w, f, next) == Focused(w, Unfocused(w, f, f.focused), next)

(* Mutant: the block ends while the window cannot be seen yet.             *)
ReleaseBlockUnseen(w, f, s) ==
  IF s = f.focused /\ f.blockFocus
    THEN [f EXCEPT !.blockFocus = FALSE, !.blockUnfocus = FALSE,
                   !.told = IF VisibleForeground(w, s) THEN @ \cup {s} ELSE @]
    ELSE f

(* The client of the session that has the focus but waited for the         *)
(* foreground is told.                                                     *)
ReleaseBlock(w, f, s) ==
  IF s = f.focused /\ f.blockFocus
    THEN [f EXCEPT !.blockFocus = FALSE, !.blockUnfocus = FALSE,
                   !.told = IF IsSessionValid(w, s) THEN @ \cup {s} ELSE @]
    ELSE f

(* Mutant: the block of the next window is taken for the last one's.       *)
ShiftFocusBlockFirst(w, f, s, blockNotifyUntilVisible) ==
  LET waits == s \in Apps /\ ~VisibleForeground(w, s)
  IN  ShiftFocus(w, [f EXCEPT !.blockUnfocus = waits \/ f.blockFocus,
                              !.blockFocus = waits \/ @], s)

(* The last part of RequestSessionFocusImmediately.                        *)
ShiftFocusImmediately(w, f, s, blockNotifyUntilVisible) ==
  LET waits == /\ s \in Apps
               /\ IF ~blockNotifyUntilVisible /\ w.freeMulti
                    THEN ~LifecycleForeground(w, s)
                    ELSE ~VisibleForeground(w, s)
  IN  ShiftFocus(w, [f EXCEPT !.blockUnfocus = f.blockFocus,
                              !.blockFocus = waits \/ @], s)

DialogFocusImmediately(w, f, d) ==
  IF d # f.focused /\ FocusRulesAdmit(w, f, d, TRUE, "SCB_START_APP")
    THEN Done(ShiftFocusImmediately(w, f, d, FALSE))
    ELSE Refused(f)

(* CheckRequestFocusImmediately: a main window's dialog takes its place.   *)
ProcessDialogRequestFocusImmediately(w, f, s) ==
  IF ~HasDialog(w, s) THEN Refused(f)
  ELSE IF DialogOf[s] = f.focused THEN Done(f)
  ELSE DialogFocusImmediately(w, f, DialogOf[s])

RequestSessionFocusImmediately(w, f, s, blockNotifyUntilVisible, reason) ==
  IF s = f.focused THEN Refused(f)
  ELSE LET dialog == ProcessDialogRequestFocusImmediately(w, f, s)
       IN  IF dialog.ok \/ ~FocusRulesAdmit(w, f, s, TRUE, reason)
             THEN Refused(dialog.f)
             ELSE Done(ShiftFocusImmediately(w, f, s, blockNotifyUntilVisible))

(* Whether the one that loses the focus was told is what the group says of *)
(* telling the focused one; the next is told at once if nothing else is.   *)
CarryBlock(f) == [f EXCEPT !.blockUnfocus = f.blockFocus, !.blockFocus = FALSE]

RequestSessionFocus(w, f, s, byForeground, reason) ==
  IF s \in { f.focused, None } \/ ~VisibleForeground(w, s) THEN Refused(f)
  ELSE LET dialog == ProcessDialogRequestFocusImmediately(w, f, s)
       IN  IF dialog.ok \/ ~FocusRulesAdmit(w, f, s, byForeground, reason)
             THEN Refused(dialog.f)
             ELSE Done(ShiftFocus(w, CarryBlock(f), s))

(* The highest window below s that can take the focus; a floating window   *)
(* goes before the desktop when a full-screen window gives the focus up.   *)
GetNextFocusableSession(w, s) ==
  LET below == { t \in Sessions : /\ Above(w, s, t) /\ VisibleNotBackground(w, t)
                                  /\ ParentVisible(w, t) }
      floats == IF ~w.freeMulti /\ s \in Mains \ Floating
                  THEN Floating \cap w.visible ELSE {}
      next == IF below = {} THEN None ELSE Highest(w, below)
  IN  IF next \in Desktops /\ floats # {} THEN Highest(w, floats) ELSE next

(* When a system window above the applications gives the focus up, the     *)
(* application that had it last is asked first.                            *)
CheckLastFocusedAppSessionFocus(w, f, focused, next) ==
  IF /\ focused \in Dialogs \cup AboveApps
     /\ f.lastApp \notin { None, next } /\ next \in Floating
    THEN LET r == RequestSessionFocus(w, f, f.lastApp, FALSE, "DEFAULT")
         IN  IF r.ok THEN r ELSE Refused([r.f EXCEPT !.lastApp = None])
    ELSE Refused(f)

(* Mutant: the next window is told before it is in the foreground.         *)
GiveFocusUpUnblocked(w, f, focused, s) ==
  LET next == GetNextFocusableSession(w, s)
      r == CheckLastFocusedAppSessionFocus(w, CarryBlock(f), focused, next)
  IN  IF r.ok THEN r.f ELSE ShiftFocus(w, r.f, next)

(* The session that had the focus when the request came gives it up.       *)
GiveFocusUp(w, f, focused, s) ==
  LET next == GetNextFocusableSession(w, s)
      r == CheckLastFocusedAppSessionFocus(w, CarryBlock(f), focused, next)
  IN  IF r.ok THEN r.f
      ELSE ShiftFocus(w, [r.f EXCEPT !.blockFocus =
             @ \/ (next \in Apps /\ ~LifecycleForeground(w, next))], next)

RequestSessionUnfocus(w, f, s) ==
  LET focused == f.focused
      back == IF focused \in PopMenus /\ f.last \in Desktops
                   THEN RequestSessionFocus(w, f, f.last, FALSE, "DEFAULT")
                   ELSE Refused(f)
  IN  IF focused = None \/ s \notin { focused, MainOf(focused) } THEN Refused(f)
      ELSE IF back.ok THEN back
      ELSE Done(GiveFocusUp(w, back.f, focused, s))

(* The highest system window below every application.                      *)
GetTopFocusableNonAppSession(w) ==
  LET reached == { t \in Systems : \A a \in Apps : Above(w, t, a) => w.z[a] = 0 }
      seen == { t \in reached : VisibleForeground(w, t) }
  IN  IF seen = {} THEN None ELSE Highest(w, seen)

(* ProcessSubSessionForeground: a dialog that waited for its main window.  *)
SubSessionForeground(w, f, m) ==
  IF HasDialog(w, m) /\ LifecycleForeground(w, DialogOf[m])
    THEN ReleaseBlock(w, f, DialogOf[m])
    ELSE f

(* PostProcessProperty: those that came to the foreground unseen.  Of their *)
(* dialogs only one that has the focus can be waiting.                     *)
PostProcessProperty(w, f) ==
  IF f.focused \in Dialogs /\ MainOf(f.focused) \in property
    THEN SubSessionForeground(w, f, MainOf(f.focused))
    ELSE f

-----------------------------------------------------------------------------
(* The tasks of the thread.  None of them runs inside PostProcessFocus.    *)

Idle == loop.queue = <<>>

SetFocus(f) ==
  /\ Idle
  /\ focus' = f
  /\ UNCHANGED <<win, post, starting, property, loop>>

(* A client asks for the focus, a window is clicked, or raised to the top. *)
RequestFocusStatus(s) ==
  \E r \in { <<FALSE, "CLIENT_REQUEST">>, <<FALSE, "CLICK">>, <<TRUE, "MOVE_UP">> } :
    /\ r[2] = "CLICK" => s \notin focus.isFocused
    /\ SetFocus(RequestSessionFocus(win, focus, s, r[1], r[2]).f)

(* The request of a client or of the scene board.                          *)
RequestUnfocusStatus(s) == SetFocus(RequestSessionUnfocus(win, focus, s).f)

Park(s, byForeground, reason) ==
  IF s \in focus'.isFocused THEN UNCHANGED post
  ELSE post' = [post EXCEPT ![s] = [ enabled |-> TRUE, isFocused |-> TRUE,
                   byForeground |-> byForeground, reason |-> reason ]]

(* The scene board asks; what it cannot have now is left for the flush.    *)
RequestFocusStatusBySCB(s, byForeground, reason) ==
  /\ Idle
  /\ CASE reason \in { "FOREGROUND", "FORCE_FOCUSED" } ->
            /\ focus' = RequestSessionFocusImmediately(win, focus, s, TRUE,
                 IF reason = "FOREGROUND" THEN "SCB_START_APP" ELSE reason).f
            /\ UNCHANGED post
       [] reason = "MOVE_UP" ->
            /\ UNCHANGED focus
            /\ Park(s, byForeground, reason)
       [] OTHER ->
            LET r == RequestSessionFocus(win, focus, s, byForeground, reason)
            IN  /\ focus' = r.f
                /\ IF r.ok THEN UNCHANGED post ELSE Park(s, byForeground, reason)
  /\ UNCHANGED <<win, starting, property, loop>>

RequestAllAppSessionUnfocus ==
  /\ focus.focused \in Apps
  /\ SetFocus(ShiftFocus(win, CarryBlock(focus), GetTopFocusableNonAppSession(win)))

(* An application is started; its window takes the focus when it shows.    *)
RequestSceneSessionActivation(m) ==
  /\ Idle
  /\ starting' = starting \cup {m}
  /\ IF VisibleForeground(win, m)
       THEN /\ focus' = RequestSessionFocusImmediately(win, focus, m, TRUE, "SCB_START_APP").f
            /\ UNCHANGED post
       ELSE /\ post' = [post EXCEPT ![m] = [ enabled |-> TRUE, isFocused |-> TRUE,
                          byForeground |-> TRUE, reason |-> "SCB_START_APP" ]]
            /\ UNCHANGED focus
  /\ UNCHANGED <<win, property, loop>>

SetState(s, state) ==
  /\ Idle
  /\ win' = [win EXCEPT !.state[s] = state]

(* A new dialog has a new id, so none that the group still remembers.      *)
Connect(s) ==
  /\ win.state[s] = "DISCONNECT"
  /\ s \in Dialogs => s \notin { focus.last, focus.lastApp } /\ IsSessionValid(win, OwnerOf(s))
  /\ SetState(s, "CONNECT")
  /\ UNCHANGED <<focus, post, starting, property, loop>>

(* ProcessFocusWhenForeground, then the dialogs of the main window, now or *)
(* at the end of the next flush.                                           *)
Foreground(s) ==
  LET w == [win EXCEPT !.state[s] = "FOREGROUND"]
      waited == s \in Mains /\ s = focus.focused
      parks == ~waited /\ ~VisibleForeground(w, s)
      f == IF waited THEN ReleaseBlock(w, focus, s)
           ELSE IF parks THEN focus
           ELSE RequestSessionFocus(w, focus, s, TRUE, "APP_FOREGROUND").f
  IN  /\ Idle
      /\ win.state[s] \in { "CONNECT", "INACTIVE", "BACKGROUND" }
      /\ win' = w
      /\ focus' = IF VisibleForeground(w, s) THEN SubSessionForeground(w, f, s) ELSE f
      /\ post' = IF ~parks THEN post ELSE
                 [post EXCEPT ![s] = [ enabled |-> TRUE, isFocused |-> TRUE,
                    byForeground |-> TRUE, reason |-> "APP_FOREGROUND" ]]
      /\ starting' = starting \ {s}
      /\ property' = IF s \in WithDialog /\ ~VisibleForeground(w, s)
                       THEN property \cup {s} ELSE property
      /\ UNCHANGED loop

(* The scene board pauses a window, in recents for instance.               *)
Pause(m) ==
  /\ win.state[m] = "FOREGROUND"
  /\ SetState(m, "INACTIVE")
  /\ UNCHANGED <<focus, post, starting, property, loop>>

Background(s) ==
  /\ win.state[s] \in { "FOREGROUND", "INACTIVE" }
  /\ SetState(s, "BACKGROUND")
  /\ focus' = RequestSessionUnfocus(win', focus, s).f
  /\ starting' = starting \ {s}
  /\ UNCHANGED <<post, property, loop>>

(* A client that is gone believes nothing.                                 *)
Forget(f, s) == [f EXCEPT !.told = @ \ {s}]

(* The client of a main window is gone; its focus is not looked after.     *)
DisconnectFromClient(m) ==
  /\ IsSessionValid(win, m)
  /\ SetState(m, "CLOSED")
  /\ focus' = Forget(focus, m)
  /\ UNCHANGED <<post, starting, property, loop>>

Gone(w, d) == [w EXCEPT !.state[d] = "DISCONNECT", !.visible = @ \ {d}]

(* A dialog is unbound from its main window before it gives the focus up.  *)
DestroyAndDisconnectSpecificSession(d) ==
  /\ Idle
  /\ Exists(win, d)
  /\ win' = Gone(win, d)
  /\ focus' = Forget(RequestSessionUnfocus(win', focus, d).f, d)
  /\ post' = [post EXCEPT ![d] = NoPost]
  /\ UNCHANGED <<starting, property, loop>>

(* The focus is given up, then the dialog goes and gives it up while it is *)
(* still bound, then the session disconnects and gives it up.              *)
RequestSceneSessionDestruction(m) ==
  LET d == DialogOf[m]
      first == RequestSessionUnfocus(win, focus, m).f
      second == RequestSessionUnfocus([win EXCEPT !.state[d] = "BACKGROUND"], first, d).f
      w == [(IF HasDialog(win, m) THEN Gone(win, d) ELSE win) EXCEPT !.state[m] = "BACKGROUND"]
  IN  /\ Idle
      /\ focus' = RequestSessionUnfocus(w, IF HasDialog(win, m) THEN second ELSE first, m).f
      /\ win' = [w EXCEPT !.state[m] = "DISCONNECT"]
      /\ post' = IF HasDialog(win, m) THEN [post EXCEPT ![d] = NoPost] ELSE post
      /\ starting' = starting \ {m}
      /\ property' = property \ {m}
      /\ UNCHANGED loop

-----------------------------------------------------------------------------
(* FlushUIParams: the scene board tells which windows are shown, and how   *)
(* high, and the requests that were left for the flush are processed.      *)

(* UpdateUIParam: a window that appears wants the focus, a focused one     *)
(* that disappears gives it up.                                            *)
UpdateUIParam(w, s) ==
  IF s \in w.visible /\ s \notin win.visible /\ s \notin focus.isFocused /\ ~post[s].enabled
    THEN [post[s] EXCEPT !.enabled = TRUE, !.isFocused = TRUE,
            !.reason = IF s \in starting THEN "SCB_START_APP" ELSE "FOREGROUND"]
  ELSE IF s \notin w.visible /\ s \in win.visible /\ s \in focus.isFocused
    THEN [post[s] EXCEPT !.enabled = TRUE, !.isFocused = FALSE, !.reason = "BACKGROUND"]
  ELSE post[s]

(* ProcessUpdateLastFocusedAppId: an application rises past the last one.  *)
AppPasses(w) ==
  /\ focus.lastApp # None
  /\ Exists(w, focus.lastApp)
  /\ \E s \in Apps \cap w.visible : /\ Above(w, s, focus.lastApp)
                                   /\ s \in win.visible => win.z[s] < w.z[focus.lastApp]

(* Those that want the focus before those that give it up, from the top.   *)
CollectProcessingSessions(w, p) ==
  LET S == { s \in Sessions : p[s].enabled /\ (p[s].isFocused => s \in w.visible) }
      Before(s, t) == IF p[s].isFocused # p[t].isFocused THEN p[s].isFocused
                      ELSE Above(w, s, t)
      Rank(s) == Cardinality({ t \in S : Before(t, s) }) + 1
  IN  [ i \in 1..Cardinality(S) |-> CHOOSE s \in S : Rank(s) = i ]

(* The flush ends when no session is left.                                 *)
EndFlush(w, f) ==
  \/ /\ loop'.queue = <<>>
     /\ focus' = PostProcessProperty(w, f)
     /\ property' = {}
  \/ /\ loop'.queue # <<>>
     /\ focus' = f
     /\ UNCHANGED property

(* A window that is not shown keeps the z-order it had.                    *)
FlushUIParams(visible, z) ==
  LET w == [win EXCEPT !.visible = visible,
                       !.z = [s \in Sessions |-> IF s \in visible THEN z[s] ELSE @[s]]]
  IN  /\ Idle
      /\ \A s \in visible : Exists(win, s)
      /\ IsInjective(w.z)
      /\ win' = w
      /\ post' = [s \in Sessions |-> UpdateUIParam(w, s)]
      /\ loop' = [ queue |-> CollectProcessingSessions(w, post'),
                   changed |-> FALSE, base |-> focus.focused ]
      /\ EndFlush(w, IF AppPasses(w) THEN [focus EXCEPT !.lastApp = None] ELSE focus)
      /\ UNCHANGED starting

(* What PostProcessFocus asks for a session.                               *)
ProcessFocusState(s) ==
  LET p == post[s]
      r == IF p.reason = "SCB_START_APP"
             THEN RequestSessionFocusImmediately(win, focus, s, TRUE, p.reason)
             ELSE RequestSessionFocus(win, focus, s,
                    p.reason = "RECENT" => p.byForeground, p.reason)
  IN  IF ~p.isFocused THEN RequestSessionUnfocus(win, focus, s)
      ELSE IF p.reason \in { "SCB_START_APP", "FOREGROUND", "APP_FOREGROUND" }
             THEN [r EXCEPT !.f = SubSessionForeground(win, @, s)]
             ELSE r

(* One round of the loop of PostProcessFocus.                              *)
PostProcessFocus(s) ==
  LET rest == Tail(loop.queue)
      r == IF loop.changed THEN Refused(focus) ELSE ProcessFocusState(s)
  IN  /\ loop.queue # <<>> /\ s = Head(loop.queue)
      /\ post' = [post EXCEPT ![s] = NoPost]
      /\ loop' = IF rest = <<>> THEN NoLoop
                 ELSE [loop EXCEPT !.queue = rest, !.changed = @ \/ r.ok]
      /\ EndFlush(win, r.f)
      /\ UNCHANGED <<win, starting>>

Next ==
  \/ \E s \in Sessions :
       /\ Exists(win, s)
       /\ \/ RequestFocusStatus(s)
          \/ RequestUnfocusStatus(s)
          \/ \E b \in BOOLEAN, r \in ScbReasons : RequestFocusStatusBySCB(s, b, r)
  \/ \E s \in Sessions : PostProcessFocus(s)
  \/ \E m \in Mains : RequestSceneSessionActivation(m)
  \/ \E s \in Apps : Connect(s) \/ Foreground(s) \/ Background(s)
  \/ \E m \in MayPause : Pause(m)
  \/ \E m \in MayDisconnect \cap Mains :
       DisconnectFromClient(m) \/ RequestSceneSessionDestruction(m)
  \/ \E d \in MayDisconnect \cap Dialogs : DestroyAndDisconnectSpecificSession(d)
  \/ \E v \in SUBSET Sessions, z \in ZOrders : FlushUIParams(v, z)
  \/ RequestAllAppSessionUnfocus

Spec == Init /\ [][Next]_vars

-----------------------------------------------------------------------------
TypeOK ==
  /\ win.state \in [Apps -> State] /\ win.visible \subseteq Sessions
  /\ win.z \in [Sessions -> Nat] /\ IsInjective(win.z) /\ win.freeMulti \in BOOLEAN
  /\ focus \in Group
  /\ post \in [Sessions -> PostState]
  /\ starting \subseteq Mains /\ property \subseteq WithDialog
  /\ loop \in Loop

(* The group and the sessions agree on who has the focus: isFocused_ is    *)
(* set in the session that focusedSessionId_ names and in no other,        *)
(* however requests, dialogs and fallbacks were nested.                    *)
FocusedFlagAgrees == focus.isFocused = { focus.focused } \ {None}

(* No client believes to have the focus unless its window has it and has   *)
(* come to the foreground, and stays there.                                *)
ToldOnlyFocused ==
  \A s \in focus.told :
    s = focus.focused /\ win.state[s] \in { "FOREGROUND", "INACTIVE" }

(* The client of the focused window knows, unless the group says that it   *)
(* waits for the foreground.                                               *)
ToldUnlessBlocked ==
  IsSessionValid(win, focus.focused) /\ ~focus.blockFocus => focus.focused \in focus.told

(* The keyguard keeps the focus from every window below it until it gives  *)
(* the focus up itself or disappears: "Lower session cannot request focus  *)
(* from keyguard", whatever the reason and whoever asks.                   *)
KeyguardKeepsFocus ==
  [][ \A k \in Keyguards :
        /\ focus.focused = k
        /\ focus'.focused # k
        /\ focus'.focused # None => Above(win', k, focus'.focused)
        => \/ RequestUnfocusStatus(k)
           \/ ~Idle /\ Head(loop.queue) = k /\ ~post[k].isFocused ]_vars

(* "only change focus one time", says PostProcessFocus of its loop.        *)
FocusChangesOncePerFlush ==
  [][ ~Idle /\ focus.focused # loop.base => focus'.focused = focus.focused ]_vars
=============================================================================
