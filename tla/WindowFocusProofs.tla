--------------------------- MODULE WindowFocusProofs ---------------------------
(***************************************************************************)
(* The safety properties of WindowFocus about who has the focus and who    *)
(* knows of it, for any windows, dialogs, z-orders and requests.           *)
(*                                                                         *)
(* FocusedFlagAgrees is inductive once the shape of the focus group is     *)
(* added.  Every operation on the focus gives a focus that agrees again,   *)
(* granted or refused, so a request may be nested in another one at will:  *)
(* there is a lemma for each, and the actions follow from them.            *)
(*                                                                         *)
(* What clients know goes the same way, with Answers in the place of       *)
(* agreement: a request leaves the focus alone or settles a new one.  So   *)
(* does the keyguard's privilege, with Yields.                             *)
(*                                                                         *)
(* The types come after that: the queue of a flush is typed because the    *)
(* windows are finitely many and of different heights, so one is the       *)
(* highest and each place of the queue is taken.  The same ranks say who   *)
(* is processed in which order, and that nobody is left when it is over.   *)
(***************************************************************************)
EXTENDS WindowFocus, FiniteSetTheorems, TLAPS

(* f has the fields of a focus group, whatever is in them, and its session *)
(* and the sessions that believe to be focused agree.                      *)
Fields == { "focused", "last", "lastApp", "blockFocus", "blockUnfocus", "isFocused", "told" }

Agrees(f) ==
  /\ f = [x \in Fields |-> f[x]]
  /\ f.isFocused = { f.focused } \ {None}

(* The result of an operation that may refuse.                             *)
AgreesAnyway(r) == r = [ f |-> r.f, ok |-> r.ok ] /\ Agrees(r.f)

-----------------------------------------------------------------------------
(* Flags of the group and what clients know do not matter.                 *)
LEMMA FlagsDoNotMatter ==
  ASSUME NEW f, Agrees(f), NEW blockFocus, NEW blockUnfocus, NEW told, NEW lastApp
  PROVE  /\ Agrees([f EXCEPT !.blockUnfocus = blockUnfocus, !.blockFocus = blockFocus])
         /\ Agrees([f EXCEPT !.blockFocus = blockFocus])
         /\ Agrees([f EXCEPT !.told = told])
         /\ Agrees([f EXCEPT !.lastApp = lastApp])
<1>1. Agrees([f EXCEPT !.blockUnfocus = blockUnfocus, !.blockFocus = blockFocus])
  BY DEF Agrees, Fields
<1>2. Agrees([f EXCEPT !.blockFocus = blockFocus])
  BY DEF Agrees, Fields
<1>3. Agrees([f EXCEPT !.told = told])
  BY DEF Agrees, Fields
<1>4. Agrees([f EXCEPT !.lastApp = lastApp])
  BY DEF Agrees, Fields
<1>5. QED BY <1>1, <1>2, <1>3, <1>4

(* The focus goes from one session to the next: ShiftFocus.                *)
LEMMA ShiftFocusAgrees ==
  ASSUME NEW w, NEW f, NEW s, Agrees(f)
  PROVE  Agrees(ShiftFocus(w, f, s))
<1> DEFINE u == Unfocused(w, f, f.focused)
<1>1. u = [x \in Fields |-> u[x]] /\ u.isFocused = {}
  BY DEF Agrees, Unfocused, Fields
<1> HIDE DEF u
<1>2. Agrees(Focused(w, u, s))
  BY <1>1 DEF Agrees, Focused, Fields
<1>3. QED BY <1>2 DEF ShiftFocus, u

LEMMA CarryBlockAgrees == ASSUME NEW f, Agrees(f) PROVE Agrees(CarryBlock(f))
BY FlagsDoNotMatter DEF CarryBlock

LEMMA ReleaseBlockAgrees ==
  ASSUME NEW w, NEW f, NEW s, Agrees(f) PROVE Agrees(ReleaseBlock(w, f, s))
BY DEF Agrees, ReleaseBlock, Fields

LEMMA ForgetAgrees == ASSUME NEW f, NEW s, Agrees(f) PROVE Agrees(Forget(f, s))
BY FlagsDoNotMatter DEF Forget

LEMMA ResultsAgree ==
  ASSUME NEW f, Agrees(f) PROVE AgreesAnyway(Done(f)) /\ AgreesAnyway(Refused(f))
BY DEF AgreesAnyway, Done, Refused

-----------------------------------------------------------------------------
(* Requests.  A request goes through the dialog of a main window, whose    *)
(* own request is the same without a dialog.                               *)

LEMMA ShiftFocusImmediatelyAgrees ==
  ASSUME NEW w, NEW f, NEW s, NEW block, Agrees(f)
  PROVE  Agrees(ShiftFocusImmediately(w, f, s, block))
BY FlagsDoNotMatter, ShiftFocusAgrees DEF ShiftFocusImmediately

LEMMA DialogAgrees ==
  ASSUME NEW w, NEW f, NEW s, Agrees(f)
  PROVE  AgreesAnyway(ProcessDialogRequestFocusImmediately(w, f, s))
<1>1. ASSUME NEW d PROVE AgreesAnyway(DialogFocusImmediately(w, f, d))
  BY ResultsAgree, ShiftFocusImmediatelyAgrees DEF DialogFocusImmediately
<1>2. QED BY <1>1, ResultsAgree DEF ProcessDialogRequestFocusImmediately

LEMMA RequestImmediatelyAgrees ==
  ASSUME NEW w, NEW f, NEW s, NEW block, NEW reason, Agrees(f)
  PROVE  AgreesAnyway(RequestSessionFocusImmediately(w, f, s, block, reason))
<1> DEFINE dialog == ProcessDialogRequestFocusImmediately(w, f, s)
<1>1. Agrees(dialog.f)
  BY DialogAgrees DEF AgreesAnyway
<1>2. AgreesAnyway(Refused(f)) /\ AgreesAnyway(Refused(dialog.f))
  BY <1>1, ResultsAgree
<1>3. AgreesAnyway(Done(ShiftFocusImmediately(w, f, s, block)))
  BY ShiftFocusImmediatelyAgrees, ResultsAgree
<1>4. QED BY <1>2, <1>3 DEF RequestSessionFocusImmediately

LEMMA RequestAgrees ==
  ASSUME NEW w, NEW f, NEW s, NEW byForeground, NEW reason, Agrees(f)
  PROVE  AgreesAnyway(RequestSessionFocus(w, f, s, byForeground, reason))
<1> DEFINE dialog == ProcessDialogRequestFocusImmediately(w, f, s)
<1>1. Agrees(dialog.f)
  BY DialogAgrees DEF AgreesAnyway
<1>2. AgreesAnyway(Refused(f)) /\ AgreesAnyway(Refused(dialog.f))
  BY <1>1, ResultsAgree
<1>3. AgreesAnyway(Done(ShiftFocus(w, CarryBlock(f), s)))
  BY CarryBlockAgrees, ShiftFocusAgrees, ResultsAgree
<1>4. QED BY <1>2, <1>3 DEF RequestSessionFocus

(* The application that had the focus last is asked, or forgotten.         *)
LEMMA LastFocusedAgrees ==
  ASSUME NEW w, NEW f, NEW focused, NEW next, Agrees(f)
  PROVE  AgreesAnyway(CheckLastFocusedAppSessionFocus(w, f, focused, next))
<1> DEFINE r == RequestSessionFocus(w, f, f.lastApp, FALSE, "DEFAULT")
<1>1. AgreesAnyway(r)
  BY RequestAgrees
<1>2. Agrees([r.f EXCEPT !.lastApp = None])
  BY <1>1, FlagsDoNotMatter DEF AgreesAnyway
<1>3. QED BY <1>1, <1>2, ResultsAgree DEF CheckLastFocusedAppSessionFocus

LEMMA GiveFocusUpAgrees ==
  ASSUME NEW w, NEW f, NEW focused, NEW s, Agrees(f)
  PROVE  Agrees(GiveFocusUp(w, f, focused, s))
<1> DEFINE next == GetNextFocusableSession(w, s)
           r == CheckLastFocusedAppSessionFocus(w, CarryBlock(f), focused, next)
           g == [r.f EXCEPT !.blockFocus =
                   @ \/ (next \in Apps /\ ~LifecycleForeground(w, next))]
<1>1. Agrees(r.f)
  BY CarryBlockAgrees, LastFocusedAgrees DEF AgreesAnyway
<1>2. Agrees(ShiftFocus(w, g, next))
  BY <1>1, FlagsDoNotMatter, ShiftFocusAgrees
<1>3. QED BY <1>1, <1>2 DEF GiveFocusUp

LEMMA RequestUnfocusAgrees ==
  ASSUME NEW w, NEW f, NEW s, Agrees(f)
  PROVE  AgreesAnyway(RequestSessionUnfocus(w, f, s))
<1> DEFINE back == IF f.focused \in PopMenus /\ f.last \in Desktops
                     THEN RequestSessionFocus(w, f, f.last, FALSE, "DEFAULT")
                     ELSE Refused(f)
<1>1. AgreesAnyway(back)
  BY RequestAgrees, ResultsAgree
<1>2. AgreesAnyway(Done(GiveFocusUp(w, back.f, f.focused, s)))
  BY <1>1, GiveFocusUpAgrees, ResultsAgree DEF AgreesAnyway
<1>3. QED BY <1>1, <1>2, ResultsAgree DEF RequestSessionUnfocus

LEMMA SubSessionForegroundAgrees ==
  ASSUME NEW w, NEW f, NEW m, Agrees(f)
  PROVE  Agrees(SubSessionForeground(w, f, m))
BY ReleaseBlockAgrees DEF SubSessionForeground

(* The end of a flush may tell one dialog.                                 *)
LEMMA EndFlushGives ==
  ASSUME NEW w, NEW f, EndFlush(w, f)
  PROVE  \E m : focus' \in { f, SubSessionForeground(w, f, m) }
BY DEF EndFlush, PostProcessProperty

-----------------------------------------------------------------------------
(* Actions, by what they are made of.                                      *)

LEMMA InitAgrees == Init => Agrees(focus)
<1> SUFFICES ASSUME Init PROVE Agrees(focus)
  OBVIOUS
<1>1. focus = [ focused |-> None, last |-> None, lastApp |-> None,
                blockFocus |-> FALSE, blockUnfocus |-> FALSE,
                isFocused |-> {}, told |-> {} ]
  BY DEF Init
<1>2. focus = [x \in DOMAIN focus |-> focus[x]]
  BY <1>1
<1>3. DOMAIN focus = Fields
  BY <1>1 DEF Fields
<1>4. focus = [x \in Fields |-> focus[x]]
  BY <1>2, <1>3
<1>5. focus.isFocused = { focus.focused } \ {None}
  BY <1>1
<1>6. QED BY <1>4, <1>5 DEF Agrees

(* Requests of clients and of the scene board.                             *)
LEMMA RequestActionsAgree ==
  ASSUME Agrees(focus), NEW s, NEW byForeground, NEW reason,
         \/ RequestFocusStatus(s)
         \/ RequestUnfocusStatus(s)
         \/ RequestFocusStatusBySCB(s, byForeground, reason)
         \/ RequestAllAppSessionUnfocus
         \/ RequestSceneSessionActivation(s)
  PROVE  Agrees(focus')
<1>1. CASE RequestFocusStatus(s)
  BY <1>1, RequestAgrees DEF RequestFocusStatus, SetFocus, AgreesAnyway
<1>2. CASE RequestUnfocusStatus(s)
  BY <1>2, RequestUnfocusAgrees DEF RequestUnfocusStatus, SetFocus, AgreesAnyway
<1>3. CASE RequestFocusStatusBySCB(s, byForeground, reason)
  <2>1. CASE reason \in { "FOREGROUND", "FORCE_FOCUSED" }
    BY <1>3, <2>1, RequestImmediatelyAgrees DEF RequestFocusStatusBySCB, AgreesAnyway
  <2>2. CASE reason = "MOVE_UP"
    BY <1>3, <2>2 DEF RequestFocusStatusBySCB
  <2>3. CASE reason \notin { "FOREGROUND", "FORCE_FOCUSED", "MOVE_UP" }
    BY <1>3, <2>3, RequestAgrees DEF RequestFocusStatusBySCB, AgreesAnyway
  <2>4. QED BY <2>1, <2>2, <2>3
<1>4. CASE RequestAllAppSessionUnfocus
  BY <1>4, CarryBlockAgrees, ShiftFocusAgrees DEF RequestAllAppSessionUnfocus, SetFocus
<1>5. CASE RequestSceneSessionActivation(s)
  BY <1>5, RequestImmediatelyAgrees DEF RequestSceneSessionActivation, AgreesAnyway
<1>6. QED BY <1>1, <1>2, <1>3, <1>4, <1>5

(* The lifecycle of a session.                                             *)
LEMMA LifecycleActionsAgree ==
  ASSUME Agrees(focus), NEW s,
         \/ Connect(s) \/ Foreground(s) \/ Pause(s) \/ Background(s)
         \/ DisconnectFromClient(s) \/ RequestSceneSessionDestruction(s)
         \/ DestroyAndDisconnectSpecificSession(s)
  PROVE  Agrees(focus')
<1>1. CASE Connect(s)
  BY <1>1 DEF Connect
<1>2. CASE Foreground(s)
  BY <1>2, ReleaseBlockAgrees, RequestAgrees, SubSessionForegroundAgrees
     DEF Foreground, AgreesAnyway
<1>3. CASE Pause(s)
  BY <1>3 DEF Pause
<1>4. CASE Background(s)
  BY <1>4, RequestUnfocusAgrees DEF Background, AgreesAnyway
<1>5. CASE DisconnectFromClient(s)
  BY <1>5, ForgetAgrees DEF DisconnectFromClient
<1>6. CASE RequestSceneSessionDestruction(s)
  <2> DEFINE d == DialogOf[s]
             first == RequestSessionUnfocus(win, focus, s).f
             second == RequestSessionUnfocus([win EXCEPT !.state[d] = "BACKGROUND"], first, d).f
             w == [(IF HasDialog(win, s) THEN Gone(win, d) ELSE win)
                     EXCEPT !.state[s] = "BACKGROUND"]
             third == RequestSessionUnfocus(w, IF HasDialog(win, s) THEN second ELSE first, s).f
  <2>1. Agrees(first)
    BY RequestUnfocusAgrees DEF AgreesAnyway
  <2> HIDE DEF first
  <2>2. Agrees(second)
    BY <2>1, RequestUnfocusAgrees DEF AgreesAnyway
  <2> HIDE DEF second, w
  <2>3. Agrees(third)
    BY <2>1, <2>2, RequestUnfocusAgrees DEF AgreesAnyway
  <2>4. focus' = third
    BY <1>6 DEF RequestSceneSessionDestruction, first, second, w
  <2>5. QED BY <2>3, <2>4
<1>7. CASE DestroyAndDisconnectSpecificSession(s)
  BY <1>7, RequestUnfocusAgrees, ForgetAgrees
     DEF DestroyAndDisconnectSpecificSession, AgreesAnyway
<1>8. QED BY <1>1, <1>2, <1>3, <1>4, <1>5, <1>6, <1>7

(* The flush and the rounds of its loop.                                   *)
LEMMA ProcessAgrees == ASSUME Agrees(focus), NEW s PROVE Agrees(ProcessFocusState(s).f)
<1> DEFINE p == post[s]
           r == IF p.reason = "SCB_START_APP"
                  THEN RequestSessionFocusImmediately(win, focus, s, TRUE, p.reason)
                  ELSE RequestSessionFocus(win, focus, s,
                         p.reason = "RECENT" => p.byForeground, p.reason)
<1>1. AgreesAnyway(r)
  BY RequestImmediatelyAgrees, RequestAgrees
<1>2. AgreesAnyway(RequestSessionUnfocus(win, focus, s))
  BY RequestUnfocusAgrees
<1> HIDE DEF r
<1>3. Agrees([r EXCEPT !.f = SubSessionForeground(win, @, s)].f)
  BY <1>1, SubSessionForegroundAgrees DEF AgreesAnyway
<1>4. QED BY <1>1, <1>2, <1>3 DEF ProcessFocusState, AgreesAnyway, r

LEMMA FlushActionsAgree ==
  ASSUME Agrees(focus), NEW visible, NEW z, NEW s,
         FlushUIParams(visible, z) \/ PostProcessFocus(s)
  PROVE  Agrees(focus')
<1>1. CASE FlushUIParams(visible, z)
  <2>1. Agrees([focus EXCEPT !.lastApp = None])
    BY FlagsDoNotMatter
  <2>2. \E w, f : f \in { focus, [focus EXCEPT !.lastApp = None] } /\ EndFlush(w, f)
    BY <1>1 DEF FlushUIParams
  <2>3. QED BY <2>1, <2>2, EndFlushGives, SubSessionForegroundAgrees
<1>2. CASE PostProcessFocus(s)
  <2>1. Agrees(ProcessFocusState(s).f)
    BY ProcessAgrees
  <2>2. Agrees(Refused(focus).f)
    BY ResultsAgree DEF AgreesAnyway
  <2>3. \E f : f \in { ProcessFocusState(s).f, Refused(focus).f } /\ EndFlush(win, f)
    BY <1>2 DEF PostProcessFocus
  <2>4. QED BY <2>1, <2>2, <2>3, EndFlushGives, SubSessionForegroundAgrees
<1>3. QED BY <1>1, <1>2

-----------------------------------------------------------------------------
(* The group and the sessions always agree on who has the focus, for any   *)
(* windows, dialogs and z-orders and whatever requests are nested.         *)
THEOREM FocusedFlagAlwaysAgrees == Spec => []FocusedFlagAgrees
<1>1. Init => Agrees(focus)
  BY InitAgrees
<1>2. Agrees(focus) /\ [Next]_vars => Agrees(focus)'
  <2> SUFFICES ASSUME Agrees(focus), [Next]_vars PROVE Agrees(focus')
    OBVIOUS
  <2>1. CASE UNCHANGED vars
    BY <2>1 DEF vars
  <2>2. CASE Next
    BY <2>2, RequestActionsAgree, LifecycleActionsAgree, FlushActionsAgree DEF Next
  <2>3. QED BY <2>1, <2>2
<1>3. Agrees(focus) => FocusedFlagAgrees
  BY DEF Agrees, FocusedFlagAgrees
<1>4. QED BY <1>1, <1>2, <1>3, PTL DEF Spec

-----------------------------------------------------------------------------
(* What clients know.  Told: whoever believes to have the focus is E, or a *)
(* client in the foreground, and if it can be told anything else, it has   *)
(* the focus and the group holds nothing back.                             *)
Told(w, f, E) ==
  \A s \in f.told :
    /\ s \in E \/ (s \in Apps /\ w.state[s] \in { "FOREGROUND", "INACTIVE" })
    /\ IsSessionValid(w, s) => s = f.focused /\ ~f.blockFocus

(* The same while the focus moves: what counts is what is held back from   *)
(* the session that loses it.                                              *)
TellsUnfocused(w, f, E) ==
  \A s \in f.told :
    /\ s \in E \/ (s \in Apps /\ w.state[s] \in { "FOREGROUND", "INACTIVE" })
    /\ IsSessionValid(w, s) => s = f.focused /\ ~f.blockUnfocus

(* The client of the focused session knows, unless it has to wait.         *)
Knows(w, f) == IsSessionValid(w, f.focused) /\ ~f.blockFocus => f.focused \in f.told

(* A session that just got the focus waits if it is not in the foreground. *)
Fresh(w, f) == ~f.blockFocus /\ f.focused \in Apps => LifecycleForeground(w, f.focused)

Before(w, f, E) == Agrees(f) /\ Told(w, f, E)
Settled(w, f, E) == Before(w, f, E) /\ Knows(w, f) /\ Fresh(w, f)

(* What a request makes of a focus f: it leaves it alone or settles a new  *)
(* one, and it settles one if it answers that it did.                      *)
Answers(w, f, r, E) ==
  /\ r = [ f |-> r.f, ok |-> r.ok ] /\ r.ok \in BOOLEAN
  /\ r.f = f \/ Settled(w, r.f, E)
  /\ r.ok => Settled(w, r.f, E)
  /\ ~r.ok => r.f = f \/ r.f.blockUnfocus = f.blockFocus

(* The focus goes from one session to the next.                            *)
LEMMA ShiftFocusSettles ==
  ASSUME NEW w, NEW f, NEW E, NEW s, Agrees(f), TellsUnfocused(w, f, E),
         ~f.blockFocus /\ s \in Apps => LifecycleForeground(w, s)
  PROVE  /\ Settled(w, ShiftFocus(w, f, s), E)
         /\ ShiftFocus(w, f, s).blockUnfocus = f.blockUnfocus
         /\ ShiftFocus(w, f, s).focused = s
<1> DEFINE u == Unfocused(w, f, f.focused)
           g == Focused(w, u, s)
<1>1. /\ u = [x \in Fields |-> u[x]]
      /\ u.blockFocus = f.blockFocus /\ u.blockUnfocus = f.blockUnfocus
      /\ u.told = IF ~f.blockUnfocus /\ IsSessionValid(w, f.focused)
                    THEN f.told \ {f.focused} ELSE f.told
  BY DEF Agrees, Unfocused, Fields
<1>2. \A t \in u.told :
        /\ t \in E \/ (t \in Apps /\ w.state[t] \in { "FOREGROUND", "INACTIVE" })
        /\ ~IsSessionValid(w, t)
  BY <1>1 DEF TellsUnfocused
<1> HIDE DEF u
<1>3. /\ g.focused = s /\ g.blockFocus = f.blockFocus /\ g.blockUnfocus = f.blockUnfocus
      /\ g.told = IF ~f.blockFocus /\ IsSessionValid(w, s)
                    THEN u.told \cup {s} ELSE u.told
  BY <1>1 DEF Focused, Fields
<1>4. Agrees(g)
  BY ShiftFocusAgrees DEF ShiftFocus, u
<1> HIDE DEF g
<1>5. Told(w, g, E) /\ Knows(w, g) /\ Fresh(w, g)
  BY <1>2, <1>3 DEF Told, Knows, Fresh, LifecycleForeground, IsSessionValid
<1>6. QED BY <1>3, <1>4, <1>5 DEF Settled, Before, ShiftFocus, u, g

LEMMA CarryBlockBefore ==
  ASSUME NEW w, NEW f, NEW E, Before(w, f, E)
  PROVE  /\ Before(w, CarryBlock(f), E)
         /\ TellsUnfocused(w, CarryBlock(f), E)
         /\ CarryBlock(f).blockFocus = FALSE
         /\ CarryBlock(f).blockUnfocus = f.blockFocus
         /\ CarryBlock(f).focused = f.focused
<1> DEFINE g == CarryBlock(f)
<1>1. /\ g.told = f.told /\ g.focused = f.focused
      /\ g.blockFocus = FALSE /\ g.blockUnfocus = f.blockFocus
  BY DEF Before, Agrees, CarryBlock, Fields
<1>2. Agrees(g)
  BY CarryBlockAgrees DEF Before
<1> HIDE DEF g
<1>3. Told(w, g, E) /\ TellsUnfocused(w, g, E)
  BY <1>1 DEF Before, Told, TellsUnfocused
<1>4. QED BY <1>1, <1>2, <1>3 DEF Before, g

LEMMA RefusedAnswers ==
  ASSUME NEW w, NEW f, NEW E PROVE Answers(w, f, Refused(f), E)
BY DEF Answers, Refused

LEMMA DoneAnswers ==
  ASSUME NEW w, NEW f, NEW g, NEW E, Settled(w, g, E)
  PROVE  Answers(w, f, Done(g), E) /\ Done(g).f = g
BY DEF Answers, Done

LEMMA VisibleIsForeground ==
  ASSUME NEW w, NEW s \in Apps, VisibleForeground(w, s)
  PROVE  LifecycleForeground(w, s)
BY WindowsAssumption DEF VisibleForeground, LifecycleForeground

LEMMA ShiftFocusImmediatelySettles ==
  ASSUME NEW w, NEW f, NEW s, NEW block, NEW E, Before(w, f, E)
  PROVE  /\ Settled(w, ShiftFocusImmediately(w, f, s, block), E)
         /\ ShiftFocusImmediately(w, f, s, block).blockUnfocus = f.blockFocus
<1> DEFINE waits == /\ s \in Apps
                    /\ IF ~block /\ w.freeMulti
                         THEN ~LifecycleForeground(w, s)
                         ELSE ~VisibleForeground(w, s)
           g == [f EXCEPT !.blockUnfocus = f.blockFocus, !.blockFocus = waits \/ @]
<1>1. s \in Apps /\ ~waits => LifecycleForeground(w, s)
  BY VisibleIsForeground
<1>2. waits \in BOOLEAN
  OBVIOUS
<1> HIDE DEF waits
<1>3. /\ g.told = f.told /\ g.focused = f.focused
      /\ g.blockFocus = (waits \/ f.blockFocus) /\ g.blockUnfocus = f.blockFocus
  BY DEF Before, Agrees, Fields
<1>4. Agrees(g)
  BY FlagsDoNotMatter DEF Before
<1> HIDE DEF g
<1>5. TellsUnfocused(w, g, E)
  BY <1>3 DEF Before, Told, TellsUnfocused
<1>6. ~g.blockFocus /\ s \in Apps => LifecycleForeground(w, s)
  BY <1>1, <1>3
<1>7. Settled(w, ShiftFocus(w, g, s), E) /\ ShiftFocus(w, g, s).blockUnfocus = f.blockFocus
  BY <1>3, <1>4, <1>5, <1>6, ShiftFocusSettles
<1>8. ShiftFocusImmediately(w, f, s, block) = ShiftFocus(w, g, s)
  BY DEF ShiftFocusImmediately, waits, g
<1>9. QED BY <1>7, <1>8

-----------------------------------------------------------------------------
(* Requests: what each answers.                                            *)

LEMMA DialogAnswers ==
  ASSUME NEW w, NEW f, NEW s, NEW E, Before(w, f, E)
  PROVE  LET r == ProcessDialogRequestFocusImmediately(w, f, s)
         IN  /\ r = [ f |-> r.f, ok |-> r.ok ] /\ r.ok \in BOOLEAN
             /\ r.f = f \/ (Settled(w, r.f, E) /\ r.f.blockUnfocus = f.blockFocus)
             /\ ~r.ok => r.f = f
<1> DEFINE Fine(r) == /\ r = [ f |-> r.f, ok |-> r.ok ] /\ r.ok \in BOOLEAN
                      /\ \/ r.f = f
                         \/ Settled(w, r.f, E) /\ r.f.blockUnfocus = f.blockFocus
                      /\ ~r.ok => r.f = f
<1>1. Fine(Done(f)) /\ Fine(Refused(f))
  BY DEF Done, Refused
<1>2. ASSUME NEW d PROVE Fine(DialogFocusImmediately(w, f, d))
  <2> DEFINE g == ShiftFocusImmediately(w, f, d, FALSE)
  <2>1. Settled(w, g, E) /\ g.blockUnfocus = f.blockFocus
    BY ShiftFocusImmediatelySettles
  <2> HIDE DEF g
  <2>2. Fine(Done(g))
    BY <2>1 DEF Done
  <2>3. QED BY <1>1, <2>2 DEF DialogFocusImmediately, g
<1> HIDE DEF Fine
<1>3. Fine(ProcessDialogRequestFocusImmediately(w, f, s))
  BY <1>1, <1>2 DEF ProcessDialogRequestFocusImmediately
<1>4. QED BY <1>3 DEF Fine

(* A request that passes its dialog on is refused, whatever the dialog got.*)
LEMMA RefusedAfterDialogAnswers ==
  ASSUME NEW w, NEW f, NEW s, NEW E, Before(w, f, E)
  PROVE  Answers(w, f, Refused(ProcessDialogRequestFocusImmediately(w, f, s).f), E)
<1> DEFINE g == ProcessDialogRequestFocusImmediately(w, f, s).f
<1>1. g = f \/ (Settled(w, g, E) /\ g.blockUnfocus = f.blockFocus)
  BY DialogAnswers
<1> HIDE DEF g
<1>2. Answers(w, f, Refused(g), E)
  BY <1>1 DEF Answers, Refused
<1>3. QED BY <1>2 DEF g

LEMMA RequestImmediatelyAnswers ==
  ASSUME NEW w, NEW f, NEW s, NEW block, NEW reason, NEW E, Before(w, f, E)
  PROVE  Answers(w, f, RequestSessionFocusImmediately(w, f, s, block, reason), E)
<1> DEFINE dialog == ProcessDialogRequestFocusImmediately(w, f, s)
           g == ShiftFocusImmediately(w, f, s, block)
<1>1. Answers(w, f, Refused(f), E) /\ Answers(w, f, Refused(dialog.f), E)
  BY RefusedAnswers, RefusedAfterDialogAnswers
<1>2. Answers(w, f, Done(g), E)
  BY ShiftFocusImmediatelySettles, DoneAnswers
<1>3. QED BY <1>1, <1>2 DEF RequestSessionFocusImmediately

LEMMA RequestAnswers ==
  ASSUME NEW w, NEW f, NEW s, NEW byForeground, NEW reason, NEW E, Before(w, f, E)
  PROVE  Answers(w, f, RequestSessionFocus(w, f, s, byForeground, reason), E)
<1> DEFINE dialog == ProcessDialogRequestFocusImmediately(w, f, s)
           g == ShiftFocus(w, CarryBlock(f), s)
<1>1. Answers(w, f, Refused(f), E) /\ Answers(w, f, Refused(dialog.f), E)
  BY RefusedAnswers, RefusedAfterDialogAnswers
<1>2. ASSUME VisibleForeground(w, s) PROVE Answers(w, f, Done(g), E)
  <2>1. s \in Apps => LifecycleForeground(w, s)
    BY <1>2, VisibleIsForeground
  <2>2. Agrees(CarryBlock(f)) /\ TellsUnfocused(w, CarryBlock(f), E)
    BY CarryBlockBefore DEF Before
  <2>3. Settled(w, g, E)
    BY <2>1, <2>2, ShiftFocusSettles
  <2>4. QED BY <2>3, DoneAnswers
<1>3. QED BY <1>1, <1>2 DEF RequestSessionFocus

LEMMA LastFocusedAnswers ==
  ASSUME NEW w, NEW f, NEW focused, NEW next, NEW E, Before(w, f, E)
  PROVE  LET r == CheckLastFocusedAppSessionFocus(w, f, focused, next)
         IN  /\ Before(w, r.f, E)
             /\ r.ok => Settled(w, r.f, E)
             /\ ~r.ok => \/ r.f.blockUnfocus = f.blockFocus
                         \/ r.f = f
                         \/ r.f = [f EXCEPT !.lastApp = None]
<1> DEFINE r == RequestSessionFocus(w, f, f.lastApp, FALSE, "DEFAULT")
           g == r.f
           forgot == [g EXCEPT !.lastApp = None]
           Fine(x) == /\ Before(w, x.f, E)
                      /\ x.ok => Settled(w, x.f, E)
                      /\ ~x.ok => \/ x.f.blockUnfocus = f.blockFocus
                                  \/ x.f = f
                                  \/ x.f = [f EXCEPT !.lastApp = None]
<1>1. Answers(w, f, r, E)
  BY RequestAnswers
<1> HIDE DEF r
<1>2. Before(w, g, E)
  BY <1>1 DEF Answers, Settled
<1>3. r.ok => Fine(r)
  BY <1>1 DEF Answers, Settled
<1>4. ~r.ok => g = f \/ g.blockUnfocus = f.blockFocus
  BY <1>1 DEF Answers
<1>5. forgot.told = g.told /\ forgot.focused = g.focused
      /\ forgot.blockFocus = g.blockFocus /\ forgot.blockUnfocus = g.blockUnfocus
  BY <1>2 DEF Before, Agrees, Fields
<1>6. Agrees(forgot)
  BY <1>2, FlagsDoNotMatter DEF Before
<1>7. g = f => forgot = [f EXCEPT !.lastApp = None]
  OBVIOUS
<1> HIDE DEF forgot
<1>8. Before(w, forgot, E)
  BY <1>2, <1>5, <1>6 DEF Before, Told
<1>9. ~r.ok => Fine(Refused(forgot))
  BY <1>4, <1>5, <1>7, <1>8 DEF Refused
<1>10. Fine(Refused(f))
  BY DEF Refused
<1> HIDE DEF Fine
<1>11. Fine(CheckLastFocusedAppSessionFocus(w, f, focused, next))
  BY <1>3, <1>9, <1>10 DEF CheckLastFocusedAppSessionFocus, r, g, forgot
<1>12. QED BY <1>11 DEF Fine

(* Giving the focus up always settles: what is not to be told that it      *)
(* loses the focus is what had not been told that it had it.               *)
LEMMA GiveFocusUpSettles ==
  ASSUME NEW w, NEW f, NEW focused, NEW s, NEW E, Before(w, f, E)
  PROVE  Settled(w, GiveFocusUp(w, f, focused, s), E)
<1> DEFINE next == GetNextFocusableSession(w, s)
           c == CarryBlock(f)
           r == CheckLastFocusedAppSessionFocus(w, c, focused, next)
           h == r.f
           waits == next \in Apps /\ ~LifecycleForeground(w, next)
           g == [h EXCEPT !.blockFocus = @ \/ waits]
<1>1. /\ Before(w, c, E) /\ TellsUnfocused(w, c, E)
      /\ c.blockFocus = FALSE /\ c.blockUnfocus = f.blockFocus
  BY CarryBlockBefore
<1>2. Agrees(c)
  BY <1>1 DEF Before
<1>3. c.told = [c EXCEPT !.lastApp = None].told
      /\ c.focused = [c EXCEPT !.lastApp = None].focused
      /\ c.blockUnfocus = [c EXCEPT !.lastApp = None].blockUnfocus
  BY <1>2 DEF Agrees, Fields
<1> HIDE DEF c
<1>4. /\ Before(w, h, E)
      /\ r.ok => Settled(w, h, E)
      /\ ~r.ok => \/ h.blockUnfocus = c.blockFocus
                  \/ h = c
                  \/ h = [c EXCEPT !.lastApp = None]
  BY <1>1, LastFocusedAnswers
<1> HIDE DEF r, next
<1>5. ASSUME ~r.ok PROVE Settled(w, ShiftFocus(w, g, next), E)
  <2>1. TellsUnfocused(w, h, E)
    BY <1>1, <1>3, <1>4, <1>5 DEF TellsUnfocused, Before, Told
  <2>2. Agrees(g)
    BY <1>4, FlagsDoNotMatter DEF Before
  <2>3. /\ g.told = h.told /\ g.focused = h.focused /\ g.blockUnfocus = h.blockUnfocus
        /\ g.blockFocus = (h.blockFocus \/ waits)
    BY <1>4 DEF Before, Agrees, Fields
  <2> HIDE DEF g, h
  <2>4. TellsUnfocused(w, g, E)
    BY <2>1, <2>3 DEF TellsUnfocused
  <2>5. ~g.blockFocus /\ next \in Apps => LifecycleForeground(w, next)
    BY <2>3
  <2>6. QED BY <2>2, <2>4, <2>5, ShiftFocusSettles
<1>6. GiveFocusUp(w, f, focused, s) = IF r.ok THEN h ELSE ShiftFocus(w, g, next)
  BY DEF GiveFocusUp, r, next, c
<1>7. QED BY <1>4, <1>5, <1>6

(* A session that has the focus, or whose dialog has, gives it up whenever *)
(* it is asked to.                                                         *)
LEMMA RequestUnfocusAnswers ==
  ASSUME NEW w, NEW f, NEW s, NEW E, Before(w, f, E)
  PROVE  LET r == RequestSessionUnfocus(w, f, s)
         IN  /\ r.f = f \/ Settled(w, r.f, E)
             /\ f.focused # None /\ s \in { f.focused, MainOf(f.focused) } =>
                  Settled(w, r.f, E)
<1> DEFINE back == IF f.focused \in PopMenus /\ f.last \in Desktops
                     THEN RequestSessionFocus(w, f, f.last, FALSE, "DEFAULT")
                     ELSE Refused(f)
           g == GiveFocusUp(w, back.f, f.focused, s)
<1>1. Answers(w, f, back, E)
  BY RequestAnswers, RefusedAnswers
<1> HIDE DEF back
<1>2. Before(w, back.f, E) /\ (back.ok => Settled(w, back.f, E))
  BY <1>1 DEF Answers, Settled
<1>3. Settled(w, g, E)
  BY <1>2, GiveFocusUpSettles
<1> HIDE DEF g
<1>4. RequestSessionUnfocus(w, f, s) =
        IF f.focused = None \/ s \notin { f.focused, MainOf(f.focused) } THEN Refused(f)
        ELSE IF back.ok THEN back ELSE Done(g)
  BY DEF RequestSessionUnfocus, back, g
<1>5. Refused(f).f = f /\ Done(g).f = g
  BY DEF Refused, Done
<1>6. QED BY <1>2, <1>3, <1>4, <1>5

(* Of finitely many windows one is the highest.                            *)
LEMMA HighestIsThere ==
  ASSUME NEW w, w.z \in [Sessions -> Nat], IsInjective(w.z),
         NEW S \in SUBSET Sessions, S # {}
  PROVE  Highest(w, S) \in S
<1> DEFINE Higher(s) == { t \in S : Above(w, t, s) }
           N == { Cardinality(Higher(s)) : s \in S }
<1>1. \A s \in S : w.z[s] \in Nat
  BY DEF Sessions
<1>2. IsFiniteSet(S)
  BY WindowsAssumption, FS_Subset
<1>3. \A s \in S : IsFiniteSet(Higher(s)) /\ Cardinality(Higher(s)) \in Nat
  BY <1>2, FS_Subset, FS_CardinalityType
<1>4. PICK n \in N : \A m \in N : <<m, n>> \notin OpToRel(<, Nat)
  <2>1. N \subseteq Nat /\ N # {}
    BY <1>3
  <2> HIDE DEF N
  <2>2. QED BY <2>1, NatLessThanWellFounded, WFMin
<1>5. PICK s \in S : n = Cardinality(Higher(s))
  OBVIOUS
<1>6. ASSUME NEW t \in S \ {s} PROVE Above(w, s, t)
  <2>1. w.z[t] # w.z[s]
    BY <1>6 DEF IsInjective, Sessions
  <2>2. ASSUME w.z[t] > w.z[s] PROVE FALSE
    <3>1. Higher(t) \subseteq Higher(s) /\ t \in Higher(s) /\ t \notin Higher(t)
      BY <1>1, <2>2 DEF Above
    <3>2. Cardinality(Higher(t)) < Cardinality(Higher(s))
      <4> HIDE DEF Higher
      <4>1. Cardinality(Higher(t)) <= Cardinality(Higher(s))
            /\ (Cardinality(Higher(s)) = Cardinality(Higher(t)) => Higher(s) = Higher(t))
        BY <1>3, <3>1, FS_Subset
      <4>2. QED BY <1>3, <3>1, <4>1
    <3>3. Cardinality(Higher(t)) \in N /\ Cardinality(Higher(t)) \in Nat /\ n \in Nat
      BY <1>3, <1>5
    <3> HIDE DEF N, Higher
    <3>4. <<Cardinality(Higher(t)), n>> \in OpToRel(<, Nat)
      BY <1>5, <3>2, <3>3 DEF OpToRel
    <3>5. QED BY <1>4, <3>3, <3>4
  <2>3. QED BY <1>1, <2>1, <2>2 DEF Above
<1>7. \E x \in S : \A t \in S \ {x} : Above(w, x, t)
  BY <1>6
<1>8. QED BY <1>7 DEF Highest

-----------------------------------------------------------------------------
(* The invariant: the group agrees with the sessions, clients know what    *)
(* they should, and a session that is not there waits if it has the focus. *)

WinFields == { "state", "visible", "z", "freeMulti" }

WellFormed(w) ==
  /\ w = [x \in WinFields |-> w[x]]
  /\ w.state \in [Apps -> State]
  /\ w.z \in [Sessions -> Nat] /\ IsInjective(w.z)

Known(w, f) == ~f.blockFocus /\ f.focused \in Apps => w.state[f.focused] # "DISCONNECT"

Right(w, f) == Before(w, f, {}) /\ Knows(w, f) /\ Known(w, f)

Inv == WellFormed(win) /\ Right(win, focus)

LEMMA SettledIsRight ==
  ASSUME NEW w, NEW f, NEW g, Right(w, f), g = f \/ Settled(w, g, {})
  PROVE  Right(w, g)
BY DEF Right, Settled, Fresh, Known, LifecycleForeground

(* Only the states of the sessions matter.                                 *)
LEMMA StatesMatter ==
  ASSUME NEW w, NEW v, NEW f, Right(w, f), v.state = w.state
  PROVE  Right(v, f)
BY DEF Right, Before, Told, Knows, Known, IsSessionValid

LEMMA SetStateFacts ==
  ASSUME NEW w, WellFormed(w), NEW s \in Apps, NEW x \in State
  PROVE  /\ WellFormed([w EXCEPT !.state[s] = x])
         /\ [w EXCEPT !.state[s] = x].state = [w.state EXCEPT ![s] = x]
<1> DEFINE v == [w EXCEPT !.state[s] = x]
<1>1. /\ v = [y \in WinFields |-> v[y]]
      /\ v.state = [w.state EXCEPT ![s] = x] /\ v.z = w.z
  BY DEF WellFormed, WinFields
<1> HIDE DEF v
<1>2. WellFormed(v)
  BY <1>1 DEF WellFormed
<1>3. QED BY <1>1, <1>2 DEF v

LEMMA GoneFacts ==
  ASSUME NEW w, WellFormed(w), NEW d \in Apps
  PROVE  /\ WellFormed(Gone(w, d))
         /\ Gone(w, d).state = [w.state EXCEPT ![d] = "DISCONNECT"]
<1> DEFINE v == [w EXCEPT !.state[d] = "DISCONNECT", !.visible = @ \ {d}]
<1>1. /\ v = [y \in WinFields |-> v[y]]
      /\ v.state = [w.state EXCEPT ![d] = "DISCONNECT"] /\ v.z = w.z
  BY DEF WellFormed, WinFields
<1> HIDE DEF v
<1>2. WellFormed(v)
  BY <1>1 DEF WellFormed, State
<1>3. QED BY <1>1, <1>2 DEF v, Gone

LEMMA ForgetFacts ==
  ASSUME NEW f, NEW s, Agrees(f)
  PROVE  /\ Agrees(Forget(f, s)) /\ Forget(f, s).told = f.told \ {s}
         /\ Forget(f, s).focused = f.focused /\ Forget(f, s).blockFocus = f.blockFocus
<1>1. /\ Forget(f, s).told = f.told \ {s}
      /\ Forget(f, s).focused = f.focused /\ Forget(f, s).blockFocus = f.blockFocus
  BY DEF Forget, Agrees, Fields
<1>2. QED BY <1>1, ForgetAgrees

(* A session leaves the foreground and gives up the focus, if it had it.   *)
LEMMA LeavesForeground ==
  ASSUME NEW w, NEW v, NEW f, NEW s \in Apps,
         NEW x \in State \ { "FOREGROUND", "INACTIVE" },
         WellFormed(w), v.state = [w.state EXCEPT ![s] = x], Right(w, f)
  PROVE  LET g == RequestSessionUnfocus(v, f, s).f
         IN  /\ Right(v, Forget(g, s))
             /\ g.focused = s => g.blockFocus
             /\ x = "BACKGROUND" => s \notin g.told /\ Right(v, g)
<1> DEFINE g == RequestSessionUnfocus(v, f, s).f
<1>1. v.state[s] = x /\ \A t \in Apps \ {s} : v.state[t] = w.state[t]
  BY DEF WellFormed
<1>2. Before(v, f, {s})
  BY <1>1 DEF Right, Before, Told, IsSessionValid
<1>3. \/ Settled(v, g, {s})
      \/ g = f /\ f.focused # s
  <2>1. s # None
    BY WindowsAssumption DEF Sessions
  <2>2. QED BY <1>2, <2>1, RequestUnfocusAnswers
<1> HIDE DEF g
<1>4. g.focused = s => g.blockFocus
  BY <1>1, <1>3 DEF Settled, Fresh, LifecycleForeground
<1>5. Agrees(g)
  BY <1>3 DEF Settled, Before, Right
<1>6. Told(v, Forget(g, s), {})
  BY <1>2, <1>3, <1>5, ForgetFacts DEF Settled, Before, Told
<1>7. Knows(v, Forget(g, s))
  BY <1>1, <1>3, <1>4, <1>5, ForgetFacts DEF Settled, Right, Knows, IsSessionValid
<1>8. Known(v, Forget(g, s))
  BY <1>1, <1>3, <1>5, ForgetFacts DEF Settled, Right, Known, Fresh, LifecycleForeground
<1>9. Right(v, Forget(g, s))
  BY <1>5, <1>6, <1>7, <1>8, ForgetFacts DEF Right, Before
<1>10. ASSUME x = "BACKGROUND" PROVE s \notin g.told /\ Right(v, g)
  <2>1. IsSessionValid(v, s)
    BY <1>1, <1>10 DEF IsSessionValid
  <2>2. s \notin g.told
    BY <1>2, <1>3, <1>4, <2>1 DEF Settled, Before, Told
  <2>3. Forget(g, s).told = g.told
    <3>1. g.told \ {s} = g.told
      BY <2>2
    <3>2. QED BY <1>5, <3>1, ForgetFacts
  <2>4. Told(v, g, {}) /\ Knows(v, g) /\ Known(v, g)
    BY <1>5, <1>9, <2>3, ForgetFacts DEF Right, Before, Told, Knows, Known
  <2>5. QED BY <1>5, <2>2, <2>4 DEF Right, Before
<1>11. QED BY <1>4, <1>9, <1>10 DEF g

(* A session in the background that has no focus to lose goes.             *)
LEMMA Leaves ==
  ASSUME NEW w, NEW v, NEW u, NEW f, NEW s \in Apps, WellFormed(w),
         v.state = [w.state EXCEPT ![s] = "BACKGROUND"],
         u.state = [w.state EXCEPT ![s] = "DISCONNECT"],
         Right(v, f), s \notin f.told, f.focused = s => f.blockFocus
  PROVE  Right(u, f)
<1>1. u.state[s] = "DISCONNECT" /\ \A t \in Apps \ {s} : u.state[t] = v.state[t]
  BY DEF WellFormed
<1>2. Told(u, f, {}) /\ Knows(u, f) /\ Known(u, f)
  BY <1>1 DEF Right, Before, Told, Knows, Known, IsSessionValid
<1>3. QED BY <1>2 DEF Right, Before

(* A session that has come to the foreground is told what it waited for.   *)
LEMMA ReleaseBlockRight ==
  ASSUME NEW w, NEW f, NEW s, Right(w, f), LifecycleForeground(w, s)
  PROVE  Right(w, ReleaseBlock(w, f, s))
<1> DEFINE g == [f EXCEPT !.blockFocus = FALSE, !.blockUnfocus = FALSE,
                          !.told = IF IsSessionValid(w, s) THEN @ \cup {s} ELSE @]
<1>1. IsSessionValid(w, s) /\ s \in Apps /\ w.state[s] = "FOREGROUND"
  BY DEF IsSessionValid, LifecycleForeground
<1>2. g.told = f.told \cup {s} /\ g.focused = f.focused /\ g.blockFocus = FALSE
  BY <1>1 DEF Right, Before, Agrees, Fields
<1>3. Agrees(ReleaseBlock(w, f, s))
  BY ReleaseBlockAgrees DEF Right, Before
<1>4. ReleaseBlock(w, f, s) = IF s = f.focused /\ f.blockFocus THEN g ELSE f
  BY DEF ReleaseBlock
<1> HIDE DEF g
<1>5. ASSUME s = f.focused PROVE Told(w, g, {}) /\ Knows(w, g) /\ Known(w, g)
  BY <1>1, <1>2, <1>5 DEF Right, Before, Told, Knows, Known
<1>6. QED BY <1>3, <1>4, <1>5 DEF Right, Before

LEMMA SubSessionForegroundRight ==
  ASSUME NEW w, NEW f, NEW m, Right(w, f)
  PROVE  Right(w, SubSessionForeground(w, f, m))
BY ReleaseBlockRight DEF SubSessionForeground

-----------------------------------------------------------------------------
(* Actions.                                                                *)

LEMMA InitInv == Init => Inv
<1> SUFFICES ASSUME Init PROVE Inv
  OBVIOUS
<1>1. PICK z \in ZOrders, m \in FreeMultiModes :
        win = [ state |-> [s \in Apps |-> "DISCONNECT"], visible |-> {}, z |-> z,
                freeMulti |-> m ]
  BY DEF Init
<1>2. z \in [Sessions -> Nat] /\ IsInjective(z)
  BY RequestsAssumption DEF IsInjective
<1>3. win = [x \in WinFields |-> win[x]]
  <2>1. win = [x \in DOMAIN win |-> win[x]] /\ DOMAIN win = WinFields
    BY <1>1 DEF WinFields
  <2>2. QED BY <2>1
<1>4. WellFormed(win)
  BY <1>1, <1>2, <1>3 DEF WellFormed, State
<1>5. focus.told = {} /\ focus.focused = None
  BY DEF Init
<1>6. Told(win, focus, {}) /\ Knows(win, focus) /\ Known(win, focus)
  BY <1>5, WindowsAssumption DEF Told, Knows, Known, IsSessionValid, Sessions
<1>7. QED BY <1>4, <1>6, InitAgrees DEF Inv, Right, Before

(* What the requests make of a right focus.                                *)
LEMMA RequestsRight ==
  ASSUME NEW w, NEW f, Right(w, f)
  PROVE  /\ \A s, b, r : Right(w, RequestSessionFocus(w, f, s, b, r).f)
         /\ \A s, b, r : Right(w, RequestSessionFocusImmediately(w, f, s, b, r).f)
         /\ \A s : Right(w, RequestSessionUnfocus(w, f, s).f)
<1>1. Before(w, f, {})
  BY DEF Right
<1>2. \A s, b, r : Right(w, RequestSessionFocus(w, f, s, b, r).f)
  BY <1>1, RequestAnswers, SettledIsRight DEF Answers
<1>3. \A s, b, r : Right(w, RequestSessionFocusImmediately(w, f, s, b, r).f)
  BY <1>1, RequestImmediatelyAnswers, SettledIsRight DEF Answers
<1>4. \A s : Right(w, RequestSessionUnfocus(w, f, s).f)
  BY <1>1, RequestUnfocusAnswers, SettledIsRight
<1>5. QED BY <1>2, <1>3, <1>4

(* All applications give the focus up: a system window has no client.      *)
LEMMA AllAppUnfocusRight ==
  ASSUME Inv
  PROVE  Right(win, ShiftFocus(win, CarryBlock(focus), GetTopFocusableNonAppSession(win)))
<1> DEFINE reached == { t \in Systems : \A a \in Apps : Above(win, t, a) => win.z[a] = 0 }
           seen == { t \in reached : VisibleForeground(win, t) }
           next == GetTopFocusableNonAppSession(win)
<1>1. seen \in SUBSET Systems
  OBVIOUS
<1>2. next = IF seen = {} THEN None ELSE Highest(win, seen)
  BY DEF GetTopFocusableNonAppSession
<1> HIDE DEF seen, next
<1>3. next \in Systems \cup {None}
  BY <1>1, <1>2, HighestIsThere DEF Inv, WellFormed, Sessions
<1>4. next \notin Apps
  BY <1>3, WindowsAssumption DEF Sessions
<1>5. Agrees(CarryBlock(focus)) /\ TellsUnfocused(win, CarryBlock(focus), {})
  BY CarryBlockBefore DEF Inv, Right, Before
<1>6. Settled(win, ShiftFocus(win, CarryBlock(focus), next), {})
  BY <1>4, <1>5, ShiftFocusSettles
<1>7. QED BY <1>6, SettledIsRight DEF Inv, next

LEMMA RequestActionsInv ==
  ASSUME Inv, NEW s, NEW byForeground, NEW reason,
         \/ RequestFocusStatus(s)
         \/ RequestUnfocusStatus(s)
         \/ RequestFocusStatusBySCB(s, byForeground, reason)
         \/ RequestAllAppSessionUnfocus
         \/ RequestSceneSessionActivation(s)
  PROVE  Inv'
<1>1. win' = win
  BY DEF RequestFocusStatus, RequestUnfocusStatus, RequestFocusStatusBySCB,
         RequestAllAppSessionUnfocus, RequestSceneSessionActivation, SetFocus
<1>2. Right(win, focus)
  BY DEF Inv
<1>3. Right(win, focus')
  <2>1. CASE RequestFocusStatus(s)
    BY <1>2, <2>1, RequestsRight DEF RequestFocusStatus, SetFocus
  <2>2. CASE RequestUnfocusStatus(s)
    BY <1>2, <2>2, RequestsRight DEF RequestUnfocusStatus, SetFocus
  <2>3. CASE RequestFocusStatusBySCB(s, byForeground, reason)
    <3>1. CASE reason \in { "FOREGROUND", "FORCE_FOCUSED" }
      BY <1>2, <2>3, <3>1, RequestsRight DEF RequestFocusStatusBySCB
    <3>2. CASE reason = "MOVE_UP"
      BY <1>2, <2>3, <3>2 DEF RequestFocusStatusBySCB
    <3>3. CASE reason \notin { "FOREGROUND", "FORCE_FOCUSED", "MOVE_UP" }
      BY <1>2, <2>3, <3>3, RequestsRight DEF RequestFocusStatusBySCB
    <3>4. QED BY <3>1, <3>2, <3>3
  <2>4. CASE RequestAllAppSessionUnfocus
    BY <2>4, AllAppUnfocusRight DEF RequestAllAppSessionUnfocus, SetFocus
  <2>5. CASE RequestSceneSessionActivation(s)
    BY <1>2, <2>5, RequestsRight DEF RequestSceneSessionActivation
  <2>6. QED BY <2>1, <2>2, <2>3, <2>4, <2>5
<1>4. QED BY <1>1, <1>3 DEF Inv

(* A session comes to the foreground, and its dialog with it.              *)
LEMMA ForegroundInv == ASSUME Inv, NEW s \in Apps, Foreground(s) PROVE Inv'
<1> DEFINE w == [win EXCEPT !.state[s] = "FOREGROUND"]
           waited == s \in Mains /\ s = focus.focused
           parks == ~waited /\ ~VisibleForeground(w, s)
           f == IF waited THEN ReleaseBlock(w, focus, s)
                ELSE IF parks THEN focus
                ELSE RequestSessionFocus(w, focus, s, TRUE, "APP_FOREGROUND").f
<1>1. WellFormed(w) /\ w.state = [win.state EXCEPT ![s] = "FOREGROUND"]
  BY SetStateFacts DEF Inv, State
<1>2. win.state[s] \in { "CONNECT", "INACTIVE", "BACKGROUND" } /\ win' = w
  BY DEF Foreground
<1>3. focus' = IF VisibleForeground(w, s) THEN SubSessionForeground(w, f, s) ELSE f
  BY DEF Foreground
<1> HIDE DEF w
<1>4. w.state[s] = "FOREGROUND" /\ \A t \in Apps \ {s} : w.state[t] = win.state[t]
  BY <1>1 DEF Inv, WellFormed
<1>5. Right(w, focus)
  <2>1. Told(w, focus, {}) /\ Knows(w, focus) /\ Known(w, focus)
    BY <1>2, <1>4 DEF Inv, Right, Before, Told, Knows, Known, IsSessionValid
  <2>2. QED BY <2>1 DEF Inv, Right, Before
<1>6. LifecycleForeground(w, s)
  BY <1>4 DEF LifecycleForeground
<1>7. Right(w, f)
  BY <1>5, <1>6, ReleaseBlockRight, RequestsRight
<1> HIDE DEF f
<1>8. Right(w, focus')
  BY <1>3, <1>7, SubSessionForegroundRight
<1>9. QED BY <1>1, <1>2, <1>8 DEF Inv

(* The other steps of a session's lifecycle.                               *)
LEMMA ConnectInv == ASSUME Inv, NEW s \in Apps, Connect(s) PROVE Inv'
<1>1. WellFormed(win') /\ win'.state = [win.state EXCEPT ![s] = "CONNECT"]
  BY SetStateFacts DEF Inv, Connect, SetState, State
<1>2. win.state[s] = "DISCONNECT" /\ focus' = focus
  BY DEF Connect
<1>3. win'.state[s] = "CONNECT" /\ \A t \in Apps \ {s} : win'.state[t] = win.state[t]
  BY <1>1 DEF Inv, WellFormed
<1>4. Told(win', focus, {}) /\ Knows(win', focus) /\ Known(win', focus)
  BY <1>2, <1>3 DEF Inv, Right, Before, Told, Knows, Known, IsSessionValid
<1>5. QED BY <1>1, <1>2, <1>4 DEF Inv, Right, Before

LEMMA PauseInv == ASSUME Inv, NEW m \in Apps, Pause(m) PROVE Inv'
<1>1. WellFormed(win') /\ win'.state = [win.state EXCEPT ![m] = "INACTIVE"]
  BY SetStateFacts DEF Inv, Pause, SetState, State
<1>2. win.state[m] = "FOREGROUND" /\ focus' = focus
  BY DEF Pause
<1>3. win'.state[m] = "INACTIVE" /\ \A t \in Apps \ {m} : win'.state[t] = win.state[t]
  BY <1>1 DEF Inv, WellFormed
<1>4. Told(win', focus, {}) /\ Knows(win', focus) /\ Known(win', focus)
  BY <1>2, <1>3 DEF Inv, Right, Before, Told, Knows, Known, IsSessionValid
<1>5. QED BY <1>1, <1>2, <1>4 DEF Inv, Right, Before

LEMMA BackgroundInv == ASSUME Inv, NEW s \in Apps, Background(s) PROVE Inv'
<1>1. WellFormed(win') /\ win'.state = [win.state EXCEPT ![s] = "BACKGROUND"]
  BY SetStateFacts DEF Inv, Background, SetState, State
<1>2. focus' = RequestSessionUnfocus(win', focus, s).f
  BY DEF Background
<1>3. "BACKGROUND" \in State \ { "FOREGROUND", "INACTIVE" }
  BY DEF State
<1>4. Right(win', focus')
  BY <1>1, <1>2, <1>3, LeavesForeground DEF Inv
<1>5. QED BY <1>1, <1>4 DEF Inv

LEMMA DisconnectInv == ASSUME Inv, NEW m \in Apps, DisconnectFromClient(m) PROVE Inv'
<1>1. WellFormed(win') /\ win'.state = [win.state EXCEPT ![m] = "CLOSED"]
  BY SetStateFacts DEF Inv, DisconnectFromClient, SetState, State
<1>2. focus' = Forget(focus, m) /\ Agrees(focus)
  BY DEF DisconnectFromClient, Inv, Right, Before
<1>3. win'.state[m] = "CLOSED" /\ \A t \in Apps \ {m} : win'.state[t] = win.state[t]
  BY <1>1 DEF Inv, WellFormed
<1>4. /\ Agrees(focus') /\ focus'.told = focus.told \ {m}
      /\ focus'.focused = focus.focused /\ focus'.blockFocus = focus.blockFocus
  BY <1>2, ForgetFacts
<1>5. Told(win', focus', {})
  BY <1>3, <1>4 DEF Inv, Right, Before, Told, IsSessionValid
<1>6. Knows(win', focus') /\ Known(win', focus')
  BY <1>3, <1>4 DEF Inv, Right, Before, Knows, Known, IsSessionValid
<1>7. QED BY <1>1, <1>4, <1>5, <1>6 DEF Inv, Right, Before

LEMMA DestroyDialogInv ==
  ASSUME Inv, NEW d \in Apps, DestroyAndDisconnectSpecificSession(d) PROVE Inv'
<1>1. WellFormed(win') /\ win'.state = [win.state EXCEPT ![d] = "DISCONNECT"]
  BY GoneFacts DEF Inv, DestroyAndDisconnectSpecificSession
<1>2. focus' = Forget(RequestSessionUnfocus(win', focus, d).f, d)
  BY DEF DestroyAndDisconnectSpecificSession
<1>3. "DISCONNECT" \in State \ { "FOREGROUND", "INACTIVE" }
  BY DEF State
<1>4. Right(win', focus')
  BY <1>1, <1>2, <1>3, LeavesForeground DEF Inv
<1>5. QED BY <1>1, <1>4 DEF Inv

(* A main window goes, its dialog before it: both are put in the           *)
(* background, asked to give up the focus, and gone after that.            *)
LEMMA DestructionInv ==
  ASSUME Inv, NEW m \in Mains, RequestSceneSessionDestruction(m) PROVE Inv'
<1> DEFINE d == DialogOf[m]
           first == RequestSessionUnfocus(win, focus, m).f
           below == [win EXCEPT !.state[d] = "BACKGROUND"]
           second == RequestSessionUnfocus(below, first, d).f
           alone == IF HasDialog(win, m) THEN Gone(win, d) ELSE win
           kept == IF HasDialog(win, m) THEN second ELSE first
           w == [alone EXCEPT !.state[m] = "BACKGROUND"]
           third == RequestSessionUnfocus(w, kept, m).f
<1>1. m \in Apps /\ "BACKGROUND" \in State \ { "FOREGROUND", "INACTIVE" }
      /\ "DISCONNECT" \in State
  BY DEF Apps, State
<1>2. win' = [w EXCEPT !.state[m] = "DISCONNECT"] /\ focus' = third
  BY DEF RequestSceneSessionDestruction
<1>3. Right(win, first)
  BY RequestsRight DEF Inv
<1> HIDE DEF first
<1>4. WellFormed(alone) /\ Right(alone, kept)
  <2>1. CASE HasDialog(win, m)
    <3>1. d \in Apps
      BY <2>1, WindowsAssumption DEF HasDialog, Apps
    <3>2. below.state = [win.state EXCEPT ![d] = "BACKGROUND"]
      BY <1>1, <3>1, SetStateFacts DEF Inv
    <3> HIDE DEF below
    <3>3. /\ second.focused = d => second.blockFocus
          /\ d \notin second.told /\ Right(below, second)
      BY <1>1, <1>3, <3>1, <3>2, LeavesForeground DEF Inv
    <3>4. WellFormed(Gone(win, d)) /\ Gone(win, d).state = [win.state EXCEPT ![d] = "DISCONNECT"]
      BY <3>1, GoneFacts DEF Inv
    <3> HIDE DEF second
    <3>5. Right(Gone(win, d), second)
      BY <3>1, <3>2, <3>3, <3>4, Leaves DEF Inv
    <3>6. QED BY <2>1, <3>4, <3>5
  <2>2. CASE ~HasDialog(win, m)
    BY <1>3, <2>2 DEF Inv
  <2>3. QED BY <2>1, <2>2
<1> HIDE DEF alone, kept
<1>5. WellFormed(w) /\ w.state = [alone.state EXCEPT ![m] = "BACKGROUND"]
  BY <1>1, <1>4, SetStateFacts
<1> HIDE DEF w
<1>6. /\ third.focused = m => third.blockFocus
      /\ m \notin third.told /\ Right(w, third)
  BY <1>1, <1>4, <1>5, LeavesForeground
<1> HIDE DEF third
<1>7. WellFormed(win') /\ win'.state = [w.state EXCEPT ![m] = "DISCONNECT"]
  BY <1>1, <1>2, <1>5, SetStateFacts
<1>8. w.state = [w.state EXCEPT ![m] = "BACKGROUND"]
  BY <1>1, <1>4, <1>5 DEF WellFormed
<1>9. Right(win', third)
  BY <1>1, <1>5, <1>6, <1>7, <1>8, Leaves
<1>10. QED BY <1>2, <1>7, <1>9 DEF Inv

(* The flush moves no focus; it changes heights and what is shown.         *)
LEMMA FlushInv ==
  ASSUME Inv, NEW visible, NEW z \in ZOrders, FlushUIParams(visible, z) PROVE Inv'
<1> DEFINE heights == [s \in Sessions |-> IF s \in visible THEN z[s] ELSE win.z[s]]
           w == [win EXCEPT !.visible = visible, !.z = heights]
           h == [focus EXCEPT !.lastApp = None]
<1>1. win' = w /\ IsInjective(w.z)
  BY DEF FlushUIParams
<1>2. heights \in [Sessions -> Nat]
  BY RequestsAssumption DEF Inv, WellFormed
<1> HIDE DEF heights
<1>3. /\ w = [x \in WinFields |-> w[x]]
      /\ w.state = win.state /\ w.z = heights
  BY DEF Inv, WellFormed, WinFields
<1> HIDE DEF w
<1>4. WellFormed(win')
  BY <1>1, <1>2, <1>3 DEF Inv, WellFormed
<1>5. Right(win', focus)
  BY <1>1, <1>3, StatesMatter DEF Inv
<1>6. \E f \in { focus, h } : EndFlush(w, f)
  BY DEF FlushUIParams, w, heights
<1>7. /\ Agrees(h) /\ h.told = focus.told
      /\ h.focused = focus.focused /\ h.blockFocus = focus.blockFocus
  <2>1. Agrees(h)
    BY FlagsDoNotMatter DEF Inv, Right, Before
  <2>2. h.told = focus.told /\ h.focused = focus.focused /\ h.blockFocus = focus.blockFocus
    BY DEF Inv, Right, Before, Agrees, Fields
  <2>3. QED BY <2>1, <2>2
<1> HIDE DEF h
<1>8. Right(win', h)
  BY <1>5, <1>7 DEF Right, Before, Told, Knows, Known
<1>9. Right(win', focus')
  BY <1>1, <1>5, <1>6, <1>8, EndFlushGives, SubSessionForegroundRight
<1>10. QED BY <1>4, <1>9 DEF Inv

(* A round of its loop makes a request, or none.                           *)
LEMMA PostProcessInv == ASSUME Inv, NEW s, PostProcessFocus(s) PROVE Inv'
<1>1. Right(win, focus) /\ win' = win
  BY DEF Inv, PostProcessFocus
<1>2. Right(win, ProcessFocusState(s).f)
  <2> DEFINE p == post[s]
             r == IF p.reason = "SCB_START_APP"
                    THEN RequestSessionFocusImmediately(win, focus, s, TRUE, p.reason)
                    ELSE RequestSessionFocus(win, focus, s,
                           p.reason = "RECENT" => p.byForeground, p.reason)
  <2>1. AgreesAnyway(r) /\ Right(win, r.f)
    BY <1>1, RequestsRight, RequestImmediatelyAgrees, RequestAgrees DEF Right, Before
  <2>2. Right(win, RequestSessionUnfocus(win, focus, s).f)
    BY <1>1, RequestsRight
  <2> HIDE DEF r
  <2>3. Right(win, [r EXCEPT !.f = SubSessionForeground(win, @, s)].f)
    BY <2>1, SubSessionForegroundRight DEF AgreesAnyway
  <2>4. QED BY <2>1, <2>2, <2>3 DEF ProcessFocusState, r
<1>3. Right(win, Refused(focus).f)
  BY <1>1 DEF Refused
<1>4. \E f : f \in { ProcessFocusState(s).f, Refused(focus).f } /\ EndFlush(win, f)
  BY DEF PostProcessFocus
<1>5. Right(win, focus')
  BY <1>2, <1>3, <1>4, EndFlushGives, SubSessionForegroundRight
<1>6. QED BY <1>1, <1>5 DEF Inv

-----------------------------------------------------------------------------
LEMMA NextInv == Inv /\ [Next]_vars => Inv'
<1> SUFFICES ASSUME Inv, [Next]_vars PROVE Inv'
  OBVIOUS
<1>1. CASE UNCHANGED vars
  BY <1>1 DEF vars, Inv
<1>2. CASE Next
  <2>1. MayPause \subseteq Apps /\ MayDisconnect \subseteq Apps /\ Mains \subseteq Apps
    BY KindsAssumption DEF Apps
  <2>2. QED
    BY <1>2, <2>1, RequestActionsInv, ConnectInv, ForegroundInv, BackgroundInv, PauseInv,
       DisconnectInv, DestructionInv, DestroyDialogInv, FlushInv, PostProcessInv DEF Next
<1>3. QED BY <1>1, <1>2

(* No client believes to have the focus unless its window has it and has   *)
(* come to the foreground, and stays there.                                *)
THEOREM OnlyTheFocusedIsTold == Spec => []ToldOnlyFocused
<1>1. Inv => ToldOnlyFocused
  BY DEF Inv, Right, Before, Told, IsSessionValid, ToldOnlyFocused
<1>2. QED BY <1>1, InitInv, NextInv, PTL DEF Spec

(* The client of the focused window knows, unless the group says that it   *)
(* waits for the foreground.                                               *)
THEOREM TheFocusedIsTold == Spec => []ToldUnlessBlocked
<1>1. Inv => ToldUnlessBlocked
  BY DEF Inv, Right, Knows, ToldUnlessBlocked
<1>2. QED BY <1>1, InitInv, NextInv, PTL DEF Spec

-----------------------------------------------------------------------------
(* The keyguard.  Yields: if k has the focus in f, then it goes in g to    *)
(* nobody but a session that is not below k.                               *)
Yields(w, f, g, k) ==
  f.focused = k =>
    \/ g.focused = k
    \/ g.focused # None /\ ~Above(w, k, g.focused)

LEMMA ShiftFocusMoves ==
  ASSUME NEW w, NEW f, NEW s, Agrees(f)
  PROVE  ShiftFocus(w, f, s).focused = s
<1> DEFINE u == Unfocused(w, f, f.focused)
<1>1. u = [x \in Fields |-> u[x]]
  BY DEF Agrees, Unfocused, Fields
<1> HIDE DEF u
<1>2. Focused(w, u, s).focused = s
  BY <1>1 DEF Focused, Fields
<1>3. QED BY <1>2 DEF ShiftFocus, u

LEMMA ShiftFocusImmediatelyMoves ==
  ASSUME NEW w, NEW f, NEW s, NEW block, Agrees(f)
  PROVE  ShiftFocusImmediately(w, f, s, block).focused = s
<1>1. ASSUME NEW x, NEW y
      PROVE  ShiftFocus(w, [f EXCEPT !.blockUnfocus = x, !.blockFocus = y], s).focused = s
  <2> DEFINE g == [f EXCEPT !.blockUnfocus = x, !.blockFocus = y]
  <2>1. Agrees(g)
    BY FlagsDoNotMatter
  <2> HIDE DEF g
  <2>2. ShiftFocus(w, g, s).focused = s
    BY <2>1, ShiftFocusMoves
  <2>3. QED BY <2>2 DEF g
<1>2. \A x, y : [f EXCEPT !.blockUnfocus = x, !.blockFocus = y \/ @]
                = [f EXCEPT !.blockUnfocus = x, !.blockFocus = y \/ f.blockFocus]
  BY DEF Agrees, Fields
<1>3. QED BY <1>1, <1>2 DEF ShiftFocusImmediately

(* Whom the rules admit is not below the keyguard that has the focus.      *)
LEMMA AdmittedYield ==
  ASSUME NEW w, NEW f, NEW g, NEW s, NEW b, NEW reason, NEW k \in Keyguards,
         FocusRulesAdmit(w, f, s, b, reason), g.focused = s, s # None
  PROVE  Yields(w, f, g, k)
<1>1. k # None
  BY WindowsAssumption, KindsAssumption DEF Sessions
<1>2. QED BY <1>1 DEF FocusRulesAdmit, Yields

LEMMA DialogYields ==
  ASSUME NEW w, NEW f, NEW s, NEW k \in Keyguards, Agrees(f)
  PROVE  Yields(w, f, ProcessDialogRequestFocusImmediately(w, f, s).f, k)
<1>1. Yields(w, f, Refused(f).f, k) /\ Yields(w, f, Done(f).f, k)
  BY DEF Yields, Refused, Done
<1>2. ASSUME NEW d, d # None PROVE Yields(w, f, DialogFocusImmediately(w, f, d).f, k)
  <2> DEFINE g == ShiftFocusImmediately(w, f, d, FALSE)
  <2>1. g.focused = d
    BY ShiftFocusImmediatelyMoves
  <2> HIDE DEF g
  <2>2. Done(g).f = g
    BY DEF Done
  <2>3. QED BY <1>1, <1>2, <2>1, <2>2, AdmittedYield DEF DialogFocusImmediately, g
<1>3. QED BY <1>1, <1>2 DEF ProcessDialogRequestFocusImmediately, HasDialog

LEMMA RequestImmediatelyYields ==
  ASSUME NEW w, NEW f, NEW s, NEW block, NEW reason, NEW k \in Keyguards,
         Agrees(f), s # None
  PROVE  Yields(w, f, RequestSessionFocusImmediately(w, f, s, block, reason).f, k)
<1> DEFINE dialog == ProcessDialogRequestFocusImmediately(w, f, s)
           g == ShiftFocusImmediately(w, f, s, block)
<1>1. Yields(w, f, Refused(f).f, k) /\ Yields(w, f, Refused(dialog.f).f, k)
  BY DialogYields DEF Refused, Yields
<1>2. g.focused = s
  BY ShiftFocusImmediatelyMoves
<1> HIDE DEF g
<1>3. FocusRulesAdmit(w, f, s, TRUE, reason) => Yields(w, f, Done(g).f, k)
  BY <1>2, AdmittedYield DEF Done
<1>4. QED BY <1>1, <1>3 DEF RequestSessionFocusImmediately, g

LEMMA RequestYields ==
  ASSUME NEW w, NEW f, NEW s, NEW b, NEW reason, NEW k \in Keyguards, Agrees(f)
  PROVE  Yields(w, f, RequestSessionFocus(w, f, s, b, reason).f, k)
<1> DEFINE dialog == ProcessDialogRequestFocusImmediately(w, f, s)
           g == ShiftFocus(w, CarryBlock(f), s)
<1>1. Yields(w, f, Refused(f).f, k) /\ Yields(w, f, Refused(dialog.f).f, k)
  BY DialogYields DEF Refused, Yields
<1>2. g.focused = s
  BY CarryBlockAgrees, ShiftFocusMoves
<1> HIDE DEF g
<1>3. FocusRulesAdmit(w, f, s, b, reason) /\ s # None => Yields(w, f, Done(g).f, k)
  BY <1>2, AdmittedYield DEF Done
<1>4. QED BY <1>1, <1>3 DEF RequestSessionFocus, g

(* What another session gives up does not touch the keyguard.              *)
LEMMA UnfocusOfAnother ==
  ASSUME NEW w, NEW f, NEW s, NEW k \in Keyguards, s # k, f.focused = k
  PROVE  RequestSessionUnfocus(w, f, s).f = f
<1>1. k \in Systems /\ k \notin Dialogs
  BY WindowsAssumption, KindsAssumption DEF Apps
<1>2. MainOf(k) = k
  BY <1>1 DEF MainOf
<1>3. QED BY <1>2 DEF RequestSessionUnfocus, Refused

LEMMA ReleaseBlockKeeps ==
  ASSUME NEW w, NEW f, NEW s, Agrees(f)
  PROVE  /\ ReleaseBlock(w, f, s).focused = f.focused
         /\ SubSessionForeground(w, f, s).focused = f.focused
<1>1. ASSUME NEW t PROVE ReleaseBlock(w, f, t).focused = f.focused
  BY DEF ReleaseBlock, Agrees, Fields
<1>2. QED BY <1>1 DEF SubSessionForeground

LEMMA EndFlushKeeps ==
  ASSUME NEW w, NEW f, Agrees(f), EndFlush(w, f) PROVE focus'.focused = f.focused
BY EndFlushGives, ReleaseBlockKeeps

(* A request that did not come from the keyguard, or for it.               *)
LEMMA RequestActionsYield ==
  ASSUME Agrees(focus), NEW k \in Keyguards, NEW s \in Sessions,
         NEW byForeground, NEW reason,
         \/ RequestFocusStatus(s)
         \/ RequestUnfocusStatus(s) /\ ~RequestUnfocusStatus(k)
         \/ RequestFocusStatusBySCB(s, byForeground, reason)
         \/ RequestAllAppSessionUnfocus
         \/ RequestSceneSessionActivation(s)
  PROVE  win' = win /\ Yields(win, focus, focus', k)
<1>1. win' = win
  BY DEF RequestFocusStatus, RequestUnfocusStatus, RequestFocusStatusBySCB,
         RequestAllAppSessionUnfocus, RequestSceneSessionActivation, SetFocus
<1>2. Yields(win, focus, focus, k) /\ s # None
  BY WindowsAssumption DEF Yields
<1>3. CASE RequestFocusStatus(s)
  BY <1>1, <1>3, RequestYields DEF RequestFocusStatus, SetFocus
<1>4. CASE RequestUnfocusStatus(s) /\ ~RequestUnfocusStatus(k)
  <2>1. s # k
    BY <1>4
  <2>2. focus' = RequestSessionUnfocus(win, focus, s).f
    BY <1>4 DEF RequestUnfocusStatus, SetFocus
  <2>3. QED BY <1>1, <2>1, <2>2, UnfocusOfAnother DEF Yields
<1>5. CASE RequestFocusStatusBySCB(s, byForeground, reason)
  <2>1. CASE reason \in { "FOREGROUND", "FORCE_FOCUSED" }
    BY <1>1, <1>2, <1>5, <2>1, RequestImmediatelyYields DEF RequestFocusStatusBySCB
  <2>2. CASE reason = "MOVE_UP"
    BY <1>1, <1>2, <1>5, <2>2 DEF RequestFocusStatusBySCB
  <2>3. CASE reason \notin { "FOREGROUND", "FORCE_FOCUSED", "MOVE_UP" }
    BY <1>1, <1>5, <2>3, RequestYields DEF RequestFocusStatusBySCB
  <2>4. QED BY <2>1, <2>2, <2>3
<1>6. CASE RequestAllAppSessionUnfocus
  <2>1. focus.focused # k
    BY <1>6, WindowsAssumption, KindsAssumption DEF RequestAllAppSessionUnfocus
  <2>2. QED BY <1>1, <2>1 DEF Yields
<1>7. CASE RequestSceneSessionActivation(s)
  BY <1>1, <1>2, <1>7, RequestImmediatelyYields DEF RequestSceneSessionActivation
<1>8. QED BY <1>3, <1>4, <1>5, <1>6, <1>7

(* The lifecycle of the applications leaves the keyguard alone, but for a  *)
(* window above it that comes to the foreground.                           *)
LEMMA LifecycleActionsYield ==
  ASSUME Inv, NEW k \in Keyguards, NEW s \in Apps,
         \/ Connect(s) \/ Foreground(s) \/ Pause(s) \/ Background(s)
         \/ DisconnectFromClient(s)
         \/ s \in Mains /\ RequestSceneSessionDestruction(s)
         \/ DestroyAndDisconnectSpecificSession(s)
  PROVE  Yields(win', focus, focus', k)
<1> SUFFICES ASSUME focus.focused = k PROVE Yields(win', focus, focus', k)
  BY DEF Yields
<1>1. s # k /\ Agrees(focus)
  BY WindowsAssumption, KindsAssumption DEF Inv, Right, Before
<1>2. Yields(win', focus, focus, k)
  BY DEF Yields
<1>3. \A w, t : t # k => RequestSessionUnfocus(w, focus, t).f = focus
  BY UnfocusOfAnother
<1>4. Forget(focus, s).focused = focus.focused
  BY <1>1, ForgetFacts
<1>5. CASE Connect(s) \/ Pause(s)
  BY <1>2, <1>5 DEF Connect, Pause
<1>6. CASE Foreground(s)
  <2> DEFINE r == RequestSessionFocus(win', focus, s, TRUE, "APP_FOREGROUND").f
             sub == SubSessionForeground(win', r, s)
  <2>1. win' = [win EXCEPT !.state[s] = "FOREGROUND"]
    BY <1>6 DEF Foreground
  <2>2. Yields(win', focus, r, k) /\ Agrees(r)
    BY <1>1, RequestYields, RequestAgrees DEF AgreesAnyway
  <2> HIDE DEF r
  <2>3. sub.focused = r.focused
    BY <2>2, ReleaseBlockKeeps
  <2>4. focus' \in { focus, r, sub, SubSessionForeground(win', focus, s),
                     ReleaseBlock(win', focus, s),
                     SubSessionForeground(win', ReleaseBlock(win', focus, s), s) }
    BY <1>6, <2>1 DEF Foreground, r
  <2>5. /\ SubSessionForeground(win', focus, s).focused = focus.focused
        /\ ReleaseBlock(win', focus, s).focused = focus.focused
        /\ SubSessionForeground(win', ReleaseBlock(win', focus, s), s).focused = focus.focused
    BY <1>1, ReleaseBlockKeeps, ReleaseBlockAgrees
  <2> HIDE DEF sub
  <2>6. QED BY <1>2, <2>2, <2>3, <2>4, <2>5 DEF Yields
<1>7. CASE Background(s)
  BY <1>1, <1>2, <1>3, <1>7 DEF Background
<1>8. CASE DisconnectFromClient(s)
  BY <1>4, <1>8 DEF DisconnectFromClient, Yields
<1>9. CASE s \in Mains /\ RequestSceneSessionDestruction(s)
  <2> DEFINE d == DialogOf[s]
             below == [win EXCEPT !.state[d] = "BACKGROUND"]
             w == [(IF HasDialog(win, s) THEN Gone(win, d) ELSE win)
                     EXCEPT !.state[s] = "BACKGROUND"]
             first == RequestSessionUnfocus(win, focus, s).f
             second == RequestSessionUnfocus(below, first, d).f
  <2>1. focus' = RequestSessionUnfocus(w, IF HasDialog(win, s) THEN second ELSE first, s).f
    BY <1>9 DEF RequestSceneSessionDestruction
  <2>2. HasDialog(win, s) => d # k
    BY <1>9, WindowsAssumption, KindsAssumption DEF HasDialog, Apps
  <2>3. first = focus
    BY <1>1, <1>3
  <2> HIDE DEF below, first
  <2>4. HasDialog(win, s) => second = focus
    BY <1>3, <2>2, <2>3
  <2> HIDE DEF second, w
  <2>5. focus' = focus
    BY <1>1, <1>3, <2>1, <2>3, <2>4
  <2>6. QED BY <1>2, <2>5
<1>10. CASE DestroyAndDisconnectSpecificSession(s)
  BY <1>1, <1>3, <1>4, <1>10 DEF DestroyAndDisconnectSpecificSession, Yields
<1>11. QED BY <1>5, <1>6, <1>7, <1>8, <1>9, <1>10

LEMMA FlushActionsYield ==
  ASSUME Inv, NEW k \in Keyguards, NEW s \in Sessions,
         \/ \E visible, z : FlushUIParams(visible, z)
         \/ PostProcessFocus(s) /\ ~(Head(loop.queue) = k /\ ~post[k].isFocused)
  PROVE  Yields(win', focus, focus', k)
<1>1. Agrees(focus)
  BY DEF Inv, Right, Before
<1>2. ASSUME NEW visible, NEW z, FlushUIParams(visible, z)
      PROVE  Yields(win', focus, focus', k)
  <2> DEFINE h == [focus EXCEPT !.lastApp = None]
  <2>1. h.focused = focus.focused /\ Agrees(h)
    BY <1>1, FlagsDoNotMatter DEF Agrees, Fields
  <2> HIDE DEF h
  <2>2. PICK w, f : f \in { focus, h } /\ EndFlush(w, f)
    BY <1>2 DEF FlushUIParams, h
  <2>3. focus'.focused = focus.focused
    BY <1>1, <2>1, <2>2, EndFlushKeeps
  <2>4. QED BY <2>3 DEF Yields
<1>3. CASE PostProcessFocus(s) /\ ~(Head(loop.queue) = k /\ ~post[k].isFocused)
  <2> DEFINE p == post[s]
             r == IF p.reason = "SCB_START_APP"
                    THEN RequestSessionFocusImmediately(win, focus, s, TRUE, p.reason)
                    ELSE RequestSessionFocus(win, focus, s,
                           p.reason = "RECENT" => p.byForeground, p.reason)
             q == [r EXCEPT !.f = SubSessionForeground(win, @, s)]
             u == RequestSessionUnfocus(win, focus, s)
  <2> s # None
    BY WindowsAssumption
  <2>1. AgreesAnyway(r) /\ Yields(win, focus, r.f, k)
    BY <1>1, RequestImmediatelyAgrees, RequestAgrees,
       RequestImmediatelyYields, RequestYields
  <2>2. ~p.isFocused => Yields(win, focus, u.f, k)
    BY <1>3, UnfocusOfAnother DEF Yields, PostProcessFocus
  <2> HIDE DEF r
  <2>3. q.f.focused = r.f.focused
    BY <2>1, ReleaseBlockKeeps DEF AgreesAnyway
  <2>4. Yields(win, focus, q.f, k)
    BY <2>1, <2>3 DEF Yields
  <2>5. ProcessFocusState(s) \in IF ~p.isFocused THEN {u} ELSE {q, r}
    BY DEF ProcessFocusState, r
  <2> HIDE DEF q, u
  <2>6. Yields(win, focus, ProcessFocusState(s).f, k)
    BY <2>1, <2>2, <2>4, <2>5
  <2>7. Yields(win, focus, Refused(focus).f, k)
    BY DEF Refused, Yields
  <2>8. Agrees(Refused(focus).f) /\ Agrees(ProcessFocusState(s).f)
    BY <1>1, ResultsAgree, ProcessAgrees DEF AgreesAnyway
  <2>9. PICK f : f \in { ProcessFocusState(s).f, Refused(focus).f } /\ EndFlush(win, f)
    BY <1>3 DEF PostProcessFocus
  <2>10. focus'.focused = f.focused
    BY <2>8, <2>9, EndFlushKeeps
  <2>11. win' = win
    BY <1>3 DEF PostProcessFocus
  <2>12. QED BY <2>6, <2>7, <2>9, <2>10, <2>11 DEF Yields
<1>4. QED BY <1>2, <1>3

(* The keyguard keeps the focus from every window below it until it gives  *)
(* the focus up itself or disappears, whatever the reason, whoever asks,   *)
(* and however the request is nested.                                      *)
THEOREM KeyguardAlwaysKeepsFocus == Spec => KeyguardKeepsFocus
<1>1. ASSUME Inv, Next, NEW k \in Keyguards,
             focus.focused = k, focus'.focused # k,
             focus'.focused # None => Above(win', k, focus'.focused)
      PROVE  \/ RequestUnfocusStatus(k)
             \/ ~Idle /\ Head(loop.queue) = k /\ ~post[k].isFocused
  <2> SUFFICES ASSUME ~RequestUnfocusStatus(k),
                      ~(~Idle /\ Head(loop.queue) = k /\ ~post[k].isFocused)
               PROVE  Yields(win', focus, focus', k)
    BY <1>1 DEF Yields
  <2>1. Agrees(focus)
    BY <1>1 DEF Inv, Right, Before
  <2>2. MayPause \subseteq Apps /\ MayDisconnect \subseteq Apps /\ Mains \subseteq Apps
    BY KindsAssumption DEF Apps
  <2>3. \A s : PostProcessFocus(s) => ~Idle
    BY DEF PostProcessFocus, Idle
  <2>4. CASE \/ \E s \in Sessions : \E b, r :
                  \/ RequestFocusStatus(s)
                  \/ RequestUnfocusStatus(s)
                  \/ RequestFocusStatusBySCB(s, b, r)
             \/ \E m \in Mains : RequestSceneSessionActivation(m)
    <3>1. Mains \subseteq Sessions
      BY DEF Sessions, Apps
    <3>2. QED BY <1>1, <2>1, <2>4, <3>1, RequestActionsYield
  <2>5. CASE RequestAllAppSessionUnfocus
    <3>1. k \in Sessions
      BY KindsAssumption DEF Sessions
    <3>2. QED BY <1>1, <2>1, <2>5, <3>1, RequestActionsYield
  <2>6. CASE \/ \E s \in Apps : Connect(s) \/ Foreground(s) \/ Background(s)
             \/ \E m \in MayPause : Pause(m)
             \/ \E m \in MayDisconnect \cap Mains :
                  DisconnectFromClient(m) \/ RequestSceneSessionDestruction(m)
             \/ \E d \in MayDisconnect \cap Dialogs :
                  DestroyAndDisconnectSpecificSession(d)
    BY <1>1, <2>2, <2>6, LifecycleActionsYield
  <2>7. CASE \/ \E v \in SUBSET Sessions, z \in ZOrders : FlushUIParams(v, z)
             \/ \E s \in Sessions : PostProcessFocus(s)
    <3>1. k \in Sessions
      BY KindsAssumption DEF Sessions
    <3>2. QED BY <1>1, <2>3, <2>7, <3>1, FlushActionsYield
  <2>8. QED BY <1>1, <2>4, <2>5, <2>6, <2>7 DEF Next
<1>2. Inv /\ [Next]_vars =>
        [ \A k \in Keyguards :
            /\ focus.focused = k
            /\ focus'.focused # k
            /\ focus'.focused # None => Above(win', k, focus'.focused)
            => \/ RequestUnfocusStatus(k)
               \/ ~Idle /\ Head(loop.queue) = k /\ ~post[k].isFocused ]_vars
  BY <1>1
<1>3. QED BY <1>2, InitInv, NextInv, PTL DEF Spec, KeyguardKeepsFocus

-----------------------------------------------------------------------------
(* The types.  Every operation on a focus group gives a focus group, and   *)
(* each request an answer.                                                 *)
Answer(r) == r = [ f |-> r.f, ok |-> r.ok ] /\ r.f \in Group /\ r.ok \in BOOLEAN

Shown(w) == WellFormed(w) /\ w.visible \subseteq Sessions /\ w.freeMulti \in BOOLEAN

LEMMA AnswersAreTyped ==
  ASSUME NEW f \in Group PROVE Answer(Done(f)) /\ Answer(Refused(f))
BY DEF Answer, Done, Refused

LEMMA ShiftFocusTyped ==
  ASSUME NEW w, NEW f \in Group, NEW s \in Sessions \cup {None}
  PROVE  ShiftFocus(w, f, s) \in Group
<1> DEFINE u == Unfocused(w, f, f.focused)
<1>1. u \in Group
  <2> DEFINE told == IF ~f.blockUnfocus /\ IsSessionValid(w, f.focused)
                       THEN f.told \ {f.focused} ELSE f.told
  <2>1. told \in SUBSET Apps /\ f.isFocused \ {f.focused} \in SUBSET Sessions
    BY DEF Group
  <2>2. u = [f EXCEPT !.isFocused = f.isFocused \ {f.focused}, !.told = told]
    BY DEF Unfocused
  <2> HIDE DEF told, u
  <2>3. QED BY <2>1, <2>2 DEF Group
<1> HIDE DEF u
<1>2. Focused(w, u, s) \in Group
  <2> DEFINE told == IF ~u.blockFocus /\ IsSessionValid(w, s) THEN u.told \cup {s} ELSE u.told
             on == u.isFocused \cup ({s} \ {None})
             last == IF s = u.focused THEN u.last ELSE u.focused
             lastApp == IF s \in Apps \cup LowerSystems \cup {None} THEN s ELSE u.lastApp
  <2>1. told \in SUBSET Apps
    BY <1>1 DEF Group, IsSessionValid
  <2>2. on \in SUBSET Sessions
    BY <1>1 DEF Group
  <2>3. last \in Sessions \cup {None} /\ lastApp \in Sessions \cup {None}
    BY <1>1 DEF Group
  <2>4. Focused(w, u, s) = [u EXCEPT !.focused = s, !.last = last, !.lastApp = lastApp,
                                     !.isFocused = on, !.told = told]
    BY DEF Focused
  <2> HIDE DEF told, on, last, lastApp
  <2>5. QED BY <1>1, <2>1, <2>2, <2>3, <2>4 DEF Group
<1>3. QED BY <1>2 DEF ShiftFocus, u

LEMMA CarryBlockTyped == ASSUME NEW f \in Group PROVE CarryBlock(f) \in Group
BY DEF CarryBlock, Group

LEMMA ForgetTyped == ASSUME NEW f \in Group, NEW s PROVE Forget(f, s) \in Group
<1>1. f.told \ {s} \in SUBSET Apps
  BY DEF Group
<1>2. QED BY <1>1 DEF Forget, Group

LEMMA ReleaseBlockTyped ==
  ASSUME NEW w, NEW f \in Group, NEW s PROVE ReleaseBlock(w, f, s) \in Group
<1> DEFINE told == IF IsSessionValid(w, s) THEN f.told \cup {s} ELSE f.told
<1>1. told \in SUBSET Apps
  BY DEF Group, IsSessionValid
<1>2. ReleaseBlock(w, f, s) \in
        { f, [f EXCEPT !.blockFocus = FALSE, !.blockUnfocus = FALSE, !.told = told] }
  BY DEF ReleaseBlock
<1> HIDE DEF told
<1>3. [f EXCEPT !.blockFocus = FALSE, !.blockUnfocus = FALSE, !.told = told] \in Group
  BY <1>1 DEF Group
<1>4. QED BY <1>2, <1>3

LEMMA SubSessionForegroundTyped ==
  ASSUME NEW w, NEW f \in Group, NEW m PROVE SubSessionForeground(w, f, m) \in Group
BY ReleaseBlockTyped DEF SubSessionForeground

LEMMA ShiftFocusImmediatelyTyped ==
  ASSUME NEW w, NEW f \in Group, NEW s \in Sessions, NEW block
  PROVE  ShiftFocusImmediately(w, f, s, block) \in Group
<1> DEFINE waits == /\ s \in Apps
                    /\ IF ~block /\ w.freeMulti
                         THEN ~LifecycleForeground(w, s)
                         ELSE ~VisibleForeground(w, s)
           g == [f EXCEPT !.blockUnfocus = f.blockFocus, !.blockFocus = waits \/ @]
<1>1. waits \in BOOLEAN
  OBVIOUS
<1> HIDE DEF waits
<1>2. g \in Group
  BY <1>1 DEF Group
<1> HIDE DEF g
<1>3. ShiftFocus(w, g, s) \in Group
  BY <1>2, ShiftFocusTyped
<1>4. ShiftFocusImmediately(w, f, s, block) = ShiftFocus(w, g, s)
  BY DEF ShiftFocusImmediately, waits, g
<1>5. QED BY <1>3, <1>4

LEMMA DialogTyped ==
  ASSUME NEW w, NEW f \in Group, NEW s
  PROVE  Answer(ProcessDialogRequestFocusImmediately(w, f, s))
<1>1. ASSUME NEW d \in Sessions PROVE Answer(DialogFocusImmediately(w, f, d))
  BY <1>1, AnswersAreTyped, ShiftFocusImmediatelyTyped DEF DialogFocusImmediately
<1>2. HasDialog(w, s) => DialogOf[s] \in Sessions
  BY WindowsAssumption DEF HasDialog, Sessions, Apps
<1>3. QED BY <1>1, <1>2, AnswersAreTyped DEF ProcessDialogRequestFocusImmediately

LEMMA RequestImmediatelyTyped ==
  ASSUME NEW w, NEW f \in Group, NEW s \in Sessions, NEW block, NEW reason
  PROVE  Answer(RequestSessionFocusImmediately(w, f, s, block, reason))
<1> DEFINE dialog == ProcessDialogRequestFocusImmediately(w, f, s)
<1>1. dialog.f \in Group
  BY DialogTyped DEF Answer
<1>2. Answer(Refused(f)) /\ Answer(Refused(dialog.f))
  BY <1>1, AnswersAreTyped
<1>3. Answer(Done(ShiftFocusImmediately(w, f, s, block)))
  BY ShiftFocusImmediatelyTyped, AnswersAreTyped
<1>4. QED BY <1>2, <1>3 DEF RequestSessionFocusImmediately

LEMMA RequestTyped ==
  ASSUME NEW w, NEW f \in Group, NEW s \in Sessions \cup {None}, NEW b, NEW reason
  PROVE  Answer(RequestSessionFocus(w, f, s, b, reason))
<1> DEFINE dialog == ProcessDialogRequestFocusImmediately(w, f, s)
<1>1. dialog.f \in Group
  BY DialogTyped DEF Answer
<1>2. Answer(Refused(f)) /\ Answer(Refused(dialog.f))
  BY <1>1, AnswersAreTyped
<1>3. Answer(Done(ShiftFocus(w, CarryBlock(f), s)))
  BY CarryBlockTyped, ShiftFocusTyped, AnswersAreTyped
<1>4. QED BY <1>2, <1>3 DEF RequestSessionFocus

LEMMA NextFocusableTyped ==
  ASSUME NEW w, Shown(w), NEW s
  PROVE  GetNextFocusableSession(w, s) \in Sessions \cup {None}
<1> DEFINE below == { t \in Sessions : /\ Above(w, s, t) /\ VisibleNotBackground(w, t)
                                       /\ ParentVisible(w, t) }
           floats == IF ~w.freeMulti /\ s \in Mains \ Floating
                       THEN Floating \cap w.visible ELSE {}
<1>1. \A S \in SUBSET Sessions : S # {} => Highest(w, S) \in S
  BY HighestIsThere DEF Shown, WellFormed
<1>2. below \in SUBSET Sessions
  OBVIOUS
<1>3. floats \in SUBSET Sessions
  BY DEF Shown
<1>4. GetNextFocusableSession(w, s) =
        LET next == IF below = {} THEN None ELSE Highest(w, below)
        IN  IF next \in Desktops /\ floats # {} THEN Highest(w, floats) ELSE next
  BY DEF GetNextFocusableSession
<1> HIDE DEF below, floats
<1>5. below # {} => Highest(w, below) \in Sessions
  BY <1>1, <1>2
<1>6. floats # {} => Highest(w, floats) \in Sessions
  BY <1>1, <1>3
<1>7. QED BY <1>4, <1>5, <1>6

LEMMA LastFocusedTyped ==
  ASSUME NEW w, NEW f \in Group, NEW focused, NEW next
  PROVE  Answer(CheckLastFocusedAppSessionFocus(w, f, focused, next))
<1> DEFINE r == RequestSessionFocus(w, f, f.lastApp, FALSE, "DEFAULT")
<1>1. Answer(r)
  <2>1. f.lastApp \in Sessions \cup {None}
    BY DEF Group
  <2>2. QED BY <2>1, RequestTyped
<1> HIDE DEF r
<1>2. [r.f EXCEPT !.lastApp = None] \in Group
  BY <1>1 DEF Answer, Group
<1>3. Answer(Refused([r.f EXCEPT !.lastApp = None])) /\ Answer(Refused(f))
  BY <1>2, AnswersAreTyped
<1>4. QED BY <1>1, <1>3 DEF CheckLastFocusedAppSessionFocus, r

LEMMA GiveFocusUpTyped ==
  ASSUME NEW w, Shown(w), NEW f \in Group, NEW focused, NEW s
  PROVE  GiveFocusUp(w, f, focused, s) \in Group
<1> DEFINE next == GetNextFocusableSession(w, s)
           r == CheckLastFocusedAppSessionFocus(w, CarryBlock(f), focused, next)
           waits == next \in Apps /\ ~LifecycleForeground(w, next)
           g == [r.f EXCEPT !.blockFocus = @ \/ waits]
<1>1. r.f \in Group
  BY CarryBlockTyped, LastFocusedTyped DEF Answer
<1>2. waits \in BOOLEAN /\ next \in Sessions \cup {None}
  BY NextFocusableTyped
<1>3. GiveFocusUp(w, f, focused, s) = IF r.ok THEN r.f ELSE ShiftFocus(w, g, next)
  BY DEF GiveFocusUp
<1> HIDE DEF r, waits, next
<1>4. g \in Group
  BY <1>1, <1>2 DEF Group
<1> HIDE DEF g
<1>5. QED BY <1>1, <1>2, <1>3, <1>4, ShiftFocusTyped

LEMMA RequestUnfocusTyped ==
  ASSUME NEW w, Shown(w), NEW f \in Group, NEW s
  PROVE  Answer(RequestSessionUnfocus(w, f, s))
<1> DEFINE back == IF f.focused \in PopMenus /\ f.last \in Desktops
                     THEN RequestSessionFocus(w, f, f.last, FALSE, "DEFAULT")
                     ELSE Refused(f)
<1>1. f.last \in Sessions \cup {None}
  BY DEF Group
<1>2. Answer(back)
  BY <1>1, RequestTyped, AnswersAreTyped
<1> HIDE DEF back
<1>3. Answer(Done(GiveFocusUp(w, back.f, f.focused, s)))
  BY <1>2, GiveFocusUpTyped, AnswersAreTyped DEF Answer
<1>4. QED BY <1>2, <1>3, AnswersAreTyped DEF RequestSessionUnfocus, back

LEMMA TopNonAppTyped ==
  ASSUME NEW w, Shown(w)
  PROVE  GetTopFocusableNonAppSession(w) \in Sessions \cup {None}
<1> DEFINE reached == { t \in Systems : \A a \in Apps : Above(w, t, a) => w.z[a] = 0 }
           seen == { t \in reached : VisibleForeground(w, t) }
<1>1. seen \in SUBSET Sessions
  BY DEF Sessions
<1>2. GetTopFocusableNonAppSession(w) = IF seen = {} THEN None ELSE Highest(w, seen)
  BY DEF GetTopFocusableNonAppSession
<1> HIDE DEF seen
<1>3. seen # {} => Highest(w, seen) \in seen
  BY <1>1, HighestIsThere DEF Shown, WellFormed
<1>4. QED BY <1>1, <1>2, <1>3

-----------------------------------------------------------------------------
(* The queue of a flush.  A finite set that is ordered strictly and        *)
(* totally has an element of every rank: the ranks are all different, and  *)
(* there are as many of them as elements.                                  *)
RankIn(S, P, s) == Cardinality({ t \in S : P[t][s] }) + 1

LEMMA StrictlyLess ==
  ASSUME NEW a \in Nat, NEW b \in Nat, a <= b, b # a PROVE a < b
OBVIOUS

LEMMA RanksIncrease ==
  ASSUME NEW S, IsFiniteSet(S), NEW P \in [S -> [S -> BOOLEAN]],
         \A s \in S : ~P[s][s],
         \A r, s, t \in S : P[r][s] /\ P[s][t] => P[r][t]
  PROVE  /\ \A s \in S : RankIn(S, P, s) \in 1..Cardinality(S)
         /\ \A s, t \in S : P[s][t] => RankIn(S, P, s) < RankIn(S, P, t)
<1> DEFINE Lower(s) == { t \in S : P[t][s] }
           n == Cardinality(S)
<1>1. n \in Nat
  BY FS_CardinalityType
<1>2. \A s \in S : IsFiniteSet(Lower(s)) /\ Cardinality(Lower(s)) \in Nat
  BY FS_Subset, FS_CardinalityType
<1>3. \A s \in S : Cardinality(Lower(s)) < n
  <2> SUFFICES ASSUME NEW s \in S PROVE Cardinality(Lower(s)) < n
    OBVIOUS
  <2>1. Lower(s) \in SUBSET S /\ s \notin Lower(s)
    OBVIOUS
  <2>2. Cardinality(Lower(s)) \in Nat
    BY <1>2
  <2> HIDE DEF Lower
  <2>3. /\ Cardinality(Lower(s)) <= Cardinality(S)
        /\ Cardinality(S) = Cardinality(Lower(s)) => S = Lower(s)
    BY <2>1, FS_Subset
  <2>4. Cardinality(S) # Cardinality(Lower(s))
    BY <2>1, <2>3
  <2>5. Cardinality(S) \in Nat
    BY <1>1
  <2>6. QED BY <2>2, <2>3, <2>4, <2>5, StrictlyLess
<1>4. ASSUME NEW s \in S, NEW t \in S, P[s][t]
      PROVE  Cardinality(Lower(s)) < Cardinality(Lower(t))
  <2>1. Lower(s) \in SUBSET Lower(t) /\ s \in Lower(t) /\ s \notin Lower(s)
    BY <1>4
  <2>2. /\ IsFiniteSet(Lower(t))
        /\ Cardinality(Lower(s)) \in Nat /\ Cardinality(Lower(t)) \in Nat
    BY <1>2
  <2> HIDE DEF Lower
  <2>3. /\ Cardinality(Lower(s)) <= Cardinality(Lower(t))
        /\ Cardinality(Lower(t)) = Cardinality(Lower(s)) => Lower(t) = Lower(s)
    BY <2>1, <2>2, FS_Subset
  <2>4. Cardinality(Lower(t)) # Cardinality(Lower(s))
    BY <2>1, <2>3
  <2>5. QED BY <2>2, <2>3, <2>4, StrictlyLess
<1>5. \A s \in S : RankIn(S, P, s) = Cardinality(Lower(s)) + 1
  BY DEF RankIn
<1> HIDE DEF Lower
<1>6. QED BY <1>1, <1>2, <1>3, <1>4, <1>5

LEMMA RanksAreAllThere ==
  ASSUME NEW S, IsFiniteSet(S), NEW P \in [S -> [S -> BOOLEAN]],
         \A s \in S : ~P[s][s],
         \A s, t \in S : s # t => P[s][t] \/ P[t][s],
         \A r, s, t \in S : P[r][s] /\ P[s][t] => P[r][t],
         NEW i \in 1..Cardinality(S)
  PROVE  \E s \in S : RankIn(S, P, s) = i
<1> DEFINE rank == [s \in S |-> RankIn(S, P, s)]
           n == Cardinality(S)
<1>1. n \in Nat
  BY FS_CardinalityType
<1>2. /\ \A s \in S : rank[s] \in 1..n
      /\ \A s, t \in S : P[s][t] => rank[s] < rank[t]
  BY RanksIncrease
<1>3. rank \in [S -> 1..n] /\ DOMAIN rank = S
  BY <1>2
<1>4. ASSUME NEW s \in S, NEW t \in S, rank[s] = rank[t] PROVE s = t
  <2>1. rank[s] \in 1..n /\ rank[t] \in 1..n
    BY <1>3
  <2> HIDE DEF rank
  <2>2. ~P[s][t] /\ ~P[t][s]
    BY <1>2, <1>4, <2>1
  <2>3. QED BY <2>2
<1> HIDE DEF rank
<1>5. rank \in Injection(S, 1..n)
  BY <1>3, <1>4 DEF Injection, IsInjective
<1>6. IsFiniteSet(1..n) /\ Cardinality(1..n) = n
  BY <1>1, FS_Interval
<1>7. rank \in Surjection(S, 1..n)
  BY <1>5, <1>6, FS_Injection
<1>8. PICK s \in S : rank[s] = i
  BY <1>7 DEF Surjection
<1>9. QED BY <1>8 DEF rank

(* Who is processed in a flush, and in which order.                        *)
Asking(w, p) == { s \in Sessions : p[s].enabled /\ (p[s].isFocused => s \in w.visible) }

Sooner(w, p, s, t) ==
  IF p[s].isFocused # p[t].isFocused THEN p[s].isFocused ELSE Above(w, s, t)

InTurn(w, p, q) == \A i, k \in 1..Len(q) : i < k => Sooner(w, p, q[i], q[k])

LEMMA SoonerIsOrder ==
  ASSUME NEW w, Shown(w), NEW p \in [Sessions -> PostState]
  PROVE  /\ \A s, t \in Sessions : Sooner(w, p, s, t) \in BOOLEAN
         /\ \A s \in Sessions : ~Sooner(w, p, s, s)
         /\ \A s, t \in Sessions : s # t => Sooner(w, p, s, t) \/ Sooner(w, p, t, s)
         /\ \A r, s, t \in Sessions :
              Sooner(w, p, r, s) /\ Sooner(w, p, s, t) => Sooner(w, p, r, t)
<1>1. \A s \in Sessions : p[s].isFocused \in BOOLEAN /\ w.z[s] \in Nat
  BY DEF PostState, Shown, WellFormed
<1>2. ASSUME NEW s \in Sessions, NEW t \in Sessions PROVE Sooner(w, p, s, t) \in BOOLEAN
  <2>1. Above(w, s, t) \in BOOLEAN
    BY DEF Above
  <2>2. QED BY <1>1, <2>1 DEF Sooner
<1>3. \A s \in Sessions : ~Sooner(w, p, s, s)
  BY <1>1 DEF Above, Sooner
<1>4. ASSUME NEW s \in Sessions, NEW t \in Sessions, s # t
      PROVE  Sooner(w, p, s, t) \/ Sooner(w, p, t, s)
  <2>1. w.z[s] # w.z[t]
    BY <1>4 DEF Shown, WellFormed, IsInjective
  <2>2. QED BY <1>1, <2>1 DEF Above, Sooner
<1>5. ASSUME NEW r \in Sessions, NEW s \in Sessions, NEW t \in Sessions,
             Sooner(w, p, r, s), Sooner(w, p, s, t)
      PROVE  Sooner(w, p, r, t)
  BY <1>1, <1>5 DEF Above, Sooner
<1>6. QED BY <1>2, <1>3, <1>4, <1>5

LEMMA QueueIsSorted ==
  ASSUME NEW w, Shown(w), NEW p \in [Sessions -> PostState],
         NEW q, q = CollectProcessingSessions(w, p)
  PROVE  /\ q \in Seq(Sessions)
         /\ Range(q) = Asking(w, p)
         /\ InTurn(w, p, q)
<1> DEFINE S == Asking(w, p)
           P == [s \in S |-> [t \in S |-> Sooner(w, p, s, t)]]
           n == Cardinality(S)
<1>1. S \subseteq Sessions /\ IsFiniteSet(S) /\ n \in Nat
  BY WindowsAssumption, FS_Subset, FS_CardinalityType DEF Asking
<1> HIDE DEF S, n
<1>2. P \in [S -> [S -> BOOLEAN]] /\ \A s, t \in S : P[s][t] = Sooner(w, p, s, t)
  BY <1>1, SoonerIsOrder
<1> HIDE DEF P
<1>3. /\ \A s \in S : ~P[s][s]
      /\ \A s, t \in S : s # t => P[s][t] \/ P[t][s]
      /\ \A r, s, t \in S : P[r][s] /\ P[s][t] => P[r][t]
  BY <1>1, <1>2, SoonerIsOrder
<1>4. \A i \in 1..n : \E s \in S : RankIn(S, P, s) = i
  BY <1>1, <1>2, <1>3, RanksAreAllThere DEF n
<1>5. /\ \A s \in S : RankIn(S, P, s) \in 1..n
      /\ \A s, t \in S : P[s][t] => RankIn(S, P, s) < RankIn(S, P, t)
  BY <1>1, <1>2, <1>3, RanksIncrease DEF n
<1>6. q = [ i \in 1..n |-> CHOOSE s \in S : RankIn(S, P, s) = i ]
  <2> DEFINE Rank(s) == Cardinality({ t \in S : Sooner(w, p, t, s) }) + 1
  <2>1. q = [ i \in 1..n |-> CHOOSE s \in S : Rank(s) = i ]
    BY DEF CollectProcessingSessions, Asking, Sooner, S, n
  <2>2. \A s \in S : Rank(s) = RankIn(S, P, s)
    <3>1. ASSUME NEW s \in S PROVE { t \in S : P[t][s] } = { t \in S : Sooner(w, p, t, s) }
      BY <1>2
    <3>2. QED BY <3>1 DEF RankIn
  <2> HIDE DEF Rank
  <2>3. ASSUME NEW i \in 1..n
        PROVE  (CHOOSE s \in S : Rank(s) = i) = (CHOOSE s \in S : RankIn(S, P, s) = i)
    BY <2>2
  <2>4. QED BY <2>1, <2>3
<1>7. /\ q \in [1..n -> S] /\ DOMAIN q = 1..n
      /\ \A i \in 1..n : q[i] \in S /\ RankIn(S, P, q[i]) = i
  BY <1>4, <1>6
<1>8. q \in Seq(Sessions) /\ Len(q) = n
  BY <1>1, <1>7
<1>9. ASSUME NEW s \in S PROVE s \in Range(q)
  <2>1. PICK i \in 1..n : RankIn(S, P, s) = i
    BY <1>5
  <2>2. q[i] = s
    <3>1. q[i] \in S /\ RankIn(S, P, q[i]) = RankIn(S, P, s) /\ RankIn(S, P, s) \in Nat
      BY <1>7, <2>1
    <3>2. ~P[q[i]][s] /\ ~P[s][q[i]]
      BY <1>5, <3>1
    <3>3. QED BY <1>3, <3>1, <3>2
  <2>3. QED BY <1>7, <2>2 DEF Range
<1>10. Range(q) = S
  BY <1>7, <1>9 DEF Range
<1>11. ASSUME NEW i \in 1..n, NEW k \in 1..n, i < k
       PROVE  Sooner(w, p, q[i], q[k])
  <2>1. /\ q[i] \in S /\ q[k] \in S
        /\ RankIn(S, P, q[i]) = i /\ RankIn(S, P, q[k]) = k
    BY <1>7
  <2>2. ~P[q[k]][q[i]] /\ q[i] # q[k]
    BY <1>5, <1>11, <2>1
  <2>3. QED BY <1>2, <1>3, <2>1, <2>2
<1>12. InTurn(w, p, q)
  BY <1>8, <1>11 DEF InTurn
<1>13. QED BY <1>8, <1>10, <1>12 DEF S

-----------------------------------------------------------------------------
(* The type invariant, which is inductive by itself.                       *)
Typed ==
  /\ Shown(win) /\ focus \in Group
  /\ post \in [Sessions -> PostState] /\ starting \subseteq Mains
  /\ property \subseteq WithDialog /\ loop \in Loop

LEMMA InitTyped == Init => Typed
<1> SUFFICES ASSUME Init PROVE Typed
  OBVIOUS
<1>1. Shown(win)
  <2>1. win.visible = {} /\ win.freeMulti \in BOOLEAN
    BY KindsAssumption DEF Init
  <2>2. QED BY <2>1, InitInv DEF Inv, Shown
<1>2. focus \in Group
  BY DEF Init, Group
<1>3. NoPost \in PostState
  BY DEF NoPost, PostState, Reason
<1>4. post \in [Sessions -> PostState] /\ starting \subseteq Mains
      /\ property \subseteq WithDialog
  BY <1>3 DEF Init
<1>5. loop \in Loop
  BY DEF Init, NoLoop, Loop
<1>6. QED BY <1>1, <1>2, <1>4, <1>5 DEF Typed

(* A request that is left for the flush.                                   *)
LEMMA ParkedTyped ==
  ASSUME NEW e \in BOOLEAN, NEW i \in BOOLEAN, NEW b \in BOOLEAN, NEW r \in Reason,
         post \in [Sessions -> PostState], NEW s
  PROVE  [post EXCEPT ![s] = [ enabled |-> e, isFocused |-> i, byForeground |-> b,
                               reason |-> r ]] \in [Sessions -> PostState]
<1> DEFINE p == [ enabled |-> e, isFocused |-> i, byForeground |-> b, reason |-> r ]
<1>1. p \in PostState
  BY DEF PostState
<1> HIDE DEF p
<1>2. [post EXCEPT ![s] = p] \in [Sessions -> PostState]
  BY <1>1
<1>3. QED BY <1>2 DEF p

LEMMA RequestActionsTyped ==
  ASSUME Typed, NEW s \in Sessions,
         \/ RequestFocusStatus(s)
         \/ RequestUnfocusStatus(s)
         \/ RequestAllAppSessionUnfocus
         \/ s \in Mains /\ RequestSceneSessionActivation(s)
         \/ \E b \in BOOLEAN, r \in ScbReasons : RequestFocusStatusBySCB(s, b, r)
  PROVE  Typed'
<1>1. ScbReasons \subseteq Reason /\ {"SCB_START_APP", "FORCE_FOCUSED"} \subseteq Reason
  BY RequestsAssumption DEF Reason
<1>2. focus \in Group /\ Shown(win) /\ post \in [Sessions -> PostState]
  BY DEF Typed
<1>3. \A reason : RequestSessionFocusImmediately(win, focus, s, TRUE, reason).f \in Group
  BY <1>2, RequestImmediatelyTyped DEF Answer
<1>4. \A c, reason : RequestSessionFocus(win, focus, s, c, reason).f \in Group
  BY <1>2, RequestTyped DEF Answer
<1>5. [post EXCEPT ![s] = [ enabled |-> TRUE, isFocused |-> TRUE,
         byForeground |-> TRUE, reason |-> "SCB_START_APP" ]] \in [Sessions -> PostState]
  BY <1>1, <1>2, ParkedTyped
<1>6. CASE RequestFocusStatus(s)
  <2>1. focus' \in Group /\ UNCHANGED <<win, post, starting, property, loop>>
    BY <1>4, <1>6 DEF RequestFocusStatus, SetFocus
  <2>2. QED BY <2>1 DEF Typed
<1>7. CASE RequestUnfocusStatus(s)
  <2>1. focus' \in Group /\ UNCHANGED <<win, post, starting, property, loop>>
    BY <1>2, <1>7, RequestUnfocusTyped DEF RequestUnfocusStatus, SetFocus, Answer
  <2>2. QED BY <2>1 DEF Typed
<1>8. ASSUME NEW b \in BOOLEAN, NEW r \in ScbReasons, RequestFocusStatusBySCB(s, b, r)
      PROVE  Typed'
  <2>1. UNCHANGED <<win, starting, property, loop>>
    BY <1>8 DEF RequestFocusStatusBySCB
  <2>2. Park(s, b, r) => post' \in [Sessions -> PostState]
    <3>1. [post EXCEPT ![s] = [ enabled |-> TRUE, isFocused |-> TRUE,
             byForeground |-> b, reason |-> r ]] \in [Sessions -> PostState]
      BY <1>1, <1>2, ParkedTyped
    <3>2. QED BY <1>2, <3>1 DEF Park
  <2>3. focus' \in Group /\ post' \in [Sessions -> PostState]
    <3>1. CASE r \in { "FOREGROUND", "FORCE_FOCUSED" }
      BY <1>2, <1>3, <1>8, <3>1 DEF RequestFocusStatusBySCB
    <3>2. CASE r = "MOVE_UP"
      BY <1>2, <1>8, <2>2, <3>2 DEF RequestFocusStatusBySCB
    <3>3. CASE r \notin { "FOREGROUND", "FORCE_FOCUSED", "MOVE_UP" }
      BY <1>2, <1>4, <1>8, <2>2, <3>3 DEF RequestFocusStatusBySCB
    <3>4. QED BY <3>1, <3>2, <3>3
  <2>4. QED BY <2>1, <2>3 DEF Typed
<1>9. CASE RequestAllAppSessionUnfocus
  <2>1. focus' = ShiftFocus(win, CarryBlock(focus), GetTopFocusableNonAppSession(win))
        /\ UNCHANGED <<win, post, starting, property, loop>>
    BY <1>9 DEF RequestAllAppSessionUnfocus, SetFocus
  <2>2. focus' \in Group
    BY <1>2, <2>1, CarryBlockTyped, TopNonAppTyped, ShiftFocusTyped
  <2>3. QED BY <2>1, <2>2 DEF Typed
<1>10. CASE s \in Mains /\ RequestSceneSessionActivation(s)
  <2>1. starting' \subseteq Mains /\ UNCHANGED <<win, property, loop>>
    BY <1>10 DEF RequestSceneSessionActivation, Typed
  <2>2. focus' \in Group /\ post' \in [Sessions -> PostState]
    BY <1>2, <1>3, <1>5, <1>10 DEF RequestSceneSessionActivation
  <2>3. QED BY <2>1, <2>2 DEF Typed
<1>11. QED BY <1>6, <1>7, <1>8, <1>9, <1>10

(* The windows after a step of a session's lifecycle.                      *)
LEMMA SetStateTyped ==
  ASSUME NEW w, Shown(w), NEW s \in Apps, NEW x \in State
  PROVE  Shown([w EXCEPT !.state[s] = x]) /\ Shown(Gone(w, s))
<1>1. WellFormed([w EXCEPT !.state[s] = x]) /\ WellFormed(Gone(w, s))
  BY SetStateFacts, GoneFacts DEF Shown
<1>2. /\ [w EXCEPT !.state[s] = x].visible = w.visible
      /\ [w EXCEPT !.state[s] = x].freeMulti = w.freeMulti
  BY DEF Shown, WellFormed, WinFields
<1>3. /\ Gone(w, s).visible = w.visible \ {s}
      /\ Gone(w, s).freeMulti = w.freeMulti
  BY DEF Shown, WellFormed, WinFields, Gone
<1>4. w.visible \ {s} \subseteq Sessions
  BY DEF Shown
<1>5. Shown([w EXCEPT !.state[s] = x])
  BY <1>1, <1>2 DEF Shown
<1>6. Shown(Gone(w, s))
  BY <1>1, <1>3, <1>4 DEF Shown
<1>7. QED BY <1>5, <1>6

LEMMA LifecycleActionsTyped ==
  ASSUME Typed, NEW s \in Apps,
         \/ Connect(s) \/ Foreground(s) \/ Pause(s) \/ Background(s)
         \/ DisconnectFromClient(s)
         \/ s \in Mains /\ RequestSceneSessionDestruction(s)
         \/ DestroyAndDisconnectSpecificSession(s)
  PROVE  Typed'
<1>1. focus \in Group /\ Shown(win) /\ post \in [Sessions -> PostState]
      /\ s \in Sessions /\ starting \subseteq Mains /\ property \subseteq WithDialog
  BY DEF Typed, Sessions
<1>2. { "CONNECT", "FOREGROUND", "INACTIVE", "BACKGROUND", "CLOSED", "DISCONNECT" }
        \subseteq State
  BY DEF State
<1>3. \A w, f : Shown(w) /\ f \in Group => RequestSessionUnfocus(w, f, s).f \in Group
  BY RequestUnfocusTyped DEF Answer
<1>4. [post EXCEPT ![s] = NoPost] \in [Sessions -> PostState]
  BY <1>1, ParkedTyped DEF NoPost, Reason
<1>5. CASE Connect(s) \/ Pause(s)
  <2>1. Shown(win')
    BY <1>1, <1>2, <1>5, SetStateTyped DEF Connect, Pause, SetState
  <2>2. UNCHANGED <<focus, post, starting, property, loop>>
    BY <1>5 DEF Connect, Pause
  <2>3. QED BY <2>1, <2>2 DEF Typed
<1>6. CASE Foreground(s)
  <2> DEFINE w == [win EXCEPT !.state[s] = "FOREGROUND"]
             waited == s \in Mains /\ s = focus.focused
             parks == ~waited /\ ~VisibleForeground(w, s)
             f == IF waited THEN ReleaseBlock(w, focus, s)
                  ELSE IF parks THEN focus
                  ELSE RequestSessionFocus(w, focus, s, TRUE, "APP_FOREGROUND").f
             q == [post EXCEPT ![s] = [ enabled |-> TRUE, isFocused |-> TRUE,
                      byForeground |-> TRUE, reason |-> "APP_FOREGROUND" ]]
  <2>1. Shown(w)
    BY <1>1, <1>2, SetStateTyped
  <2>2. /\ win' = w /\ post' \in { post, q }
        /\ focus' = IF VisibleForeground(w, s) THEN SubSessionForeground(w, f, s) ELSE f
        /\ starting' = starting \ {s} /\ loop' = loop
        /\ property' \subseteq property \cup ({s} \cap WithDialog)
    BY <1>6 DEF Foreground
  <2> HIDE DEF w
  <2>3. f \in Group
    BY <1>1, ReleaseBlockTyped, RequestTyped DEF Answer
  <2> HIDE DEF f
  <2>4. focus' \in Group
    BY <2>2, <2>3, SubSessionForegroundTyped
  <2>5. q \in [Sessions -> PostState]
    BY <1>1, ParkedTyped DEF Reason
  <2> HIDE DEF q
  <2>6. QED BY <1>1, <2>1, <2>2, <2>4, <2>5 DEF Typed
<1>7. CASE Background(s)
  <2>1. Shown(win')
    BY <1>1, <1>2, <1>7, SetStateTyped DEF Background, SetState
  <2>2. focus' \in Group
    BY <1>1, <1>3, <1>7, <2>1 DEF Background
  <2>3. starting' \subseteq Mains /\ UNCHANGED <<post, property, loop>>
    BY <1>1, <1>7 DEF Background
  <2>4. QED BY <2>1, <2>2, <2>3 DEF Typed
<1>8. CASE DisconnectFromClient(s)
  <2>1. Shown(win')
    BY <1>1, <1>2, <1>8, SetStateTyped DEF DisconnectFromClient, SetState
  <2>2. focus' \in Group /\ UNCHANGED <<post, starting, property, loop>>
    BY <1>1, <1>8, ForgetTyped DEF DisconnectFromClient
  <2>3. QED BY <2>1, <2>2 DEF Typed
<1>9. CASE s \in Mains /\ RequestSceneSessionDestruction(s)
  <2> DEFINE d == DialogOf[s]
             below == [win EXCEPT !.state[d] = "BACKGROUND"]
             first == RequestSessionUnfocus(win, focus, s).f
             second == RequestSessionUnfocus(below, first, d).f
             alone == IF HasDialog(win, s) THEN Gone(win, d) ELSE win
             w == [alone EXCEPT !.state[s] = "BACKGROUND"]
             kept == IF HasDialog(win, s) THEN second ELSE first
  <2>1. /\ focus' = RequestSessionUnfocus(w, kept, s).f
        /\ win' = [w EXCEPT !.state[s] = "DISCONNECT"]
        /\ post' \in { post, [post EXCEPT ![d] = NoPost] }
        /\ starting' = starting \ {s} /\ property' = property \ {s} /\ loop' = loop
    BY <1>9 DEF RequestSceneSessionDestruction
  <2>2. HasDialog(win, s) => d \in Apps
    BY WindowsAssumption DEF HasDialog, Apps
  <2>3. HasDialog(win, s) => Shown(below) /\ Shown(Gone(win, d))
    BY <1>1, <1>2, <2>2, SetStateTyped
  <2>4. first \in Group
    BY <1>1, <1>3
  <2> HIDE DEF first, below
  <2>5. HasDialog(win, s) => second \in Group
    BY <2>3, <2>4, RequestUnfocusTyped DEF Answer
  <2> HIDE DEF second
  <2>6. Shown(alone) /\ kept \in Group
    BY <1>1, <2>3, <2>4, <2>5
  <2> HIDE DEF alone, kept
  <2>7. Shown(w)
    BY <1>2, <2>6, SetStateTyped
  <2> HIDE DEF w
  <2>8. focus' \in Group /\ Shown(win')
    BY <1>2, <1>3, <2>1, <2>6, <2>7, SetStateTyped
  <2>9. [post EXCEPT ![d] = NoPost] \in [Sessions -> PostState]
    BY <1>1, ParkedTyped DEF NoPost, Reason
  <2>10. QED BY <1>1, <2>1, <2>8, <2>9 DEF Typed
<1>10. CASE DestroyAndDisconnectSpecificSession(s)
  <2>1. Shown(win')
    BY <1>1, <1>2, <1>10, SetStateTyped DEF DestroyAndDisconnectSpecificSession
  <2>2. focus' \in Group
    BY <1>1, <1>3, <1>10, <2>1, ForgetTyped DEF DestroyAndDisconnectSpecificSession
  <2>3. post' \in [Sessions -> PostState] /\ UNCHANGED <<starting, property, loop>>
    BY <1>4, <1>10 DEF DestroyAndDisconnectSpecificSession
  <2>4. QED BY <2>1, <2>2, <2>3 DEF Typed
<1>11. QED BY <1>5, <1>6, <1>7, <1>8, <1>9, <1>10

(* What the flush leaves for the loop.                                     *)
LEMMA UpdateUIParamTyped ==
  ASSUME Typed, NEW w, NEW s \in Sessions
  PROVE  UpdateUIParam(w, s) \in PostState
<1> DEFINE reason == IF s \in starting THEN "SCB_START_APP" ELSE "FOREGROUND"
           p == post[s]
           wants == [p EXCEPT !.enabled = TRUE, !.isFocused = TRUE, !.reason = reason]
           gives == [p EXCEPT !.enabled = TRUE, !.isFocused = FALSE,
                              !.reason = "BACKGROUND"]
<1>1. p \in PostState
  BY DEF Typed
<1>2. reason \in Reason /\ "BACKGROUND" \in Reason
  BY DEF Reason
<1>3. UpdateUIParam(w, s) \in { p, wants, gives }
  BY DEF UpdateUIParam
<1> HIDE DEF p, reason
<1>4. wants \in PostState /\ gives \in PostState
  BY <1>1, <1>2 DEF PostState
<1>5. QED BY <1>1, <1>3, <1>4

LEMMA EndFlushTyped ==
  ASSUME Typed, NEW w, NEW f \in Group, EndFlush(w, f)
  PROVE  focus' \in Group /\ property' \subseteq WithDialog
<1>1. focus' \in Group
  BY EndFlushGives, SubSessionForegroundTyped
<1>2. property' \subseteq WithDialog
  BY DEF EndFlush, Typed
<1>3. QED BY <1>1, <1>2

LEMMA FlushTyped ==
  ASSUME Typed, NEW v \in SUBSET Sessions, NEW z \in ZOrders, FlushUIParams(v, z)
  PROVE  Typed'
<1> DEFINE heights == [s \in Sessions |-> IF s \in v THEN z[s] ELSE win.z[s]]
           w == [win EXCEPT !.visible = v, !.z = heights]
           q == CollectProcessingSessions(w, post')
<1>1. /\ win' = w /\ IsInjective(w.z)
      /\ post' = [s \in Sessions |-> UpdateUIParam(w, s)]
      /\ \E f \in { focus, [focus EXCEPT !.lastApp = None] } : EndFlush(w, f)
      /\ loop' = [ queue |-> q, changed |-> FALSE, base |-> focus.focused ]
      /\ starting' = starting
  BY DEF FlushUIParams
<1>2. heights \in [Sessions -> Nat]
  BY RequestsAssumption DEF Typed, Shown, WellFormed
<1> HIDE DEF heights
<1>3. /\ w = [x \in WinFields |-> w[x]]
      /\ w.state = win.state /\ w.z = heights
      /\ w.visible = v /\ w.freeMulti = win.freeMulti
  BY DEF Typed, Shown, WellFormed, WinFields
<1> HIDE DEF w
<1>4. Shown(w)
  BY <1>1, <1>2, <1>3 DEF Typed, Shown, WellFormed
<1>5. focus' \in Group /\ property' \subseteq WithDialog
  <2>1. [focus EXCEPT !.lastApp = None] \in Group /\ focus \in Group
    BY DEF Typed, Group
  <2>2. QED BY <1>1, <2>1, EndFlushTyped
<1>6. post' \in [Sessions -> PostState]
  BY <1>1, UpdateUIParamTyped
<1>7. q \in Seq(Sessions)
  BY <1>4, <1>6, QueueIsSorted
<1>8. focus.focused \in Sessions \cup {None}
  BY DEF Typed, Group
<1> HIDE DEF q
<1>9. loop' \in Loop
  BY <1>1, <1>7, <1>8 DEF Loop
<1>10. QED BY <1>1, <1>4, <1>5, <1>6, <1>9 DEF Typed

(* A round of the loop.                                                    *)
LEMMA PostProcessTyped ==
  ASSUME Typed, NEW s \in Sessions, PostProcessFocus(s) PROVE Typed'
<1> DEFINE p == post[s]
           x == IF p.reason = "SCB_START_APP"
                  THEN RequestSessionFocusImmediately(win, focus, s, TRUE, p.reason)
                  ELSE RequestSessionFocus(win, focus, s,
                         p.reason = "RECENT" => p.byForeground, p.reason)
           y == [x EXCEPT !.f = SubSessionForeground(win, @, s)]
           r == IF loop.changed THEN Refused(focus) ELSE ProcessFocusState(s)
           rest == Tail(loop.queue)
<1>1. focus \in Group /\ Shown(win) /\ loop \in Loop
  BY DEF Typed
<1>2. Answer(x)
  BY <1>1, RequestImmediatelyTyped, RequestTyped
<1>3. ProcessFocusState(s) \in { RequestSessionUnfocus(win, focus, s), x, y }
  BY DEF ProcessFocusState
<1> HIDE DEF x
<1>4. Answer(y)
  <2> DEFINE g == SubSessionForeground(win, x.f, s)
  <2>1. g \in Group
    BY <1>2, SubSessionForegroundTyped DEF Answer
  <2>2. y = [x EXCEPT !.f = g]
    OBVIOUS
  <2> HIDE DEF g, y
  <2>3. QED BY <1>2, <2>1, <2>2 DEF Answer
<1> HIDE DEF y
<1>5. Answer(ProcessFocusState(s))
  BY <1>1, <1>2, <1>3, <1>4, RequestUnfocusTyped
<1>6. Answer(r)
  BY <1>1, <1>5, AnswersAreTyped
<1>7. /\ loop.queue # <<>> /\ UNCHANGED <<win, starting>>
      /\ EndFlush(win, r.f) /\ post' = [post EXCEPT ![s] = NoPost]
      /\ loop' = IF rest = <<>> THEN NoLoop
                 ELSE [loop EXCEPT !.queue = rest, !.changed = @ \/ r.ok]
  BY DEF PostProcessFocus
<1> HIDE DEF r
<1>8. loop.queue \in Seq(Sessions) /\ loop.changed \in BOOLEAN
  BY <1>1 DEF Loop
<1>9. rest \in Seq(Sessions)
  BY <1>7, <1>8
<1>10. loop.changed \/ r.ok \in BOOLEAN
  BY <1>6, <1>8 DEF Answer
<1> HIDE DEF rest
<1>11. loop' \in Loop
  <2>1. NoLoop \in Loop
    BY DEF NoLoop, Loop
  <2>2. ASSUME NEW c \in BOOLEAN PROVE [loop EXCEPT !.queue = rest, !.changed = c] \in Loop
    BY <1>1, <1>9 DEF Loop
  <2>3. QED BY <1>7, <1>10, <2>1, <2>2
<1>12. post' \in [Sessions -> PostState]
  BY <1>7, ParkedTyped DEF Typed, NoPost, Reason
<1>13. focus' \in Group /\ property' \subseteq WithDialog
  BY <1>6, <1>7, EndFlushTyped DEF Answer
<1>14. QED BY <1>7, <1>11, <1>12, <1>13 DEF Typed

LEMMA NextTyped == Typed /\ [Next]_vars => Typed'
<1> SUFFICES ASSUME Typed, [Next]_vars PROVE Typed'
  OBVIOUS
<1>1. CASE UNCHANGED vars
  BY <1>1 DEF vars, Typed
<1>2. MayPause \subseteq Apps /\ MayDisconnect \subseteq Apps
      /\ Mains \subseteq Apps /\ Mains \subseteq Sessions
  BY KindsAssumption DEF Apps, Sessions
<1>3. CASE \/ \E s \in Sessions :
                \/ RequestFocusStatus(s) \/ RequestUnfocusStatus(s)
                \/ \E b \in BOOLEAN, r \in ScbReasons : RequestFocusStatusBySCB(s, b, r)
           \/ \E m \in Mains : RequestSceneSessionActivation(m)
  BY <1>2, <1>3, RequestActionsTyped
<1>4. CASE RequestAllAppSessionUnfocus
  <2>1. PICK s \in Sessions : TRUE
    BY <1>4 DEF RequestAllAppSessionUnfocus, Sessions
  <2>2. QED BY <1>4, RequestActionsTyped
<1>5. CASE \/ \E s \in Apps : Connect(s) \/ Foreground(s) \/ Background(s)
           \/ \E m \in MayPause : Pause(m)
           \/ \E m \in MayDisconnect \cap Mains :
                DisconnectFromClient(m) \/ RequestSceneSessionDestruction(m)
           \/ \E d \in MayDisconnect \cap Dialogs : DestroyAndDisconnectSpecificSession(d)
  BY <1>2, <1>5, LifecycleActionsTyped
<1>6. QED BY <1>1, <1>3, <1>4, <1>5, FlushTyped, PostProcessTyped DEF Next

(* Whatever the windows and the requests, the focus group names sessions   *)
(* only, the clients that were told are applications', and what is left    *)
(* for the flush, its queue included, are sessions with a reason.          *)
THEOREM AlwaysTyped == Spec => []TypeOK
<1>1. Typed => TypeOK
  BY DEF Typed, Shown, WellFormed, TypeOK
<1>2. QED BY <1>1, InitTyped, NextTyped, PTL DEF Spec

-----------------------------------------------------------------------------
(* A flush serves everybody who asks, once, those that want the focus      *)
(* before those that give it up and each from the top: what is still to be *)
(* processed is what still asks, whatever the earlier rounds have moved.   *)
ServesInTurn ==
  /\ loop.queue # <<>> => Range(loop.queue) = Asking(win, post)
  /\ InTurn(win, post, loop.queue)

LEMMA IdleServes ==
  ASSUME loop'.queue = <<>> PROVE ServesInTurn'
BY DEF ServesInTurn, InTurn

LEMMA FlushServes ==
  ASSUME Typed, NEW v \in SUBSET Sessions, NEW z \in ZOrders, FlushUIParams(v, z)
  PROVE  ServesInTurn'
<1>1. Shown(win') /\ post' \in [Sessions -> PostState]
  BY FlushTyped DEF Typed
<1>2. loop'.queue = CollectProcessingSessions(win', post')
  BY DEF FlushUIParams
<1>3. Range(loop'.queue) = Asking(win', post') /\ InTurn(win', post', loop'.queue)
  BY <1>1, <1>2, QueueIsSorted
<1>4. QED BY <1>3 DEF ServesInTurn

LEMMA RoundServes ==
  ASSUME Typed, ServesInTurn, NEW s \in Sessions, PostProcessFocus(s)
  PROVE  /\ ServesInTurn'
         /\ loop'.queue = <<>> => Asking(win', post') = {}
<1> DEFINE q == loop.queue
           rest == Tail(q)
<1>1. /\ q \in Seq(Sessions) /\ q # <<>> /\ s = Head(q) /\ win' = win
      /\ post' = [post EXCEPT ![s] = NoPost] /\ post \in [Sessions -> PostState]
      /\ loop \in Loop /\ Shown(win)
  BY DEF PostProcessFocus, Typed, Loop
<1>2. loop'.queue = rest
  BY <1>1 DEF PostProcessFocus, Loop, NoLoop
<1>3. /\ Len(q) \in Nat /\ 1 \in 1..Len(q) /\ q[1] = s /\ DOMAIN q = 1..Len(q)
      /\ DOMAIN rest = 1..Len(rest)
      /\ \A i \in 1..Len(rest) : i + 1 \in 1..Len(q) /\ 1 < i + 1 /\ rest[i] = q[i + 1]
      /\ \A i \in 1..Len(q) : i = 1 \/ (i - 1 \in 1..Len(rest) /\ rest[i - 1] = q[i])
  BY <1>1
<1>4. \A i \in 1..Len(q) : q[i] \in Sessions
  BY <1>1
<1> HIDE DEF q, rest
<1>5. Range(q) = Asking(win, post) /\ InTurn(win, post, q)
  BY <1>1 DEF ServesInTurn, q
<1>6. \A i \in 1..Len(rest) : rest[i] \in Sessions /\ rest[i] # s
  <2> SUFFICES ASSUME NEW i \in 1..Len(rest) PROVE rest[i] \in Sessions /\ rest[i] # s
    OBVIOUS
  <2>1. rest[i] \in Sessions /\ Sooner(win, post, s, rest[i])
    BY <1>3, <1>4, <1>5 DEF InTurn
  <2>2. QED BY <1>1, <2>1, SoonerIsOrder
<1>7. \A t \in Sessions : post'[t] = IF t = s THEN NoPost ELSE post[t]
  BY <1>1
<1>8. Asking(win', post') = Asking(win, post) \ {s}
  BY <1>1, <1>7 DEF Asking, NoPost
<1>9. Range(rest) = Range(q) \ {s}
  <2>1. Range(rest) \subseteq Range(q) \ {s}
    BY <1>3, <1>6 DEF Range
  <2>2. ASSUME NEW i \in 1..Len(q), q[i] # s PROVE q[i] \in Range(rest)
    <3>1. i - 1 \in 1..Len(rest) /\ rest[i - 1] = q[i]
      BY <1>3, <2>2
    <3>2. QED BY <1>3, <3>1 DEF Range
  <2>3. ASSUME NEW t \in Range(q) \ {s} PROVE t \in Range(rest)
    <3>1. PICK i \in 1..Len(q) : q[i] = t
      BY <1>3 DEF Range
    <3>2. QED BY <2>2, <3>1
  <2>4. QED BY <2>1, <2>3
<1>10. Range(rest) = Asking(win', post')
  BY <1>5, <1>8, <1>9
<1>11. InTurn(win', post', rest)
  <2> SUFFICES ASSUME NEW i \in 1..Len(rest), NEW k \in 1..Len(rest), i < k
               PROVE  Sooner(win', post', rest[i], rest[k])
    BY DEF InTurn
  <2>1. i + 1 \in 1..Len(q) /\ k + 1 \in 1..Len(q) /\ i + 1 < k + 1
    BY <1>3
  <2>2. Sooner(win, post, rest[i], rest[k])
    BY <1>3, <1>5, <2>1 DEF InTurn
  <2>3. post'[rest[i]] = post[rest[i]] /\ post'[rest[k]] = post[rest[k]]
    BY <1>6, <1>7
  <2>4. QED BY <1>1, <2>2, <2>3 DEF Sooner
<1>12. rest = <<>> => Range(rest) = {}
  BY DEF Range
<1>13. QED BY <1>2, <1>10, <1>11, <1>12 DEF ServesInTurn

LEMMA NextServes == Typed /\ ServesInTurn /\ [Next]_vars => ServesInTurn'
<1> SUFFICES ASSUME Typed, ServesInTurn, [Next]_vars PROVE ServesInTurn'
  OBVIOUS
<1>1. ASSUME NEW s \in Sessions, PostProcessFocus(s) PROVE ServesInTurn'
  BY <1>1, RoundServes
<1>2. ASSUME NEW v \in SUBSET Sessions, NEW z \in ZOrders, FlushUIParams(v, z)
      PROVE  ServesInTurn'
  BY <1>2, FlushServes
<1>3. CASE Idle /\ loop' = loop
  BY <1>3, IdleServes DEF Idle
<1>4. CASE UNCHANGED vars
  BY <1>4 DEF vars, ServesInTurn, InTurn, Asking, Sooner, Above
<1>5. ASSUME NEW s \in Sessions,
             \/ RequestFocusStatus(s) \/ RequestUnfocusStatus(s)
             \/ \E b \in BOOLEAN, r \in ScbReasons : RequestFocusStatusBySCB(s, b, r)
      PROVE  Idle /\ loop' = loop
  BY <1>5 DEF RequestFocusStatus, RequestUnfocusStatus, RequestFocusStatusBySCB, SetFocus
<1>6. CASE \E m \in Mains : RequestSceneSessionActivation(m)
  BY <1>3, <1>6 DEF RequestSceneSessionActivation
<1>7. CASE \E s \in Apps : Connect(s) \/ Foreground(s) \/ Background(s)
  BY <1>3, <1>7 DEF Connect, Foreground, Background, SetState
<1>8. CASE \E m \in MayPause : Pause(m)
  BY <1>3, <1>8 DEF Pause, SetState
<1>9. CASE \E m \in MayDisconnect \cap Mains :
             DisconnectFromClient(m) \/ RequestSceneSessionDestruction(m)
  BY <1>3, <1>9 DEF DisconnectFromClient, RequestSceneSessionDestruction, SetState
<1>10. CASE \E d \in MayDisconnect \cap Dialogs : DestroyAndDisconnectSpecificSession(d)
  BY <1>3, <1>10 DEF DestroyAndDisconnectSpecificSession
<1>11. CASE RequestAllAppSessionUnfocus
  BY <1>3, <1>11 DEF RequestAllAppSessionUnfocus, SetFocus
<1>12. QED BY <1>1, <1>2, <1>3, <1>4, <1>5, <1>6, <1>7, <1>8, <1>9, <1>10, <1>11 DEF Next

LEMMA SpecServes == Spec => [](Typed /\ ServesInTurn)
<1>1. Init => ServesInTurn
  BY DEF Init, NoLoop, ServesInTurn, InTurn
<1>2. QED BY <1>1, InitTyped, NextTyped, NextServes, PTL DEF Spec

(* A request that is parked is processed in the next flush that shows its  *)
(* window, in its turn.                                                    *)
THEOREM FlushServesInTurn == Spec => []ServesInTurn
BY SpecServes, PTL

(* When the loop is done nothing is left that a flush would have to        *)
(* process, although the loop goes on after the focus has changed.         *)
LeavesNothing == loop.queue # <<>> /\ loop'.queue = <<>> => Asking(win', post') = {}

THEOREM FlushLeavesNothing == Spec => [][LeavesNothing]_vars
<1>1. Typed /\ ServesInTurn /\ [Next]_vars => [LeavesNothing]_vars
  <2> SUFFICES ASSUME Typed, ServesInTurn, Next, loop.queue # <<>>, loop'.queue = <<>>
               PROVE  Asking(win', post') = {}
    BY DEF LeavesNothing
  <2>1. PICK s \in Sessions : PostProcessFocus(s)
    BY DEF Next, Idle, RequestFocusStatus, RequestUnfocusStatus, RequestFocusStatusBySCB,
           SetFocus, RequestSceneSessionActivation, Connect, Foreground, Background,
           Pause, DisconnectFromClient, RequestSceneSessionDestruction,
           DestroyAndDisconnectSpecificSession, RequestAllAppSessionUnfocus, FlushUIParams
  <2>2. QED BY <2>1, RoundServes
<1>2. QED BY <1>1, SpecServes, PTL DEF Spec

-----------------------------------------------------------------------------
(* How often a flush changes the focus.  An operation that returns WS_OK   *)
(* counts; one that does not has left the focus alone, or has given it to  *)
(* the dialog of its main window, which is what the loop does not see.     *)
Counts(f, r) == r.ok \/ r.f.focused \in { f.focused } \cup Dialogs

LEMMA DialogCounts ==
  ASSUME NEW w, NEW f, NEW s, Agrees(f)
  PROVE  ProcessDialogRequestFocusImmediately(w, f, s).f.focused
           \in { f.focused } \cup Dialogs
<1>1. Refused(f).f = f /\ Done(f).f = f
  BY DEF Refused, Done
<1>2. ASSUME NEW d \in Dialogs
      PROVE  DialogFocusImmediately(w, f, d).f.focused \in { f.focused } \cup Dialogs
  <2> DEFINE g == ShiftFocusImmediately(w, f, d, FALSE)
  <2>1. g.focused = d
    BY ShiftFocusImmediatelyMoves
  <2> HIDE DEF g
  <2>2. Done(g).f = g
    BY DEF Done
  <2>3. QED BY <1>1, <2>1, <2>2 DEF DialogFocusImmediately, g
<1>3. HasDialog(w, s) => DialogOf[s] \in Dialogs
  BY WindowsAssumption DEF HasDialog
<1>4. QED BY <1>1, <1>2, <1>3 DEF ProcessDialogRequestFocusImmediately

LEMMA RequestImmediatelyCounts ==
  ASSUME NEW w, NEW f, NEW s, NEW block, NEW reason, Agrees(f)
  PROVE  Counts(f, RequestSessionFocusImmediately(w, f, s, block, reason))
<1> DEFINE dialog == ProcessDialogRequestFocusImmediately(w, f, s)
           g == ShiftFocusImmediately(w, f, s, block)
<1>1. Refused(f).f = f /\ Refused(dialog.f).f = dialog.f /\ Done(g).ok = TRUE
  BY DEF Refused, Done
<1>2. dialog.f.focused \in { f.focused } \cup Dialogs
  BY DialogCounts
<1>3. QED BY <1>1, <1>2 DEF RequestSessionFocusImmediately, Counts

LEMMA RequestCounts ==
  ASSUME NEW w, NEW f, NEW s, NEW b, NEW reason, Agrees(f)
  PROVE  Counts(f, RequestSessionFocus(w, f, s, b, reason))
<1> DEFINE dialog == ProcessDialogRequestFocusImmediately(w, f, s)
           g == ShiftFocus(w, CarryBlock(f), s)
<1>1. Refused(f).f = f /\ Refused(dialog.f).f = dialog.f /\ Done(g).ok = TRUE
  BY DEF Refused, Done
<1>2. dialog.f.focused \in { f.focused } \cup Dialogs
  BY DialogCounts
<1>3. QED BY <1>1, <1>2 DEF RequestSessionFocus, Counts

(* Giving the focus up is refused only before anything has changed.        *)
LEMMA RequestUnfocusCounts ==
  ASSUME NEW w, NEW f, NEW s
  PROVE  Counts(f, RequestSessionUnfocus(w, f, s))
BY DEF RequestSessionUnfocus, Counts, Refused, Done

LEMMA ProcessCounts ==
  ASSUME Agrees(focus), NEW s
  PROVE  Counts(focus, ProcessFocusState(s))
<1> DEFINE p == post[s]
           r == IF p.reason = "SCB_START_APP"
                  THEN RequestSessionFocusImmediately(win, focus, s, TRUE, p.reason)
                  ELSE RequestSessionFocus(win, focus, s,
                         p.reason = "RECENT" => p.byForeground, p.reason)
           sub == [r EXCEPT !.f = SubSessionForeground(win, @, s)]
<1>1. Counts(focus, r) /\ AgreesAnyway(r)
  BY RequestImmediatelyCounts, RequestCounts, RequestImmediatelyAgrees, RequestAgrees
<1>2. ProcessFocusState(s) \in { RequestSessionUnfocus(win, focus, s), sub, r }
  BY DEF ProcessFocusState
<1> HIDE DEF r
<1>3. SubSessionForeground(win, r.f, s).focused = r.f.focused
  BY <1>1, ReleaseBlockKeeps DEF AgreesAnyway
<1>4. sub.ok = r.ok /\ sub.f = SubSessionForeground(win, r.f, s)
  BY <1>1 DEF AgreesAnyway
<1>5. Counts(focus, sub)
  BY <1>1, <1>3, <1>4 DEF Counts
<1>6. QED BY <1>1, <1>2, <1>5, RequestUnfocusCounts

(* A focus that a flush has moved without counting it is a dialog's.       *)
UncountedIsDialog ==
  ~Idle /\ ~loop.changed => focus.focused \in { loop.base } \cup Dialogs

(* One round of the loop.                                                  *)
LEMMA RoundCounts ==
  ASSUME Agrees(focus), loop \in Loop, UncountedIsDialog, NEW s, PostProcessFocus(s)
  PROVE  /\ UncountedIsDialog'
         /\ loop.changed => focus'.focused = focus.focused
<1> DEFINE r == IF loop.changed THEN Refused(focus) ELSE ProcessFocusState(s)
<1>1. /\ EndFlush(win, r.f)
      /\ loop' = IF Tail(loop.queue) = <<>> THEN NoLoop
                 ELSE [loop EXCEPT !.queue = Tail(loop.queue), !.changed = @ \/ r.ok]
      /\ loop.queue # <<>>
  BY DEF PostProcessFocus
<1>2. loop.changed => r.f = focus
  BY DEF Refused
<1>3. ~loop.changed => Counts(focus, r)
  BY ProcessCounts
<1>4. Agrees(r.f)
  BY <1>2, ProcessAgrees
<1> HIDE DEF r
<1>5. focus'.focused = r.f.focused
  BY <1>1, <1>4, EndFlushKeeps
<1>6. CASE Idle'
  BY <1>2, <1>5, <1>6 DEF UncountedIsDialog
<1>7. CASE ~Idle'
  <2>1. /\ loop'.base = loop.base
        /\ loop'.changed = (loop.changed \/ r.ok)
    BY <1>1, <1>7 DEF Idle, NoLoop, Loop
  <2>2. QED BY <1>1, <1>2, <1>3, <1>5, <2>1 DEF UncountedIsDialog, Idle, Counts
<1>8. QED BY <1>6, <1>7

(* A flush starts with nothing changed, and in between nobody else runs.   *)
LEMMA NextCounts ==
  Agrees(focus) /\ Typed /\ UncountedIsDialog /\ [Next]_vars =>
    /\ UncountedIsDialog'
    /\ ~Idle /\ loop.changed => focus'.focused = focus.focused
<1> SUFFICES ASSUME Agrees(focus), Typed, UncountedIsDialog, [Next]_vars
             PROVE  /\ UncountedIsDialog'
                    /\ ~Idle /\ loop.changed => focus'.focused = focus.focused
  OBVIOUS
<1>1. ASSUME NEW s \in Sessions, PostProcessFocus(s)
      PROVE  UncountedIsDialog' /\ (loop.changed => focus'.focused = focus.focused)
  BY <1>1, RoundCounts DEF Typed
<1>2. ASSUME NEW v \in SUBSET Sessions, NEW z \in ZOrders, FlushUIParams(v, z)
      PROVE  Idle /\ UncountedIsDialog'
  <2> DEFINE h == [focus EXCEPT !.lastApp = None]
  <2>1. h.focused = focus.focused /\ Agrees(h)
    BY FlagsDoNotMatter DEF Agrees, Fields
  <2> HIDE DEF h
  <2>2. /\ Idle /\ loop'.base = focus.focused
        /\ \E w, f : f \in { focus, h } /\ EndFlush(w, f)
    BY <1>2 DEF FlushUIParams, h
  <2>3. focus'.focused = focus.focused
    BY <2>1, <2>2, EndFlushKeeps
  <2>4. QED BY <2>2, <2>3 DEF UncountedIsDialog
<1>3. CASE Idle /\ loop' = loop
  BY <1>3 DEF Idle, UncountedIsDialog
<1>4. CASE UNCHANGED vars
  BY <1>4 DEF vars, UncountedIsDialog, Idle
<1>5. ASSUME NEW s \in Sessions,
             \/ RequestFocusStatus(s) \/ RequestUnfocusStatus(s)
             \/ \E b \in BOOLEAN, r \in ScbReasons : RequestFocusStatusBySCB(s, b, r)
      PROVE  Idle /\ loop' = loop
  BY <1>5 DEF RequestFocusStatus, RequestUnfocusStatus, RequestFocusStatusBySCB, SetFocus
<1>6. CASE \E m \in Mains : RequestSceneSessionActivation(m)
  BY <1>3, <1>6 DEF RequestSceneSessionActivation
<1>7. CASE \E s \in Apps : Connect(s) \/ Foreground(s) \/ Background(s)
  BY <1>3, <1>7 DEF Connect, Foreground, Background, SetState
<1>8. CASE \E m \in MayPause : Pause(m)
  BY <1>3, <1>8 DEF Pause, SetState
<1>9. CASE \E m \in MayDisconnect \cap Mains :
             DisconnectFromClient(m) \/ RequestSceneSessionDestruction(m)
  BY <1>3, <1>9 DEF DisconnectFromClient, RequestSceneSessionDestruction, SetState
<1>10. CASE \E d \in MayDisconnect \cap Dialogs : DestroyAndDisconnectSpecificSession(d)
  BY <1>3, <1>10 DEF DestroyAndDisconnectSpecificSession
<1>11. CASE RequestAllAppSessionUnfocus
  BY <1>3, <1>11 DEF RequestAllAppSessionUnfocus, SetFocus
<1>12. QED BY <1>1, <1>2, <1>3, <1>4, <1>5, <1>6, <1>7, <1>8, <1>9, <1>10, <1>11 DEF Next

(* PostProcessFocus promises to change the focus one time.  It breaks that *)
(* (FocusChangesOncePerFlush) only where a dialog took the focus in place  *)
(* of its main window: a second change in one flush takes it from there.   *)
TwiceOnlyPastDialog ==
  ~Idle /\ focus.focused # loop.base /\ focus'.focused # focus.focused =>
    focus.focused \in Dialogs

THEOREM FlushChangesTwiceOnlyPastDialog == Spec => [][TwiceOnlyPastDialog]_vars
<1>1. Init => UncountedIsDialog
  BY DEF Init, NoLoop, UncountedIsDialog, Idle
<1>2. FocusedFlagAgrees /\ Typed => Agrees(focus)
  BY DEF FocusedFlagAgrees, Agrees, Typed, Group, Fields
<1>3. Agrees(focus) /\ Typed /\ UncountedIsDialog /\ [Next]_vars => [TwiceOnlyPastDialog]_vars
  BY NextCounts DEF TwiceOnlyPastDialog, UncountedIsDialog
<1>4. QED
  BY <1>1, <1>2, <1>3, NextCounts, FocusedFlagAlwaysAgrees, SpecServes, PTL DEF Spec
=============================================================================
