----------------------------- MODULE MCWindowFocus -----------------------------
(***************************************************************************)
(* Small sets of windows for WindowFocus: a main window m1, its dialog d1, *)
(* the desktop, a pop menu of it, a drop-down panel and the keyguard.  The *)
(* desktop is at the bottom, a dialog is directly above its main window,   *)
(* the other system windows are above both.                                *)
(***************************************************************************)
EXTENDS WindowFocus, TLC

CONSTANTS m1, d1, desktop, menu, panel, keyguard

MCDialogOf == [m \in Mains |-> IF m = m1 /\ d1 \in Dialogs THEN d1 ELSE None]

MCZOrders ==
  { z \in [Sessions -> 1 .. Cardinality(Sessions)] :
      /\ IsInjective(z)
      /\ \A s \in Sessions : /\ s \in Dialogs => z[s] = z[OwnerOf(s)] + 1
                             /\ \A t \in Desktops \ {s} : z[s] > z[t]
                             /\ \A t \in Systems \ Desktops : s \in Apps => z[t] > z[s] }
=============================================================================
