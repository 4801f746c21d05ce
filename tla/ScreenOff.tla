------------------------------ MODULE ScreenOff ------------------------------
(***************************************************************************)
(* What turning a screen off promises, without threads, flags or waits.    *)
(* A suspension opens a window in which the screen-off can be called off.  *)
(* A cancel accepted in the window is binding: the off is never announced  *)
(* to the lock screen and the display state does not change.  An announced *)
(* off ends in the state asked for, in ON_SUSPEND if the lock screen asked *)
(* for that, or, when it is cancelled late, in the state it started from.  *)
(***************************************************************************)
CONSTANT DisplayStates, OffStates

VARIABLES
  window,     \* "closed", "open", or "accepted" when a cancel was accepted
  announced,  \* the lock screen has been told of an off not yet decided
  display     \* the display state as far as it is decided

vars == <<window, announced, display>>

Init == window = "closed" /\ announced = FALSE /\ display \in DisplayStates

Open == /\ ~announced /\ window = "closed"
        /\ window' = "open"
        /\ UNCHANGED <<announced, display>>

Accept == /\ window = "open" /\ window' = "accepted"
          /\ UNCHANGED <<announced, display>>

Announce == /\ ~announced /\ window # "accepted"
            /\ window' = "closed" /\ announced' = TRUE
            /\ UNCHANGED display

(* An accepted cancel takes effect.                                        *)
CallOff == /\ ~announced /\ window = "accepted"
           /\ window' = "closed"
           /\ UNCHANGED <<announced, display>>

Decide == /\ announced /\ announced' = FALSE
          /\ display' \in OffStates \cup {display}
          /\ UNCHANGED window

(* A display state set without announcing an off: turning on, and an off   *)
(* of which the lock screen is not told (a collaboration).                 *)
SetDirectly == /\ ~announced
               /\ display' \in DisplayStates
               /\ UNCHANGED <<window, announced>>

Next == Open \/ Accept \/ Announce \/ CallOff \/ Decide \/ SetDirectly

Spec == Init /\ [][Next]_vars
=============================================================================
