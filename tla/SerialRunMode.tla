---------------------------- MODULE SerialRunMode ----------------------------
(***************************************************************************)
(* What the global mutex of the display manager service promises to the    *)
(* threads that enter a guarded section: at most one of them runs in       *)
(* serial mode, the others run concurrently with it, and a section keeps   *)
(* its mode until it ends or pauses to wait.                               *)
(***************************************************************************)
CONSTANT Threads

VARIABLE mode

Mode == { "Out", "Serial", "Concurrent", "Paused" }

TypeOK == mode \in [Threads -> Mode]

Init == mode = [t \in Threads |-> "Out"]

Nobody == \A t \in Threads : mode[t] # "Serial"

(* A section begins, or resumes, in serial mode only if nobody runs so.    *)
Begin(t, from) ==
  /\ mode[t] = from
  /\ \/ /\ Nobody
        /\ mode' = [mode EXCEPT ![t] = "Serial"]
     \/ mode' = [mode EXCEPT ![t] = "Concurrent"]

Stop(t, to) ==
  /\ mode[t] \in { "Serial", "Concurrent" }
  /\ mode' = [mode EXCEPT ![t] = to]

Next ==
  \E t \in Threads :
    \/ Begin(t, "Out")
    \/ Begin(t, "Paused")
    \/ Stop(t, "Out")
    \/ Stop(t, "Paused")

Spec == Init /\ [][Next]_mode
=============================================================================
