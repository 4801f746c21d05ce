------------------------------ MODULE TaskTurns ------------------------------
(***************************************************************************)
(* What a queue of life cycle tasks promises, without threads, locks and   *)
(* flags.  Tasks are numbered as they are posted and take turns in that    *)
(* order, one at a time.  A task is due from the moment its turn comes and *)
(* begins once; it may begin late, when its turn is over already, but      *)
(* never before its turn and never a second time.  A task is only ever     *)
(* refused when it is posted, or dropped with all that wait.               *)
(***************************************************************************)
EXTENDS Naturals

VARIABLES
  posted,   \* the tasks posted so far
  waiting,  \* those whose turn is still to come
  turn,     \* the one whose turn it is, if any
  due,      \* those whose turn has come and that have not begun
  begun     \* those that have begun

vars == <<posted, waiting, turn, due, begun>>

Init == posted = 0 /\ waiting = {} /\ turn = {} /\ due = {} /\ begun = {}

First(w) == { t \in w : \A u \in w : t <= u }

(* Of the waiting tasks w the first takes the turn and is due with d.      *)
Passes(w, d) ==
  /\ turn' = First(w)
  /\ waiting' = w \ First(w)
  /\ due' = d \cup First(w)

Keeps(w, d) == turn' = turn /\ waiting' = w /\ due' = d

(* A new task waits behind the others.  It may find that the turn before   *)
(* it has taken too long.                                                  *)
Post ==
  /\ posted' = posted + 1
  /\ \/ turn # {} /\ Keeps(waiting \cup {posted + 1}, due)
     \/ Passes(waiting \cup {posted + 1}, due)
  /\ UNCHANGED begun

Refuse ==
  /\ turn # {}
  /\ posted' = posted + 1
  /\ UNCHANGED <<waiting, turn, due, begun>>

End ==
  /\ turn # {}
  /\ Passes(waiting, due)
  /\ UNCHANGED <<posted, begun>>

(* A task begins, and it may be over at once.                              *)
Begin(t) ==
  /\ t \in due
  /\ begun' = begun \cup {t}
  /\ \/ Keeps(waiting, due \ {t})
     \/ turn # {} /\ Passes(waiting, due \ {t})
  /\ UNCHANGED posted

(* Who is due already still begins.                                        *)
Drop ==
  /\ turn' = {} /\ waiting' = {}
  /\ UNCHANGED <<posted, due, begun>>

Next == Post \/ Refuse \/ End \/ Drop \/ \E t \in due : Begin(t)

Spec == Init /\ [][Next]_vars
-----------------------------------------------------------------------------
(* Nobody is overtaken and nobody begins twice.                            *)
InOrder ==
  /\ due \cap begun = {}
  /\ \A u \in waiting : \A t \in turn \cup due \cup begun : t < u
=============================================================================
