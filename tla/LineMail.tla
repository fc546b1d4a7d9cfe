------------------------------ MODULE LineMail ------------------------------
(***************************************************************************)
(* What the serial line promises the main program of wordclock/: it finds  *)
(* what it makes of a command only if that very command was sent as a      *)
(* whole, each sent command at most once.  Commands may get lost, and it   *)
(* may find nonsense.                                                      *)
(***************************************************************************)
CONSTANTS Commands, Nothing, Nonsense,
          Found      \* what the main program may make of each command

VARIABLES
  current,   \* the command being sent or sent last and not arrived, or Nothing
  box        \* what the main program finds

vars == <<current, box>>

Init == current = Nothing /\ box = Nothing
Send == current' \in Commands /\ UNCHANGED box
Arrive ==
  /\ box = Nothing /\ current # Nothing
  /\ box' \in Found[current] /\ current' = Nothing
Disturb == box = Nothing /\ box' = Nonsense /\ current' \in {current, Nothing}
Lose == current' = Nothing /\ UNCHANGED box
Take == box # Nothing /\ box' = Nothing /\ UNCHANGED current

Next == Send \/ Arrive \/ Disturb \/ Lose \/ Take
Spec == Init /\ [][Next]_vars
=============================================================================
