---------------------------- MODULE LightChannel ----------------------------
(***************************************************************************)
(* What a distance sensor and the lamp controller promise each other: a    *)
(* completed gesture raises its light command, the controller executes it  *)
(* exactly once, and no gesture is completed before that.  A command is    *)
(* neither lost, nor executed twice, nor made up, nor raised twice by one  *)
(* gesture.                                                                *)
(***************************************************************************)
EXTENDS Naturals

VARIABLES wave,        \* the command of the gesture complete now, or 0
          offer,       \* the command raised and not yet executed, or 0
          executed     \* flips whenever a command is executed

vars == <<wave, offer, executed>>

Init == wave = 0 /\ offer = 0 /\ executed = 0

\* The hand completes a gesture, or comes back and goes on with it.
Gesture ==
  /\ \/ wave = 0 /\ wave' \in {1, 2} /\ offer = 0
     \/ wave # 0 /\ wave' = 0
  /\ UNCHANGED <<offer, executed>>

Raise == wave # 0 /\ offer = 0 /\ offer' = wave /\ wave' = 0 /\ UNCHANGED executed

Execute == offer # 0 /\ offer' = 0 /\ executed' = 1 - executed /\ UNCHANGED wave

Next == Gesture \/ Raise \/ Execute

Spec == Init /\ [][Next]_vars
=============================================================================
