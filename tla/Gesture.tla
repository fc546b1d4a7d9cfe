------------------------------ MODULE Gesture ------------------------------
(***************************************************************************)
(* The distance sensor alone, under a hand that moves as it likes: which   *)
(* movements raise a light command.  visits is the history the automaton   *)
(* of distancesensor-tiny85/main.c folds into its seven states: the bands  *)
(* entered since it was last idle, each different from the one before.     *)
(***************************************************************************)
EXTENDS DistanceSensor, SequencesExt

CONSTANT MaxVisits     \* bound on the length of the history, at least 4

VARIABLES dev, hand, visits

vars == <<dev, hand, visits>>

TypeOK ==
  /\ dev \in Sensors /\ hand \in Zones
  /\ visits \in UNION {[1 .. n -> Zones \ {"none"}] : n \in 0 .. MaxVisits}

Init == dev = Powered /\ hand = "none" /\ visits = << >>

\* The band entered now, if it is not the one entered last.
Entered ==
  IF hand = "none" \/ (visits # << >> /\ Last(visits) = hand) THEN visits
  ELSE Append(IF Len(visits) = MaxVisits THEN Tail(visits) ELSE visits, hand)

Move(zone) == hand' = zone /\ UNCHANGED <<dev, visits>>

SensorPass ==
  /\ dev' = Pass(dev, hand)
  /\ visits' = IF dev'.state = "IDLE" THEN << >> ELSE Entered
  /\ UNCHANGED hand

MasterAck ==
  /\ dev' = [dev EXCEPT !.mark = Acked]
  /\ UNCHANGED <<hand, visits>>

Next == SensorPass \/ (\E zone \in Zones : Move(zone)) \/ MasterAck

Spec == Init /\ [][Next]_vars /\ WF_vars(SensorPass)

-----------------------------------------------------------------------------
(* What the seven states mean. *)
Meaning ==
  IF visits = << >> THEN "IDLE"
  ELSE LET band == IF Last(visits) = "far" THEN "Far" ELSE "Near"
       IN  CASE Len(visits) = 1 -> IF band = "Far" THEN "Step1Far" ELSE "Step1Near"
             [] Len(visits) = 2 -> IF band = "Far" THEN "Step2Far" ELSE "Step2Near"
             [] OTHER -> IF band = "Far" THEN "Step3Far" ELSE "Step3Near"

(* Whatever path the hand takes, the automaton remembers exactly how many
   bands were entered alternately, up to three, and the last of them. *)
StateIsHistory == dev.state = Meaning

(* A command is raised only when the hand has entered three bands in turn
   and then stayed out of both for the whole timeout; its direction is that
   of the last band. *)
CommandMeansWave ==
  [][ dev'.cmd # dev.cmd /\ dev'.cmd # 0
      => /\ Len(visits) >= 3 /\ hand = "none" /\ dev.count = TimeoutLimit
         /\ dev'.cmd = IF Last(visits) = "far" THEN LightOff ELSE LightOn ]_vars

(* A hand that leaves for good does not leave the temporary light behind,
   even when an acknowledgement has cut the gesture short. *)
LightGoesOut ==
  <>[](hand = "none") => <>[](dev.tx.temp = 0 /\ dev.state = "IDLE")
=============================================================================
