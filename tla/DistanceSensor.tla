--------------------------- MODULE DistanceSensor ---------------------------
(***************************************************************************)
(* One pass of the endless loop of distancesensor-tiny85/main.c, as a      *)
(* function of the sensor's memory and of the zone the hand is in.  The    *)
(* pass touches rxbuffer and txbuffer only between its cli() and sei(),    *)
(* so for the I2C master it is a single step.                              *)
(*                                                                         *)
(* A sensor is a record: state, count and the two commands are the locals  *)
(* uiState, uiTimeoutCounter, uiLightCmd and uiTempLight; mark is          *)
(* rxbuffer[3] and tx the two published bytes of txbuffer.                 *)
(***************************************************************************)
EXTENDS Integers

CONSTANT TimeoutLimit  \* 100 in the code

ASSUME TimeoutAssumption == TimeoutLimit \in Nat \ {0}

States == {"IDLE", "Step1Near", "Step1Far", "Step2Near", "Step2Far",
           "Step3Near", "Step3Far"}

\* A measured distance is in the far band, in the near band, or in neither.
Zones == {"far", "near", "none"}

Acked == 170           \* 0xaa, written to rxbuffer[3] by the master
LightOff == 1
LightOn == 2

Published == [cmd : 0 .. 2, temp : 0 .. 2]

Sensors == [state : States, count : 0 .. TimeoutLimit, cmd : 0 .. 2,
            temp : 0 .. 2, mark : {0, Acked}, tx : Published]

\* After a reset the buffers are zero and nothing is published.
Powered == [state |-> "IDLE", count |-> 0, cmd |-> 0, temp |-> 0, mark |-> 0,
            tx |-> [cmd |-> 0, temp |-> 0]]

\* A sensor that takes one band, or two, for a wave.
FarFrom_Instant == [s \in States |-> IF s = "IDLE" THEN "Step3Far" ELSE s]

FarFrom_Hasty == [s \in States |->
  CASE s = "IDLE" -> "Step1Far"
    [] s \in {"Step1Near", "Step2Near", "Step3Near"} -> "Step3Far"
    [] OTHER -> s]

FarFrom == [s \in States |->
  CASE s = "IDLE" -> "Step1Far"
    [] s = "Step1Near" -> "Step2Far"
    [] s \in {"Step2Near", "Step3Near"} -> "Step3Far"
    [] OTHER -> s]

NearFrom == [s \in States |->
  CASE s = "IDLE" -> "Step1Near"
    [] s = "Step1Far" -> "Step2Near"
    [] s \in {"Step2Far", "Step3Far"} -> "Step3Near"
    [] OTHER -> s]

\* The two bands of the distance chain; every other distance only ages the
\* gesture.
Sense(d, zone) ==
  CASE zone = "far" ->
         [d EXCEPT !.count = 0, !.state = FarFrom[d.state],
            !.temp = IF d.state \in {"Step2Near", "Step3Near"} THEN 1 ELSE @]
    [] zone = "near" ->
         [d EXCEPT !.count = 0, !.state = NearFrom[d.state],
            !.temp = IF d.state \in {"Step2Far", "Step3Far"} THEN 2 ELSE @]
    [] OTHER -> [d EXCEPT !.count = @ + 1]

\* A sensor that lets the timeout counter run on.
Expire_Unclamped(d) ==
  IF d.count <= TimeoutLimit THEN d
  ELSE [d EXCEPT !.temp = 0, !.state = "IDLE",
          !.cmd = CASE d.state = "Step3Far" -> LightOff
                    [] d.state = "Step3Near" -> LightOn
                    [] OTHER -> @]

\* The directions mixed up, the temporary light left on.
Expire_Swapped(d) ==
  IF d.count <= TimeoutLimit THEN d
  ELSE [d EXCEPT !.temp = 0, !.state = "IDLE", !.count = TimeoutLimit,
          !.cmd = CASE d.state = "Step3Near" -> LightOff
                    [] d.state = "Step3Far" -> LightOn
                    [] OTHER -> @]

Expire_KeepsLight(d) ==
  IF d.count <= TimeoutLimit THEN d
  ELSE [d EXCEPT !.state = "IDLE", !.count = TimeoutLimit,
          !.cmd = CASE d.state = "Step3Far" -> LightOff
                    [] d.state = "Step3Near" -> LightOn
                    [] OTHER -> @]

\* A gesture ends when no band was entered for TimeoutLimit passes.
Expire(d) ==
  IF d.count <= TimeoutLimit THEN d
  ELSE [d EXCEPT !.temp = 0, !.state = "IDLE", !.count = TimeoutLimit,
          !.cmd = CASE d.state = "Step3Far" -> LightOff
                    [] d.state = "Step3Near" -> LightOn
                    [] OTHER -> @]

\* The acknowledgement is taken again in every pass.
TakeAck_Sticky(d) ==
  IF d.mark = Acked THEN [d EXCEPT !.cmd = 0, !.state = "IDLE"] ELSE d

\* The gesture is dropped, and the command stays published.
TakeAck_KeepsCommand(d) ==
  IF d.mark = Acked THEN [d EXCEPT !.mark = 0, !.state = "IDLE"] ELSE d

\* The master's acknowledgement withdraws the command and the gesture.
TakeAck(d) ==
  IF d.mark = Acked THEN [d EXCEPT !.mark = 0, !.cmd = 0, !.state = "IDLE"] ELSE d

\* A sensor that publishes only the temporary light.
Publish_TempOnly(d) == [d EXCEPT !.tx.temp = d.temp]

Publish(d) == [d EXCEPT !.tx = [cmd |-> d.cmd, temp |-> d.temp]]

\* A sensor that publishes before it looks for the acknowledgement.
Pass_PublishesFirst(d, zone) == TakeAck(Publish(Expire(Sense(d, zone))))

Pass(d, zone) == Publish(TakeAck(Expire(Sense(d, zone))))

-----------------------------------------------------------------------------
\* How many passes the gesture in progress has taken at least: one per band
\* it visited, and those since the last visit.
Stage == [s \in States |->
  CASE s = "IDLE" -> 0
    [] s \in {"Step1Near", "Step1Far"} -> 1
    [] s \in {"Step2Near", "Step2Far"} -> 2
    [] OTHER -> 3]

Progress(d) == IF d.state = "IDLE" THEN 0 ELSE Stage[d.state] + d.count

\* The command that the next pass raises if the hand stays away: that of a
\* gesture of three bands after which the whole timeout has passed.
Ripe(d) ==
  CASE d.state = "Step3Far" /\ d.count = TimeoutLimit -> LightOff
    [] d.state = "Step3Near" /\ d.count = TimeoutLimit -> LightOn
    [] OTHER -> 0
=============================================================================
