----------------------------- MODULE SensorLink -----------------------------
(***************************************************************************)
(* One distance sensor and the visits the lamp controller pays it:         *)
(* read_distance of Schlafzimmer/main.c and the switch behind it, one      *)
(* action per I2C transaction part, interleaved with whole passes of the   *)
(* sensor's loop.                                                          *)
(*                                                                         *)
(* Both programs are paced by _delay_ms(10): the sensor once per pass, the *)
(* controller three times per loop and once inside a visit.  away counts   *)
(* the passes since the last completed visit.  At least one pass fits      *)
(* between two visits, and MaxAway bounds the passes between two completed *)
(* visits, failed ones in between included.  A gesture takes at least      *)
(* TimeoutLimit + 4 passes from one command to the next, so two stays away *)
(* of the controller do not outlast it.  A controller that restarts breaks  *)
(* the pace: see Schlafzimmer.                                             *)
(***************************************************************************)
EXTENDS DistanceSensor

CONSTANTS MaxAway,     \* passes between two completed visits
          Hand         \* zones the hand may be in

ASSUME PaceAssumption ==
  /\ MaxAway \in Nat \ {0} /\ 2 * MaxAway <= TimeoutLimit + 3
  /\ Hand \subseteq Zones

VARIABLES dev,         \* the sensor
          step,        \* where the controller is in read_distance
          uiLightCmd,  \* the controller's copy of the command
          away,
          executed     \* history: flips when a command is executed

vars == <<dev, step, uiLightCmd, away, executed>>

Steps == {"away", "addressed", "temp", "ack", "execute"}

TypeOK ==
  /\ dev \in Sensors
  /\ step \in Steps
  /\ uiLightCmd \in 0 .. 2
  /\ away \in 0 .. MaxAway
  /\ executed \in {0, 1}

Init ==
  /\ dev = Powered
  /\ step = "away" /\ uiLightCmd = 0 /\ away = 0 /\ executed = 0

-----------------------------------------------------------------------------
SensorPass ==
  /\ away < MaxAway
  /\ \E zone \in Hand : dev' = Pass(dev, zone)
  /\ away' = away + 1
  /\ UNCHANGED <<step, uiLightCmd, executed>>

\* i2c_master_start_wait for writing, then the read position 0.
Address ==
  /\ step = "away" /\ away >= 1
  /\ step' = "addressed"
  /\ UNCHANGED <<dev, uiLightCmd, away, executed>>

\* Repeated start for reading, and the first byte.
ReadCmd ==
  /\ step = "addressed"
  /\ uiLightCmd' = dev.tx.cmd
  /\ step' = "temp"
  /\ UNCHANGED <<dev, away, executed>>

\* The second byte, the stop condition and the delay.
ReadTemp ==
  /\ step = "temp"
  /\ step' = IF uiLightCmd > 0 THEN "ack" ELSE "execute"
  /\ UNCHANGED <<dev, uiLightCmd, away, executed>>

\* rxbuffer[3] = 0xaa.
Acknowledge ==
  /\ step = "ack"
  /\ dev' = [dev EXCEPT !.mark = Acked]
  /\ step' = "execute"
  /\ UNCHANGED <<uiLightCmd, away, executed>>

\* A visit that executes the command although it could not acknowledge it.
NotAcknowledged_Ignored ==
  /\ step = "ack"
  /\ step' = "execute"
  /\ UNCHANGED <<dev, uiLightCmd, away, executed>>

\* The sensor does not answer the acknowledgement: read_distance returns 0
\* and the caller does not look at the command.
NotAcknowledged ==
  /\ step = "ack"
  /\ step' = "away"
  /\ UNCHANGED <<dev, uiLightCmd, away, executed>>

\* The caller's switch; the visit is complete.
Execute ==
  /\ step = "execute"
  /\ step' = "away" /\ away' = 0
  /\ executed' = IF uiLightCmd # 0 THEN 1 - executed ELSE executed
  /\ UNCHANGED <<dev, uiLightCmd>>

Visit == Address \/ ReadCmd \/ ReadTemp \/ Acknowledge \/ NotAcknowledged \/ Execute

\* The controller visits the other sensor, with the same variable.
Elsewhere ==
  /\ step = "away"
  /\ uiLightCmd' \in 0 .. 2
  /\ UNCHANGED <<dev, step, away, executed>>

Next == SensorPass \/ Visit \/ Elsewhere

Spec == Init /\ [][Next]_vars

\* Both loops run forever, and a sensor that is asked again and again takes
\* the acknowledgement in the end.
FairSpec == Spec /\ WF_vars(SensorPass) /\ WF_vars(Visit) /\ SF_vars(Acknowledge)

-----------------------------------------------------------------------------
(* The command that was raised and is still to be executed: the controller's
   copy once a visit has read one, else the sensor's unless acknowledged. *)
Offer ==
  IF step \in {"temp", "ack", "execute"} /\ uiLightCmd # 0 THEN uiLightCmd
  ELSE IF dev.mark = Acked THEN 0
  ELSE dev.cmd

Channel == INSTANCE LightChannel WITH wave <- Ripe(dev), offer <- Offer, executed <- executed

(* Every gesture's light command is executed exactly once, whatever the
   interleaving of visits and passes and however often an acknowledgement
   fails: none is cleared unread by an acknowledgement meant for an earlier
   one, and none is read again after it was acknowledged, for a command
   becomes pending only by a gesture completed since the last one. *)
ExactlyOnce == Channel!Spec

(* A command that was raised is executed in the end. *)
CommandsServed == Offer # 0 ~> Offer = 0

(* The pass that takes the acknowledgement also drops the gesture in
   progress.  It never drops one that ends in this very pass and would have
   raised a command nobody has seen. *)
NothingSwallowed ==
  dev.mark = Acked => ~ ( /\ dev.state \in {"Step3Near", "Step3Far"}
                          /\ dev.count = TimeoutLimit )

-----------------------------------------------------------------------------
(* Why it holds: the sensor's copy and the controller's copy of a command
   agree from the first byte to the acknowledgement ... *)
CopiesAgree ==
  /\ dev.tx.cmd = dev.cmd
  /\ step = "ack" => uiLightCmd # 0
  /\ step \in {"temp", "ack"} /\ uiLightCmd # 0 => dev.cmd = uiLightCmd /\ dev.mark = 0
  /\ step = "execute" /\ uiLightCmd # 0 =>
       \/ dev.mark = Acked /\ dev.cmd = uiLightCmd
       \/ dev.mark = 0 /\ dev.cmd = 0 /\ Progress(dev) <= away
  /\ dev.mark = Acked => \/ step = "execute" /\ uiLightCmd # 0
                         \/ step = "away" /\ away = 0

(* ... and the gesture begun since the command was raised has made no more
   passes than the controller has let happen. *)
GestureBehind ==
  /\ dev.cmd # 0 /\ dev.mark = 0 =>
       IF step \in {"temp", "execute"} /\ uiLightCmd = 0
       THEN Progress(dev) + 1 <= away
       ELSE Progress(dev) + 1 <= MaxAway + away
  /\ dev.mark = Acked => Progress(dev) + 1 <= 2 * MaxAway

LinkInv == TypeOK /\ CopiesAgree /\ GestureBehind
=============================================================================
