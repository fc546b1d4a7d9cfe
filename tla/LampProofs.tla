----------------------------- MODULE LampProofs -----------------------------
(***************************************************************************)
(* Facts about the operators the models of the lamp share, for the proofs  *)
(* of the modules that use them: what a command of the remote control does *)
(* to any settings, how the colour is computed from them, and what a pass  *)
(* of a distance sensor does to the sensor.                                *)
(***************************************************************************)
EXTENDS LampSettings, DistanceSensor, TLAPS

LEMMA FullInRange ==
  ASSUME NEW s \in Settings, NEW r \in 0 .. 255, NEW g \in 0 .. 255, NEW b \in 0 .. 255
  PROVE  Full(s, r, g, b) \in Settings
<1>1. Full(s, r, g, b) =
        [r |-> r, g |-> g, b |-> b, percent |-> 100, light |-> s.light, function |-> 0]
  <2>1. Full(s, r, g, b) =
          [s EXCEPT !.function = 0, !.percent = 100, !.r = r, !.g = g, !.b = b]
    BY DEF Full
  <2> QED BY <2>1, Zenon DEF Settings
<1> QED BY <1>1 DEF Settings

(* A new value in its range for one setting. *)
LEMMA NewLevel ==
  ASSUME NEW s \in Settings, NEW v \in 5 .. 100
  PROVE  [s EXCEPT !.percent = v] \in Settings
BY DEF Settings

LEMMA NewRed ==
  ASSUME NEW s \in Settings, NEW v \in 0 .. 255
  PROVE  [s EXCEPT !.r = v] \in Settings
BY DEF Settings

LEMMA NewGreen ==
  ASSUME NEW s \in Settings, NEW v \in 0 .. 255
  PROVE  [s EXCEPT !.g = v] \in Settings
BY DEF Settings

LEMMA NewBlue ==
  ASSUME NEW s \in Settings, NEW v \in 0 .. 255
  PROVE  [s EXCEPT !.b = v] \in Settings
BY DEF Settings

LEMMA NewFunction ==
  ASSUME NEW s \in Settings, NEW v \in 0 .. 4
  PROVE  [s EXCEPT !.function = v] \in Settings
BY DEF Settings

LEMMA SwitchOff == ASSUME NEW s \in Settings PROVE [s EXCEPT !.light = 0] \in Settings
BY DEF Settings

LEMMA SwitchOn ==
  ASSUME NEW s \in Settings, NEW x, x = [s EXCEPT !.light = 1, !.function = 0]
  PROVE  x \in Settings
<1>1. x = [r |-> s.r, g |-> s.g, b |-> s.b, percent |-> s.percent,
           light |-> 1, function |-> 0]
  BY Zenon DEF Settings
<1> QED BY <1>1 DEF Settings

LEMMA ObeyInRange ==
  ASSUME NEW s \in Settings, NEW command \in Int
  PROVE  Obey(command, s) \in Settings
<1>0. 0 \in 0 .. 255 /\ 191 \in 0 .. 255 /\ 239 \in 0 .. 255 /\ 255 \in 0 .. 255
  OBVIOUS
<1>1. /\ Raise(s.percent, 2, 100) \in 5 .. 100 /\ Lower(s.percent, 2, 5) \in 5 .. 100
      /\ Raise(s.r, 8, 255) \in 0 .. 255 /\ Lower(s.r, 8, 0) \in 0 .. 255
      /\ Raise(s.g, 8, 255) \in 0 .. 255 /\ Lower(s.g, 8, 0) \in 0 .. 255
      /\ Raise(s.b, 8, 255) \in 0 .. 255 /\ Lower(s.b, 8, 0) \in 0 .. 255
  BY DEF Settings, Raise, Lower
<1>2. CASE command = 0
  <2>1. Obey(command, s) = [s EXCEPT !.percent = Raise(s.percent, 2, 100)]
    BY <1>2 DEF Obey
  <2>2. Raise(s.percent, 2, 100) \in 5 .. 100
    BY <1>1
  <2> QED BY <2>1, <2>2, NewLevel, Zenon
<1>3. CASE command = 1
  <2>1. Obey(command, s) = [s EXCEPT !.percent = Lower(s.percent, 2, 5)]
    BY <1>3 DEF Obey
  <2>2. Lower(s.percent, 2, 5) \in 5 .. 100
    BY <1>1
  <2> QED BY <2>1, <2>2, NewLevel, Zenon
<1>4. CASE command = 2
  <2>1. Obey(command, s) = [s EXCEPT !.light = 0]
    BY <1>4 DEF Obey
  <2> QED BY <2>1, SwitchOff
<1>5. CASE command = 8
  <2>1. Obey(command, s) = [s EXCEPT !.r = Raise(s.r, 8, 255)]
    BY <1>5 DEF Obey
  <2>2. Raise(s.r, 8, 255) \in 0 .. 255
    BY <1>1
  <2> QED BY <2>1, <2>2, NewRed, Zenon
<1>6. CASE command = 9
  <2>1. Obey(command, s) = [s EXCEPT !.g = Raise(s.g, 8, 255)]
    BY <1>6 DEF Obey
  <2>2. Raise(s.g, 8, 255) \in 0 .. 255
    BY <1>1
  <2> QED BY <2>1, <2>2, NewGreen, Zenon
<1>7. CASE command = 10
  <2>1. Obey(command, s) = [s EXCEPT !.b = Raise(s.b, 8, 255)]
    BY <1>7 DEF Obey
  <2>2. Raise(s.b, 8, 255) \in 0 .. 255
    BY <1>1
  <2> QED BY <2>1, <2>2, NewBlue, Zenon
<1>8. CASE command = 12
  <2>1. Obey(command, s) = [s EXCEPT !.r = Lower(s.r, 8, 0)]
    BY <1>8 DEF Obey
  <2>2. Lower(s.r, 8, 0) \in 0 .. 255
    BY <1>1
  <2> QED BY <2>1, <2>2, NewRed, Zenon
<1>9. CASE command = 13
  <2>1. Obey(command, s) = [s EXCEPT !.g = Lower(s.g, 8, 0)]
    BY <1>9 DEF Obey
  <2>2. Lower(s.g, 8, 0) \in 0 .. 255
    BY <1>1
  <2> QED BY <2>1, <2>2, NewGreen, Zenon
<1>10. CASE command = 14
  <2>1. Obey(command, s) = [s EXCEPT !.b = Lower(s.b, 8, 0)]
    BY <1>10 DEF Obey
  <2>2. Lower(s.b, 8, 0) \in 0 .. 255
    BY <1>1
  <2> QED BY <2>1, <2>2, NewBlue, Zenon
<1>11. CASE command = 11
  <2>1. Obey(command, s) = [s EXCEPT !.function = 1]
    BY <1>11 DEF Obey
  <2>2. 1 \in 0 .. 4
    OBVIOUS
  <2> QED BY <2>1, <2>2, NewFunction, Zenon
<1>12. CASE command = 15
  <2>1. Obey(command, s) = [s EXCEPT !.function = 2]
    BY <1>12 DEF Obey
  <2>2. 2 \in 0 .. 4
    OBVIOUS
  <2> QED BY <2>1, <2>2, NewFunction, Zenon
<1>13. CASE command = 19
  <2>1. Obey(command, s) = [s EXCEPT !.function = 3]
    BY <1>13 DEF Obey
  <2>2. 3 \in 0 .. 4
    OBVIOUS
  <2> QED BY <2>1, <2>2, NewFunction, Zenon
<1>14. CASE command = 23
  <2>1. Obey(command, s) = [s EXCEPT !.function = 4]
    BY <1>14 DEF Obey
  <2>2. 4 \in 0 .. 4
    OBVIOUS
  <2> QED BY <2>1, <2>2, NewFunction, Zenon
<1>15. CASE command = 3
  <2>1. Obey(command, s) = [s EXCEPT !.light = 1, !.function = 0]
    BY <1>15 DEF Obey
  <2> QED BY <2>1, SwitchOn
<1>16. CASE command = 4
  <2>1. Obey(command, s) = Full(s, 255, 0, 0)
    BY <1>16 DEF Obey
  <2>2. Full(s, 255, 0, 0) \in Settings
    BY <1>0, FullInRange, Zenon
  <2> QED BY <2>1, <2>2, Zenon
<1>17. CASE command = 5
  <2>1. Obey(command, s) = Full(s, 0, 255, 0)
    BY <1>17 DEF Obey
  <2>2. Full(s, 0, 255, 0) \in Settings
    BY <1>0, FullInRange, Zenon
  <2> QED BY <2>1, <2>2, Zenon
<1>18. CASE command = 6
  <2>1. Obey(command, s) = Full(s, 0, 0, 255)
    BY <1>18 DEF Obey
  <2>2. Full(s, 0, 0, 255) \in Settings
    BY <1>0, FullInRange, Zenon
  <2> QED BY <2>1, <2>2, Zenon
<1>19. CASE command = 7
  <2>1. Obey(command, s) = Full(s, 255, 239, 191)
    BY <1>19 DEF Obey
  <2>2. Full(s, 255, 239, 191) \in Settings
    BY <1>0, FullInRange, Zenon
  <2> QED BY <2>1, <2>2, Zenon
<1>20. CASE command \notin 0 .. 15 \cup {19, 23}
  <2>1. Obey(command, s) = s
    BY <1>20 DEF Obey
  <2> QED BY <2>1
<1> QED
  BY <1>2, <1>3, <1>4, <1>5, <1>6, <1>7, <1>8, <1>9, <1>10, <1>11,
     <1>12, <1>13, <1>14, <1>15, <1>16, <1>17, <1>18, <1>19, <1>20

-----------------------------------------------------------------------------
LEMMA ScaledExact ==
  ASSUME NEW s \in Settings, NEW x \in 0 .. 255
  PROVE  /\ Scaled(x, s) = (x * s.percent) \div 100
         /\ (x * s.percent) \div 100 <= x
         /\ (x * s.percent) \div 100 \in 0 .. 255
<1> DEFINE p == s.percent
           q == x * p
<1>1. p \in 5 .. 100 /\ q \in Nat
  BY DEF Settings
<1>2. q <= x * 100
  BY <1>1
<1>3. Int16(q) = q
  BY <1>1, <1>2 DEF Int16
<1>4. q \div 100 \in 0 .. x
  BY <1>1, <1>2
<1>5. Byte(q \div 100) = q \div 100
  BY <1>4 DEF Byte
<1>6. Scaled(x, s) = Byte(q \div 100)
  BY <1>1, <1>3 DEF Scaled
<1>7. /\ Scaled(x, s) = q \div 100 /\ q \div 100 <= x /\ q \div 100 \in 0 .. 255
  <2>1. q \div 100 \in Int /\ q \div 100 <= x /\ q \div 100 >= 0
    BY <1>4
  <2> QED BY <1>5, <1>6, <2>1
<1> QED BY <1>7, Zenon

(* What is lit is the setting scaled by the brightness, exactly. *)
LEMMA LitExact ==
  ASSUME NEW s \in Settings
  PROVE  /\ LitColour(s, 0) = <<(s.r * s.percent) \div 100, (s.g * s.percent) \div 100,
                                (s.b * s.percent) \div 100>>
         /\ (s.r * s.percent) \div 100 <= s.r
         /\ (s.g * s.percent) \div 100 <= s.g
         /\ (s.b * s.percent) \div 100 <= s.b
<1>1. s.r \in 0 .. 255 /\ s.g \in 0 .. 255 /\ s.b \in 0 .. 255
  BY DEF Settings
<1>2. LitColour(s, 0) = <<Scaled(s.r, s), Scaled(s.g, s), Scaled(s.b, s)>>
  BY DEF LitColour, Factor
<1> QED BY <1>1, <1>2, ScaledExact

-----------------------------------------------------------------------------
(* The stages of one pass, each from what it needs of the one before. *)
Sensed == [state : States, count : 0 .. TimeoutLimit + 1, cmd : 0 .. 2,
           temp : 0 .. 2, mark : {0, Acked}, tx : Published]

LEMMA SenseEffect ==
  ASSUME NEW d \in Sensors, NEW zone \in Zones
  PROVE  /\ Sense(d, zone) \in Sensed
         /\ Sense(d, zone).cmd = d.cmd /\ Sense(d, zone).mark = d.mark
         /\ Progress(Sense(d, zone)) <= Progress(d) + 1
<1> USE TimeoutAssumption DEF Sensors, Sensed
<1>1. CASE zone = "far"
  <2>1. FarFrom[d.state] \in States
    BY DEF FarFrom, States
  <2>2. \/ FarFrom[d.state] = d.state /\ d.state # "IDLE"
        \/ Stage[FarFrom[d.state]] <= (IF d.state = "IDLE" THEN 0 ELSE Stage[d.state]) + 1
    BY DEF FarFrom, States, Stage
  <2>3. \A s \in States : Stage[s] \in 0 .. 3
    BY DEF States, Stage
  <2> DEFINE x == IF d.state \in {"Step2Near", "Step3Near"} THEN 1 ELSE d.temp
  <2>4. Sense(d, zone) =
          [state |-> FarFrom[d.state], count |-> 0, cmd |-> d.cmd, temp |-> x,
           mark |-> d.mark, tx |-> d.tx]
    <3>1. Sense(d, zone) = [d EXCEPT !.count = 0, !.state = FarFrom[d.state],
            !.temp = IF d.state \in {"Step2Near", "Step3Near"} THEN 1 ELSE @]
      BY <1>1 DEF Sense
    <3> QED BY <3>1, Zenon
  <2>5. /\ Sense(d, zone) \in Sensed /\ Sense(d, zone).count = 0
        /\ Sense(d, zone).state = FarFrom[d.state]
        /\ Sense(d, zone).cmd = d.cmd /\ Sense(d, zone).mark = d.mark
    BY <2>1, <2>4
  <2> QED BY <2>1, <2>2, <2>3, <2>5 DEF Progress
<1>2. CASE zone = "near"
  <2>1. NearFrom[d.state] \in States
    BY DEF NearFrom, States
  <2>2. \/ NearFrom[d.state] = d.state /\ d.state # "IDLE"
        \/ Stage[NearFrom[d.state]] <= (IF d.state = "IDLE" THEN 0 ELSE Stage[d.state]) + 1
    BY DEF NearFrom, States, Stage
  <2>3. \A s \in States : Stage[s] \in 0 .. 3
    BY DEF States, Stage
  <2> DEFINE x == IF d.state \in {"Step2Far", "Step3Far"} THEN 2 ELSE d.temp
  <2>4. Sense(d, zone) =
          [state |-> NearFrom[d.state], count |-> 0, cmd |-> d.cmd, temp |-> x,
           mark |-> d.mark, tx |-> d.tx]
    <3>1. Sense(d, zone) = [d EXCEPT !.count = 0, !.state = NearFrom[d.state],
            !.temp = IF d.state \in {"Step2Far", "Step3Far"} THEN 2 ELSE @]
      BY <1>2 DEF Sense
    <3> QED BY <3>1, Zenon
  <2>5. /\ Sense(d, zone) \in Sensed /\ Sense(d, zone).count = 0
        /\ Sense(d, zone).state = NearFrom[d.state]
        /\ Sense(d, zone).cmd = d.cmd /\ Sense(d, zone).mark = d.mark
    BY <2>1, <2>4
  <2> QED BY <2>1, <2>2, <2>3, <2>5 DEF Progress
<1>3. CASE zone = "none"
  <2>1. Sense(d, zone) = [d EXCEPT !.count = @ + 1]
    BY <1>3 DEF Sense
  <2>2. \A s \in States : Stage[s] \in 0 .. 3
    BY DEF States, Stage
  <2> QED BY <2>1, <2>2 DEF Progress
<1> QED BY <1>1, <1>2, <1>3 DEF Zones

LEMMA ExpireEffect ==
  ASSUME NEW d \in Sensed
  PROVE  /\ Expire(d) \in Sensors
         /\ Expire(d).mark = d.mark
         /\ Progress(Expire(d)) <= Progress(d)
         /\ \/ Expire(d).cmd = d.cmd
            \/ /\ d.count = TimeoutLimit + 1
               /\ d.state \in {"Step3Near", "Step3Far"}
               /\ Expire(d).cmd \in {LightOff, LightOn}
               /\ Expire(d).state = "IDLE"
<1> USE TimeoutAssumption DEF Sensors, Sensed, LightOff, LightOn
<1>1. Progress(d) >= 0
  BY DEF Progress, Stage, States
<1>2. CASE d.count <= TimeoutLimit
  <2>1. Expire(d) = d
    BY <1>2 DEF Expire
  <2>2. d \in Sensors
    BY <1>2
  <2> QED BY <1>1, <2>1, <2>2 DEF Progress, Stage, States
<1>3. CASE d.count > TimeoutLimit
  <2> DEFINE c == CASE d.state = "Step3Far" -> LightOff
                    [] d.state = "Step3Near" -> LightOn
                    [] OTHER -> d.cmd
  <2>1. Expire(d) = [state |-> "IDLE", count |-> TimeoutLimit, cmd |-> c,
                     temp |-> 0, mark |-> d.mark, tx |-> d.tx]
    <3>1. Expire(d) =
            [d EXCEPT !.temp = 0, !.state = "IDLE", !.count = TimeoutLimit,
               !.cmd = CASE d.state = "Step3Far" -> LightOff
                         [] d.state = "Step3Near" -> LightOn
                         [] OTHER -> @]
      BY <1>3 DEF Expire
    <3> QED BY <3>1, Zenon
  <2>2. /\ Expire(d) \in Sensors /\ Expire(d).mark = d.mark
        /\ Expire(d).cmd = c /\ Expire(d).state = "IDLE"
    BY <2>1 DEF States
  <2> QED BY <1>1, <1>3, <2>1, <2>2 DEF Progress
<1> QED BY <1>2, <1>3

(* A pass either takes an acknowledgement, or keeps the command, or ends a
   gesture of at least TimeoutLimit + 3 passes with a command. *)
LEMMA PassEffect ==
  ASSUME NEW d \in Sensors, NEW zone \in Zones
  PROVE  /\ Pass(d, zone) \in Sensors
         /\ Pass(d, zone).tx.cmd = Pass(d, zone).cmd
         /\ Pass(d, zone).mark = 0
         /\ Progress(Pass(d, zone)) <= Progress(d) + 1
         /\ d.mark = Acked => /\ Pass(d, zone).cmd = 0
                              /\ Progress(Pass(d, zone)) = 0
         /\ d.mark = 0 =>
              \/ Pass(d, zone).cmd = d.cmd
              \/ /\ Progress(d) >= TimeoutLimit + 3
                 /\ Pass(d, zone).cmd \in {LightOff, LightOn}
                 /\ Progress(Pass(d, zone)) = 0
<1> DEFINE s == Sense(d, zone)
           e == Expire(s)
           t == TakeAck(e)
<1>1. /\ s \in Sensed /\ s.cmd = d.cmd /\ s.mark = d.mark
      /\ Progress(s) <= Progress(d) + 1
  BY SenseEffect
<1>2. /\ e \in Sensors /\ e.mark = d.mark /\ Progress(e) <= Progress(s)
      /\ \/ e.cmd = d.cmd
         \/ /\ Progress(s) = TimeoutLimit + 4
            /\ e.cmd \in {LightOff, LightOn}
            /\ e.state = "IDLE"
  BY <1>1, ExpireEffect, TimeoutAssumption DEF Progress, Stage, States
<1>3. Progress(d) \in Int /\ Progress(s) \in Int /\ Progress(e) \in Int
  BY <1>1, <1>2, TimeoutAssumption DEF Progress, Stage, States, Sensors, Sensed
<1>4. Progress(e) >= 0
  BY <1>2, TimeoutAssumption DEF Progress, Stage, States, Sensors
<1>5. /\ t \in Sensors /\ t.mark = 0
      /\ d.mark = Acked => t.cmd = 0 /\ t.state = "IDLE"
      /\ d.mark = 0 => t = e
  <2>1. CASE d.mark = Acked
    <3>1. t = [e EXCEPT !.mark = 0, !.cmd = 0, !.state = "IDLE"]
      BY <1>2, <2>1 DEF TakeAck
    <3>2. t = [state |-> "IDLE", count |-> e.count, cmd |-> 0, temp |-> e.temp,
               mark |-> 0, tx |-> e.tx]
      BY <1>2, <3>1, Zenon DEF Sensors
    <3> QED BY <3>2, <1>2, <2>1, <3>1 DEF Sensors, States, Acked
  <2>2. CASE d.mark # Acked
    BY <1>2, <2>2 DEF TakeAck, Sensors
  <2> QED BY <2>1, <2>2
<1>6. d.mark \in {0, Acked}
  BY DEF Sensors
<1>7. /\ Pass(d, zone) = Publish(t)
      /\ Publish(t) \in Sensors /\ Publish(t).cmd = t.cmd /\ Publish(t).mark = t.mark
      /\ Publish(t).state = t.state /\ Publish(t).count = t.count
      /\ Publish(t).tx.cmd = t.cmd
  <2>1. Pass(d, zone) = Publish(t)
    BY DEF Pass
  <2>2. [cmd |-> t.cmd, temp |-> t.temp] \in Published
    BY <1>5 DEF Sensors, Published
  <2>3. Publish(t) =
          [state |-> t.state, count |-> t.count, cmd |-> t.cmd, temp |-> t.temp,
           mark |-> t.mark, tx |-> [cmd |-> t.cmd, temp |-> t.temp]]
    <3>1. Publish(t) = [t EXCEPT !.tx = [cmd |-> t.cmd, temp |-> t.temp]]
      BY DEF Publish
    <3> QED BY <1>5, <3>1, Zenon DEF Sensors
  <2> QED BY <1>5, <2>1, <2>2, <2>3 DEF Sensors
<1>8. Progress(Pass(d, zone)) = Progress(t)
  BY <1>7 DEF Progress
<1>9. Progress(t) <= Progress(d) + 1
  <2>1. CASE d.mark = Acked
    BY <2>1, <1>1, <1>2, <1>3, <1>4, <1>5 DEF Progress
  <2>2. CASE d.mark = 0
    BY <2>2, <1>1, <1>2, <1>3, <1>5
  <2> QED BY <2>1, <2>2, <1>6
<1>10. d.mark = Acked => Progress(t) = 0
  BY <1>5 DEF Progress
<1>11. d.mark = 0 => \/ t.cmd = d.cmd
                     \/ /\ Progress(d) >= TimeoutLimit + 3
                        /\ t.cmd \in {LightOff, LightOn}
                        /\ Progress(t) = 0
  BY <1>1, <1>2, <1>3, <1>5, TimeoutAssumption DEF Progress
<1> QED BY <1>5, <1>7, <1>8, <1>9, <1>10, <1>11

LEMMA ProgressType == ASSUME NEW d \in Sensors PROVE Progress(d) \in Nat
BY TimeoutAssumption DEF Progress, Sensors, Stage, States

(* What a pass makes of the state, and when it raises a command. *)
LEMMA PassState ==
  ASSUME NEW d \in Sensors, NEW zone \in Zones
  PROVE  /\ d.mark = Acked => Pass(d, zone).state = "IDLE" /\ Pass(d, zone).cmd = 0
         /\ d.mark = 0 =>
              \/ zone = "far" /\ Pass(d, zone).state = FarFrom[d.state] /\ Pass(d, zone).cmd = d.cmd
              \/ zone = "near" /\ Pass(d, zone).state = NearFrom[d.state] /\ Pass(d, zone).cmd = d.cmd
              \/ /\ zone = "none" /\ d.count < TimeoutLimit
                 /\ Pass(d, zone).state = d.state /\ Pass(d, zone).cmd = d.cmd
              \/ /\ zone = "none" /\ d.count = TimeoutLimit
                 /\ Pass(d, zone).state = "IDLE"
                 /\ Pass(d, zone).cmd = CASE d.state = "Step3Far" -> LightOff
                                          [] d.state = "Step3Near" -> LightOn
                                          [] OTHER -> d.cmd
<1> USE TimeoutAssumption
<1> DEFINE s == Sense(d, zone)
           e == Expire(s)
           t == TakeAck(e)
<1>1. s \in Sensed /\ s.mark = d.mark /\ s.cmd = d.cmd
  BY SenseEffect
<1>2. e \in Sensors /\ e.mark = d.mark
  BY <1>1, ExpireEffect
<1>3. Pass(d, zone).state = t.state /\ Pass(d, zone).cmd = t.cmd
  <2>1. t \in Sensors
    <3>1. CASE e.mark = Acked
      <4>1. t = [e EXCEPT !.mark = 0, !.cmd = 0, !.state = "IDLE"]
        BY <3>1 DEF TakeAck
      <4>2. t = [state |-> "IDLE", count |-> e.count, cmd |-> 0, temp |-> e.temp,
                 mark |-> 0, tx |-> e.tx]
        BY <1>2, <4>1, Zenon DEF Sensors
      <4> QED BY <1>2, <4>2 DEF Sensors, States
    <3> QED BY <1>2, <3>1 DEF TakeAck
  <2>2. Publish(t) = [t EXCEPT !.tx = [cmd |-> t.cmd, temp |-> t.temp]]
    BY DEF Publish
  <2>3. Publish(t).state = t.state /\ Publish(t).cmd = t.cmd
    BY <2>1, <2>2 DEF Sensors
  <2> QED BY <2>3 DEF Pass
<1>4. d.mark = Acked => t.state = "IDLE" /\ t.cmd = 0
  BY <1>2 DEF TakeAck, Sensors
<1>5. d.mark = 0 => t = e
  BY <1>2 DEF TakeAck, Acked
<1>6. CASE zone = "far"
  <2>1. s = [d EXCEPT !.count = 0, !.state = FarFrom[d.state],
              !.temp = IF d.state \in {"Step2Near", "Step3Near"} THEN 1 ELSE @]
    BY <1>6 DEF Sense
  <2>2. s.count = 0 /\ s.state = FarFrom[d.state]
    BY <2>1, Zenon DEF Sensors
  <2>3. e = s
    BY <2>2 DEF Expire
  <2> QED BY <1>1, <1>3, <1>4, <1>5, <1>6, <2>2, <2>3
<1>7. CASE zone = "near"
  <2>1. s = [d EXCEPT !.count = 0, !.state = NearFrom[d.state],
              !.temp = IF d.state \in {"Step2Far", "Step3Far"} THEN 2 ELSE @]
    BY <1>7 DEF Sense
  <2>2. s.count = 0 /\ s.state = NearFrom[d.state]
    BY <2>1, Zenon DEF Sensors
  <2>3. e = s
    BY <2>2 DEF Expire
  <2> QED BY <1>1, <1>3, <1>4, <1>5, <1>7, <2>2, <2>3
<1>8. CASE zone = "none"
  <2>1. s = [d EXCEPT !.count = @ + 1]
    BY <1>8 DEF Sense
  <2>2. s.count = d.count + 1 /\ s.state = d.state /\ d.count \in 0 .. TimeoutLimit
    BY <2>1 DEF Sensors
  <2>3. CASE d.count < TimeoutLimit
    <3>1. e = s
      BY <2>2, <2>3 DEF Expire
    <3> QED BY <1>1, <1>3, <1>4, <1>5, <1>8, <2>2, <2>3, <3>1
  <2>4. CASE d.count = TimeoutLimit
    <3> DEFINE c == CASE s.state = "Step3Far" -> LightOff
                      [] s.state = "Step3Near" -> LightOn
                      [] OTHER -> s.cmd
    <3>1. e = [s EXCEPT !.temp = 0, !.state = "IDLE", !.count = TimeoutLimit, !.cmd = c]
      <4>1. e = [s EXCEPT !.temp = 0, !.state = "IDLE", !.count = TimeoutLimit,
                   !.cmd = CASE s.state = "Step3Far" -> LightOff
                             [] s.state = "Step3Near" -> LightOn
                             [] OTHER -> @]
        BY <2>2, <2>4 DEF Expire
      <4> QED BY <1>1, <4>1, Zenon DEF Sensed
    <3>2. e.state = "IDLE" /\ e.cmd = c
      <4> HIDE DEF c
      <4> QED BY <1>1, <3>1, Zenon DEF Sensed
    <3> QED BY <1>1, <1>3, <1>4, <1>5, <1>8, <2>2, <2>4, <3>2
  <2> QED BY <2>2, <2>3, <2>4
<1> QED BY <1>6, <1>7, <1>8 DEF Zones

(* A gesture that is complete raises its command in the pass in which the
   hand stays away, and in no other: and no pass leaves a complete gesture
   behind it but by letting the time pass. *)
LEMMA PassCount ==
  ASSUME NEW d \in Sensors, NEW zone \in {"far", "near"}, d.mark = 0
  PROVE  Pass(d, zone).count = 0
<1> USE TimeoutAssumption
<1> DEFINE s == Sense(d, zone)
<1>1. s \in Sensed /\ s.mark = 0
  BY SenseEffect DEF Zones
<1>2. s.count = 0
  <2>1. CASE zone = "far"
    BY <2>1, Zenon DEF Sense, Sensors
  <2>2. CASE zone = "near"
    <3>1. s = [d EXCEPT !.count = 0, !.state = NearFrom[d.state],
                !.temp = IF d.state \in {"Step2Far", "Step3Far"} THEN 2 ELSE @]
      BY <2>2 DEF Sense
    <3> QED BY <3>1, Zenon DEF Sensors
  <2> QED BY <2>1, <2>2
<1> HIDE DEF s
<1>3. Expire(s) = s
  BY <1>2 DEF Expire
<1>4. TakeAck(s) = s
  BY <1>1 DEF TakeAck, Acked
<1>5. Pass(d, zone) = [s EXCEPT !.tx = [cmd |-> s.cmd, temp |-> s.temp]]
  BY <1>3, <1>4 DEF Pass, Publish, s
<1> QED BY <1>1, <1>2, <1>5 DEF Sensed

LEMMA WaveIs ==
  ASSUME NEW d
  PROVE  /\ Ripe(d) \in {0, 1, 2}
         /\ d.state \notin {"Step3Far", "Step3Near"} => Ripe(d) = 0
         /\ d.count # TimeoutLimit => Ripe(d) = 0
         /\ d.count = TimeoutLimit /\ d.state = "Step3Far" => Ripe(d) = LightOff
         /\ d.count = TimeoutLimit /\ d.state = "Step3Near" => Ripe(d) = LightOn
BY DEF Ripe, LightOff, LightOn

LEMMA PassWave ==
  ASSUME NEW d \in Sensors, NEW zone \in Zones
  PROVE  /\ d.mark = Acked => Ripe(Pass(d, zone)) = 0
         /\ d.mark = 0 =>
              \/ Pass(d, zone).cmd = d.cmd /\ (Ripe(d) = 0 \/ Ripe(Pass(d, zone)) = 0)
              \/ /\ Ripe(d) # 0 /\ Pass(d, zone).cmd = Ripe(d)
                 /\ Ripe(Pass(d, zone)) = 0
<1> USE TimeoutAssumption
<1> DEFINE p == Pass(d, zone)
<1>1. /\ d.mark = Acked => p.state = "IDLE" /\ p.cmd = 0
      /\ d.mark = 0 =>
              \/ zone = "far" /\ p.state = FarFrom[d.state] /\ p.cmd = d.cmd
              \/ zone = "near" /\ p.state = NearFrom[d.state] /\ p.cmd = d.cmd
              \/ /\ zone = "none" /\ d.count < TimeoutLimit
                 /\ p.state = d.state /\ p.cmd = d.cmd
              \/ /\ zone = "none" /\ d.count = TimeoutLimit
                 /\ p.state = "IDLE"
                 /\ p.cmd = CASE d.state = "Step3Far" -> LightOff
                                          [] d.state = "Step3Near" -> LightOn
                                          [] OTHER -> d.cmd
  BY PassState
<1>2. d.mark = 0 /\ zone \in {"far", "near"} => p.count = 0
  BY PassCount
<1> HIDE DEF p
<1>3. d.count \in Nat
  BY DEF Sensors
<1>4. d.mark = Acked => Ripe(p) = 0
  BY <1>1, WaveIs
<1>5. ASSUME d.mark = 0
      PROVE  \/ p.cmd = d.cmd /\ (Ripe(d) = 0 \/ Ripe(p) = 0)
             \/ Ripe(d) # 0 /\ p.cmd = Ripe(d) /\ Ripe(p) = 0
  <2>1. CASE zone \in {"far", "near"}
    BY <1>1, <1>2, <1>5, <2>1, WaveIs
  <2>2. CASE zone = "none" /\ d.count < TimeoutLimit
    BY <1>1, <1>3, <1>5, <2>2, WaveIs
  <2>3. CASE zone = "none" /\ d.count = TimeoutLimit
    <3>1. /\ Ripe(p) = 0
          /\ p.cmd = CASE d.state = "Step3Far" -> LightOff
                       [] d.state = "Step3Near" -> LightOn
                       [] OTHER -> d.cmd
      BY <1>1, <1>5, <2>3, WaveIs
    <3>2. CASE d.state = "Step3Far"
      BY <2>3, <3>1, <3>2, WaveIs DEF LightOff
    <3>3. CASE d.state = "Step3Near"
      BY <2>3, <3>1, <3>3, WaveIs DEF LightOn
    <3>4. CASE d.state \notin {"Step3Far", "Step3Near"}
      BY <3>1, <3>4
    <3> QED BY <3>2, <3>3, <3>4
  <2> QED BY <1>3, <2>1, <2>2, <2>3 DEF Zones, Sensors
<1> QED BY <1>4, <1>5 DEF p

\* A complete gesture has made all its passes.
LEMMA WaveProgress ==
  ASSUME NEW d \in Sensors, Ripe(d) # 0
  PROVE  Progress(d) = TimeoutLimit + 3
<1>1. d.state \in {"Step3Far", "Step3Near"} /\ d.count = TimeoutLimit
  BY WaveIs
<1>2. Stage[d.state] = 3
  BY <1>1 DEF Stage, States
<1> QED BY <1>1, <1>2, TimeoutAssumption DEF Progress
=============================================================================
