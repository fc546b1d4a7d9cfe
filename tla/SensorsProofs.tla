---------------------------- MODULE SensorsProofs ----------------------------
(***************************************************************************)
(* The light commands of a distance sensor are executed exactly once, for  *)
(* every timeout of the gesture and every pace of the two loops that       *)
(* PaceAssumption allows (SensorLink); and the sensor alone knows how many *)
(* bands the hand has entered in turn, for every timeout (Gesture); and    *)
(* the search of a radio node finds every device (WireSearch).             *)
(***************************************************************************)
EXTENDS MCSensors, LampProofs, Sequences, WellFoundedInduction

Alone == INSTANCE LampProofs WITH TimeoutLimit <- GestureTimeout

LEMMA InvInit == Init => LinkInv
<1> SUFFICES ASSUME Init PROVE LinkInv
  OBVIOUS
<1>1. TypeOK
  BY TimeoutAssumption, PaceAssumption
  DEF Init, TypeOK, Powered, Sensors, Published, States, Steps
<1>2. CopiesAgree
  BY DEF Init, CopiesAgree, Powered, Acked
<1>3. GestureBehind
  BY DEF Init, GestureBehind, Powered, Acked
<1> QED BY <1>1, <1>2, <1>3 DEF LinkInv

LEMMA PassInv ==
  ASSUME LinkInv, SensorPass
  PROVE  LinkInv'
<1> USE TimeoutAssumption, PaceAssumption
<1>1. PICK zone \in Zones : dev' = Pass(dev, zone)
  BY DEF SensorPass
<1>2. /\ away < MaxAway /\ away' = away + 1 /\ step' = step /\ uiLightCmd' = uiLightCmd
      /\ executed' = executed
      /\ dev \in Sensors /\ away \in Nat
  BY DEF SensorPass, LinkInv, TypeOK
<1>3. /\ dev' \in Sensors /\ dev'.tx.cmd = dev'.cmd /\ dev'.mark = 0
      /\ Progress(dev') <= Progress(dev) + 1
      /\ dev.mark = Acked => dev'.cmd = 0 /\ Progress(dev') = 0
      /\ dev.mark = 0 => \/ dev'.cmd = dev.cmd
                         \/ /\ Progress(dev) >= TimeoutLimit + 3
                            /\ dev'.cmd \in {LightOff, LightOn}
                            /\ Progress(dev') = 0
  BY <1>1, <1>2, PassEffect
<1>4. Progress(dev) \in Nat /\ Progress(dev') \in Nat
  BY <1>2, <1>3, ProgressType
<1>5. dev.mark \in {0, Acked} /\ 0 # Acked /\ dev.cmd \in Nat
  BY <1>2 DEF Sensors, Acked
<1>6. dev.cmd # 0 /\ dev.mark = 0 => dev'.cmd = dev.cmd
  BY <1>2, <1>3, <1>4 DEF LinkInv, GestureBehind
<1>7. TypeOK'
  BY <1>2, <1>3 DEF LinkInv, TypeOK
<1>8. CopiesAgree'
  BY <1>2, <1>3, <1>4, <1>5, <1>6 DEF LinkInv, CopiesAgree
<1>9. GestureBehind'
  BY <1>2, <1>3, <1>4, <1>5, <1>6 DEF LinkInv, GestureBehind
<1> QED BY <1>7, <1>8, <1>9 DEF LinkInv

LEMMA VisitInv ==
  ASSUME LinkInv, Visit
  PROVE  LinkInv'
<1> USE TimeoutAssumption, PaceAssumption
<1>1. /\ dev \in Sensors /\ away \in Nat /\ uiLightCmd \in 0 .. 2
      /\ Progress(dev) \in Nat /\ away <= MaxAway
      /\ dev.cmd \in 0 .. 2 /\ dev.tx.cmd = dev.cmd
      /\ dev.mark \in {0, Acked} /\ 0 # Acked
  BY ProgressType DEF LinkInv, TypeOK, CopiesAgree, Sensors, Acked
<1>2. ASSUME dev' = dev
      PROVE  Progress(dev') = Progress(dev)
  BY <1>2
<1>3. CASE Address
  BY <1>1, <1>2, <1>3
  DEF Address, LinkInv, TypeOK, CopiesAgree, GestureBehind, Steps
<1>4. CASE ReadCmd
  BY <1>1, <1>2, <1>4
  DEF ReadCmd, LinkInv, TypeOK, CopiesAgree, GestureBehind, Steps
<1>5. CASE ReadTemp
  BY <1>1, <1>2, <1>5
  DEF ReadTemp, LinkInv, TypeOK, CopiesAgree, GestureBehind, Steps
<1>6. CASE Acknowledge
  <2>1. /\ dev' = [dev EXCEPT !.mark = Acked] /\ step = "ack" /\ step' = "execute"
        /\ uiLightCmd' = uiLightCmd /\ away' = away /\ executed' = executed
    BY <1>6 DEF Acknowledge
  <2>2. /\ dev' \in Sensors /\ dev'.mark = Acked /\ dev'.cmd = dev.cmd
        /\ dev'.tx = dev.tx /\ dev'.state = dev.state /\ dev'.count = dev.count
    BY <1>1, <2>1 DEF Sensors
  <2>3. Progress(dev') = Progress(dev)
    BY <2>2 DEF Progress
  <2> QED
    BY <1>1, <2>1, <2>2, <2>3
    DEF LinkInv, TypeOK, CopiesAgree, GestureBehind, Steps
<1>7. CASE NotAcknowledged
  BY <1>1, <1>2, <1>7
  DEF NotAcknowledged, LinkInv, TypeOK, CopiesAgree, GestureBehind, Steps
<1>8. CASE Execute
  BY <1>1, <1>2, <1>8
  DEF Execute, LinkInv, TypeOK, CopiesAgree, GestureBehind, Steps
<1> QED BY <1>3, <1>4, <1>5, <1>6, <1>7, <1>8 DEF Visit

LEMMA InvNext == LinkInv /\ [Next]_vars => LinkInv'
<1> SUFFICES ASSUME LinkInv, [Next]_vars PROVE LinkInv'
  OBVIOUS
<1>1. CASE UNCHANGED vars
  BY <1>1 DEF vars, LinkInv, TypeOK, CopiesAgree, GestureBehind
<1>2. CASE Elsewhere
  <2>1. /\ step = "away" /\ UNCHANGED <<dev, step, away, executed>> /\ uiLightCmd' \in 0 .. 2
    BY <1>2 DEF Elsewhere
  <2>2. Progress(dev') = Progress(dev)
    BY <2>1
  <2> QED BY <2>1, <2>2 DEF LinkInv, TypeOK, CopiesAgree, GestureBehind
<1> QED BY <1>1, <1>2, PassInv, VisitInv DEF Next

(* The sensor's and the controller's copies of a command agree, and the
   gesture after it stays behind the controller, in every reachable state. *)
THEOREM LinkInvariant == Spec => []LinkInv
BY InvInit, InvNext, PTL DEF Spec

(* An acknowledgement never drops a gesture that ends in the pass taking it. *)
THEOREM Nothing == Spec => []NothingSwallowed
<1>1. LinkInv => NothingSwallowed
  BY TimeoutAssumption, PaceAssumption, ProgressType
  DEF LinkInv, TypeOK, GestureBehind, NothingSwallowed, Progress, Stage, States, Sensors
<1> QED BY <1>1, LinkInvariant, PTL

-----------------------------------------------------------------------------
LEMMA ChannelInit == Init => Channel!Init
BY WaveIs DEF Init, Channel!Init, Offer, Powered, Acked

(* While a command waits no gesture is complete, and none is dropped. *)
LEMMA WaveFree == LinkInv /\ Ripe(dev) # 0 => Offer = 0 /\ dev.mark = 0
<1> SUFFICES ASSUME LinkInv, Ripe(dev) # 0 PROVE Offer = 0 /\ dev.mark = 0
  OBVIOUS
<1> USE TimeoutAssumption, PaceAssumption
<1>1. /\ dev \in Sensors /\ away \in 0 .. MaxAway /\ uiLightCmd \in 0 .. 2
      /\ dev.cmd \in 0 .. 2 /\ dev.mark \in {0, Acked}
  BY DEF LinkInv, TypeOK, Sensors
<1>2. Progress(dev) = TimeoutLimit + 3
  BY <1>1, WaveProgress
<1>3. dev.mark = 0
  BY <1>1, <1>2 DEF LinkInv, GestureBehind, Acked
<1>4. dev.cmd = 0
  BY <1>1, <1>2, <1>3 DEF LinkInv, GestureBehind
<1>5. ~(step \in {"temp", "ack", "execute"} /\ uiLightCmd # 0)
  BY <1>1, <1>2, <1>3, <1>4 DEF LinkInv, CopiesAgree, Acked
<1> QED BY <1>3, <1>4, <1>5 DEF Offer, Acked

LEMMA WaveFreeNext == LinkInv' /\ Ripe(dev') # 0 => Offer' = 0
<1> DEFINE Free == LinkInv /\ Ripe(dev) # 0 => Offer = 0
<1>1. Free
  BY WaveFree
<1>2. Free'
  BY <1>1, PTL
<1>3. Ripe(dev') = Ripe(dev)'
  BY DEF Ripe
<1> QED BY <1>2, <1>3

LEMMA ChannelNext == LinkInv /\ [Next]_vars => [Channel!Next]_<<Ripe(dev), Offer, executed>>
<1> SUFFICES ASSUME LinkInv, [Next]_vars
             PROVE  \/ Ripe(dev') = Ripe(dev) /\ Offer' = Offer /\ executed' = executed
                    \/ /\ Ripe(dev) = 0 /\ Ripe(dev') \in {1, 2} /\ Offer = 0
                       /\ Offer' = Offer /\ executed' = executed
                    \/ Ripe(dev) # 0 /\ Ripe(dev') = 0 /\ Offer' = Offer /\ executed' = executed
                    \/ /\ Ripe(dev) # 0 /\ Offer = 0 /\ Offer' = Ripe(dev) /\ Ripe(dev') = 0
                       /\ executed' = executed
                    \/ /\ Offer # 0 /\ Offer' = 0 /\ executed' = 1 - executed
                       /\ Ripe(dev') = Ripe(dev)
  BY DEF Channel!Next, Channel!Gesture, Channel!Raise, Channel!Execute
<1> USE TimeoutAssumption, PaceAssumption
<1>1. /\ dev \in Sensors /\ away \in Nat /\ uiLightCmd \in 0 .. 2
      /\ Progress(dev) \in Nat /\ away <= MaxAway
      /\ dev.cmd \in 0 .. 2 /\ dev.tx.cmd = dev.cmd
      /\ dev.mark \in {0, Acked} /\ 0 # Acked
  BY ProgressType DEF LinkInv, TypeOK, CopiesAgree, Sensors, Acked
<1>2. CASE SensorPass
  <2>1. PICK zone \in Zones : dev' = Pass(dev, zone)
    BY <1>2 DEF SensorPass
  <2>2. /\ away < MaxAway /\ away' = away + 1 /\ step' = step /\ uiLightCmd' = uiLightCmd
        /\ executed' = executed
    BY <1>2 DEF SensorPass
  <2>3. /\ dev'.mark = 0
        /\ dev.mark = Acked => dev'.cmd = 0
    BY <1>1, <2>1, PassEffect
  <2>4. /\ dev.mark = Acked => Ripe(dev') = 0
        /\ dev.mark = 0 => \/ dev'.cmd = dev.cmd /\ (Ripe(dev) = 0 \/ Ripe(dev') = 0)
                           \/ Ripe(dev) # 0 /\ dev'.cmd = Ripe(dev) /\ Ripe(dev') = 0
    BY <1>1, <2>1, PassWave
  <2>5. /\ Ripe(dev) # 0 => Offer = 0 /\ dev.mark = 0
        /\ Ripe(dev) \in {0, 1, 2} /\ Ripe(dev') \in {0, 1, 2}
    BY WaveFree, WaveIs
  <2>6. LinkInv'
    BY <1>2, InvNext DEF Next
  <2>7. Ripe(dev') # 0 => Offer' = 0
    BY <2>6, WaveFreeNext
  <2>8. CASE step \in {"temp", "ack", "execute"} /\ uiLightCmd # 0
    <3>1. Offer' = Offer /\ Offer # 0
      BY <1>1, <2>2, <2>8 DEF Offer
    <3> QED BY <2>2, <2>5, <2>7, <3>1
  <2>9. CASE ~(step \in {"temp", "ack", "execute"} /\ uiLightCmd # 0)
    <3>1. Offer' = dev'.cmd /\ Offer = IF dev.mark = Acked THEN 0 ELSE dev.cmd
      BY <1>1, <2>2, <2>3, <2>9 DEF Offer
    <3> QED BY <1>1, <2>2, <2>3, <2>4, <2>5, <2>7, <3>1
  <2> QED BY <2>8, <2>9
<1>3. CASE Address
  BY <1>1, <1>3 DEF Address, Offer
<1>4. CASE ReadCmd
  BY <1>1, <1>4 DEF ReadCmd, Offer, LinkInv, CopiesAgree
<1>5. CASE ReadTemp
  BY <1>1, <1>5 DEF ReadTemp, Offer
<1>6. CASE Acknowledge
  <2>1. dev' = [dev EXCEPT !.mark = Acked]
    BY <1>6 DEF Acknowledge
  <2>2. dev'.state = dev.state /\ dev'.count = dev.count
    BY <1>1, <2>1 DEF Sensors
  <2>3. Ripe(dev') = Ripe(dev)
    BY <2>2, Zenon DEF Ripe
  <2>4. Offer' = Offer /\ executed' = executed
    BY <1>1, <1>6 DEF Acknowledge, Offer, LinkInv, CopiesAgree
  <2> QED BY <2>3, <2>4
<1>7. CASE NotAcknowledged
  BY <1>1, <1>7 DEF NotAcknowledged, Offer, LinkInv, CopiesAgree
<1>8. CASE Execute
  BY <1>1, <1>8 DEF Execute, Offer, LinkInv, CopiesAgree
<1>9. CASE UNCHANGED vars
  BY <1>9 DEF vars, Offer
<1>10. CASE Elsewhere
  BY <1>1, <1>10 DEF Elsewhere, Offer
<1> QED BY <1>2, <1>3, <1>4, <1>5, <1>6, <1>7, <1>8, <1>9, <1>10 DEF Next, Visit

(* Every gesture's light command is executed exactly once, and no command
   is executed that a gesture has not raised since. *)
THEOREM CommandsExactlyOnce == Spec => ExactlyOnce
BY LinkInvariant, ChannelInit, ChannelNext, PTL
DEF Spec, ExactlyOnce, Channel!Spec, Channel!vars

-----------------------------------------------------------------------------
(* The gesture automaton alone. *)
LEMMA SameSensors ==
  /\ G!Sensors = Alone!Sensors /\ G!States = Alone!States /\ G!Zones = Alone!Zones
  /\ G!FarFrom = Alone!FarFrom /\ G!NearFrom = Alone!NearFrom
BY DEF G!Sensors, Alone!Sensors, G!States, Alone!States, G!Zones, Alone!Zones, G!Published, Alone!Published,
       G!Acked, Alone!Acked, G!FarFrom, Alone!FarFrom, G!NearFrom, Alone!NearFrom

LEMMA SamePass ==
  ASSUME NEW d, NEW zone
  PROVE  G!Pass(d, zone) = Alone!Pass(d, zone)
BY DEF G!Pass, Alone!Pass, G!Publish, Alone!Publish, G!TakeAck, Alone!TakeAck, G!Expire, Alone!Expire,
       G!Sense, Alone!Sense, G!FarFrom, Alone!FarFrom, G!NearFrom, Alone!NearFrom, G!States, Alone!States,
       G!LightOff, Alone!LightOff, G!LightOn, Alone!LightOn, G!Acked, Alone!Acked

LEMMA AlonePass ==
  ASSUME NEW d \in G!Sensors, NEW zone \in G!Zones
  PROVE  /\ G!Pass(d, zone) \in G!Sensors /\ d.mark \in {0, G!Acked}
         /\ d.mark = G!Acked => G!Pass(d, zone).state = "IDLE" /\ G!Pass(d, zone).cmd = 0
         /\ d.mark = 0 =>
              \/ zone = "far" /\ G!Pass(d, zone).state = G!FarFrom[d.state] /\ G!Pass(d, zone).cmd = d.cmd
              \/ zone = "near" /\ G!Pass(d, zone).state = G!NearFrom[d.state] /\ G!Pass(d, zone).cmd = d.cmd
              \/ /\ zone = "none" /\ G!Pass(d, zone).state = d.state /\ G!Pass(d, zone).cmd = d.cmd
              \/ /\ zone = "none" /\ d.count = GestureTimeout
                 /\ G!Pass(d, zone).state = "IDLE"
                 /\ \/ d.state = "Step3Far" /\ G!Pass(d, zone).cmd = G!LightOff
                    \/ d.state = "Step3Near" /\ G!Pass(d, zone).cmd = G!LightOn
                    \/ G!Pass(d, zone).cmd = d.cmd
<1>1. d \in Alone!Sensors /\ zone \in Alone!Zones
  BY SameSensors
<1>2. G!Acked = Alone!Acked /\ G!LightOff = Alone!LightOff /\ G!LightOn = Alone!LightOn
  BY DEF G!Acked, Alone!Acked, G!LightOff, Alone!LightOff, G!LightOn, Alone!LightOn
<1>3. d.mark \in {0, G!Acked}
  BY DEF G!Sensors
<1> DEFINE p == G!Pass(d, zone)
<1>4. p = Alone!Pass(d, zone)
  BY SamePass
<1>5. GestureTimeout \in Nat \ {0}
  BY AloneAssumption
<1>6. p \in G!Sensors
  BY <1>1, <1>4, <1>5, SameSensors, Alone!PassEffect
<1>7. /\ d.mark = Alone!Acked => p.state = "IDLE" /\ p.cmd = 0
      /\ d.mark = 0 =>
           \/ zone = "far" /\ p.state = Alone!FarFrom[d.state] /\ p.cmd = d.cmd
           \/ zone = "near" /\ p.state = Alone!NearFrom[d.state] /\ p.cmd = d.cmd
           \/ /\ zone = "none" /\ d.count < GestureTimeout
              /\ p.state = d.state /\ p.cmd = d.cmd
           \/ /\ zone = "none" /\ d.count = GestureTimeout
              /\ p.state = "IDLE"
              /\ p.cmd = CASE d.state = "Step3Far" -> Alone!LightOff
                           [] d.state = "Step3Near" -> Alone!LightOn
                           [] OTHER -> d.cmd
  BY <1>1, <1>4, <1>5, Alone!PassState
<1> HIDE DEF p
<1>8. \/ (CASE d.state = "Step3Far" -> Alone!LightOff
           [] d.state = "Step3Near" -> Alone!LightOn
           [] OTHER -> d.cmd) = d.cmd
      \/ d.state = "Step3Far" /\ (CASE d.state = "Step3Far" -> Alone!LightOff
           [] d.state = "Step3Near" -> Alone!LightOn
           [] OTHER -> d.cmd) = Alone!LightOff
      \/ d.state = "Step3Near" /\ (CASE d.state = "Step3Far" -> Alone!LightOff
           [] d.state = "Step3Near" -> Alone!LightOn
           [] OTHER -> d.cmd) = Alone!LightOn
  BY SMT
<1> QED BY <1>2, <1>3, <1>6, <1>7, <1>8, SameSensors DEF p

Bands == {"far", "near"}

LEMMA HistoryIsSeq ==
  ASSUME NEW v
  PROVE  v \in UNION {[1 .. n -> G!Zones \ {"none"}] : n \in 0 .. MaxVisits}
         <=> v \in Seq(Bands) /\ Len(v) <= MaxVisits
<1>1. G!Zones \ {"none"} = Bands
  BY DEF G!Zones, Bands
<1>2. ASSUME NEW n \in 0 .. MaxVisits, v \in [1 .. n -> Bands]
      PROVE  v \in Seq(Bands) /\ Len(v) <= MaxVisits
  BY <1>2, AloneAssumption
<1>3. ASSUME v \in Seq(Bands), Len(v) <= MaxVisits
      PROVE  Len(v) \in 0 .. MaxVisits /\ v \in [1 .. Len(v) -> Bands]
  BY <1>3, AloneAssumption
<1> QED BY <1>1, <1>2, <1>3

(* The state a history stands for, by one case distinction. *)
StateOf(v) ==
  IF v = << >> THEN "IDLE"
  ELSE IF v[Len(v)] = "far"
  THEN IF Len(v) = 1 THEN "Step1Far" ELSE IF Len(v) = 2 THEN "Step2Far" ELSE "Step3Far"
  ELSE IF Len(v) = 1 THEN "Step1Near" ELSE IF Len(v) = 2 THEN "Step2Near" ELSE "Step3Near"

LEMMA StateOfIs ==
  ASSUME NEW v \in Seq(Bands)
  PROVE  StateOf(v) =
           IF v = << >> THEN "IDLE"
           ELSE LET band == IF G!Last(v) = "far" THEN "Far" ELSE "Near"
                IN  CASE Len(v) = 1 -> IF band = "Far" THEN "Step1Far" ELSE "Step1Near"
                      [] Len(v) = 2 -> IF band = "Far" THEN "Step2Far" ELSE "Step2Near"
                      [] OTHER -> IF band = "Far" THEN "Step3Far" ELSE "Step3Near"
<1>1. ASSUME NEW z, z = v[Len(v)], NEW n \in Nat, n = Len(v)
      PROVE  StateOf(v) =
           IF v = << >> THEN "IDLE"
           ELSE LET band == IF G!Last(v) = "far" THEN "Far" ELSE "Near"
                IN  CASE Len(v) = 1 -> IF band = "Far" THEN "Step1Far" ELSE "Step1Near"
                      [] Len(v) = 2 -> IF band = "Far" THEN "Step2Far" ELSE "Step2Near"
                      [] OTHER -> IF band = "Far" THEN "Step3Far" ELSE "Step3Near"
  BY <1>1 DEF StateOf, G!Last
<1>2. Len(v) \in Nat
  OBVIOUS
<1> QED BY <1>1, <1>2, Zenon

(* What a pass makes of the state the history stands for. *)
LEMMA MeaningEntered ==
  ASSUME G!TypeOK, G!StateIsHistory
  PROVE  /\ hand = "far" => G!FarFrom[gesture.state] # "IDLE"
         /\ hand = "near" => G!NearFrom[gesture.state] # "IDLE"
         /\ G!Entered \in Seq(Bands) /\ Len(G!Entered) <= MaxVisits
         /\ hand = "none" => G!Entered = visits
         /\ hand # "none" => G!Entered # << >> /\ G!Last(G!Entered) = hand
         /\ hand = "far" =>
              G!FarFrom[gesture.state] =
                IF Len(G!Entered) = 1 THEN "Step1Far" ELSE IF Len(G!Entered) = 2 THEN "Step2Far" ELSE "Step3Far"
         /\ hand = "near" =>
              G!NearFrom[gesture.state] =
                IF Len(G!Entered) = 1 THEN "Step1Near" ELSE IF Len(G!Entered) = 2 THEN "Step2Near" ELSE "Step3Near"
<1>1. visits \in Seq(Bands) /\ Len(visits) <= MaxVisits /\ Len(visits) \in Nat
  BY HistoryIsSeq DEF G!TypeOK
<1>2. hand \in {"far", "near", "none"}
  BY DEF G!TypeOK, G!Zones
<1>3. gesture.state =
        IF visits = << >> THEN "IDLE"
        ELSE IF visits[Len(visits)] = "far"
        THEN IF Len(visits) = 1 THEN "Step1Far" ELSE IF Len(visits) = 2 THEN "Step2Far" ELSE "Step3Far"
        ELSE IF Len(visits) = 1 THEN "Step1Near" ELSE IF Len(visits) = 2 THEN "Step2Near" ELSE "Step3Near"
  <2>1. gesture.state = StateOf(visits)
    BY <1>1, StateOfIs, Zenon DEF G!StateIsHistory, G!Meaning
  <2> QED BY <2>1 DEF StateOf
<1>4. /\ visits # << >> => Len(visits) >= 1 /\ visits[Len(visits)] \in Bands
      /\ visits = << >> => Len(visits) = 0
  BY <1>1
<1>5. CASE hand = "none"
  <2>1. G!Entered = visits
    BY <1>5 DEF G!Entered
  <2>2. hand # "far" /\ hand # "near"
    BY <1>5
  <2>3. G!Entered \in Seq(Bands) /\ Len(G!Entered) <= MaxVisits
    BY <1>1, <2>1
  <2> QED BY <1>5, <2>1, <2>2, <2>3, Zenon
<1>6. CASE hand # "none" /\ visits # << >> /\ visits[Len(visits)] = hand
  <2>1. G!Entered = visits
    BY <1>6 DEF G!Entered, G!Last
  <2>2. CASE hand = "far"
    <3>1. gesture.state \in {"Step1Far", "Step2Far", "Step3Far"}
      BY <1>1, <1>3, <1>6, <2>2
    <3>2. G!FarFrom[gesture.state] = gesture.state
      BY <3>1 DEF G!FarFrom, G!States
    <3> QED BY <1>1, <1>3, <1>6, <2>1, <2>2, <3>1, <3>2 DEF G!Last
  <2>3. CASE hand = "near"
    <3>1. gesture.state \in {"Step1Near", "Step2Near", "Step3Near"}
      BY <1>1, <1>3, <1>6, <2>3
    <3>2. G!NearFrom[gesture.state] = gesture.state
      BY <3>1 DEF G!NearFrom, G!States
    <3> QED BY <1>1, <1>3, <1>6, <2>1, <2>3, <3>1, <3>2 DEF G!Last
  <2> QED BY <1>2, <1>6, <2>2, <2>3
<1>7. CASE hand # "none" /\ ~(visits # << >> /\ visits[Len(visits)] = hand)
  <2> DEFINE base == IF Len(visits) = MaxVisits THEN Tail(visits) ELSE visits
  <2>1. G!Entered = Append(base, hand)
    BY <1>7 DEF G!Entered, G!Last
  <2>2. base \in Seq(Bands) /\ hand \in Bands
    <3>1. Len(visits) = MaxVisits => visits # << >>
      BY <1>1, AloneAssumption
    <3> QED BY <1>1, <1>2, <1>7, <3>1 DEF Bands
  <2>3. /\ Len(base) <= MaxVisits - 1 /\ Len(base) \in Nat
        /\ \/ Len(base) = Len(visits)
           \/ Len(base) >= 3 /\ Len(visits) >= 4
    <3>1. visits # << >> => Len(Tail(visits)) = Len(visits) - 1
      BY <1>1
    <3> QED BY <1>1, <1>4, <3>1, AloneAssumption
  <2> HIDE DEF base
  <2>4. /\ G!Entered \in Seq(Bands) /\ Len(G!Entered) = Len(base) + 1
        /\ G!Entered[Len(G!Entered)] = hand /\ G!Entered # << >>
    BY <2>1, <2>2
  <2>5. CASE hand = "far"
    <3>1. gesture.state \in {"IDLE", "Step1Near", "Step2Near", "Step3Near"}
      BY <1>1, <1>3, <1>4, <1>7, <2>5 DEF Bands
    <3>2. G!FarFrom[gesture.state] =
            IF gesture.state = "IDLE" THEN "Step1Far"
            ELSE IF gesture.state = "Step1Near" THEN "Step2Far" ELSE "Step3Far"
      BY <3>1 DEF G!FarFrom, G!States
    <3>3. /\ gesture.state = "IDLE" <=> Len(visits) = 0
          /\ gesture.state = "Step1Near" <=> Len(visits) = 1
      BY <1>1, <1>3, <1>4, <1>7, <2>5 DEF Bands
    <3>4. G!FarFrom[gesture.state] =
            IF Len(G!Entered) = 1 THEN "Step1Far" ELSE IF Len(G!Entered) = 2 THEN "Step2Far" ELSE "Step3Far"
      <4>1. /\ Len(G!Entered) = 1 <=> Len(visits) = 0
            /\ Len(G!Entered) = 2 <=> Len(visits) = 1
        <5>1. ASSUME NEW m \in Nat, NEW n \in Nat, NEW b \in Nat,
                     m = b + 1, b = n \/ (b >= 3 /\ n >= 4)
              PROVE  (m = 1 <=> n = 0) /\ (m = 2 <=> n = 1)
          BY <5>1
        <5>2. Len(G!Entered) \in Nat
          BY <2>4
        <5>3. Len(base) \in Nat /\ Len(visits) \in Nat /\ Len(G!Entered) = Len(base) + 1
              /\ (Len(base) = Len(visits) \/ (Len(base) >= 3 /\ Len(visits) >= 4))
          BY <1>1, <2>3, <2>4, Zenon
        <5> QED BY <5>1, <5>2, <5>3, Zenon
      <4> QED BY <3>1, <3>2, <3>3, <4>1, Zenon
    <3>5. Len(G!Entered) <= MaxVisits
      BY <2>3, <2>4, AloneAssumption
    <3> QED BY <2>4, <2>5, <3>4, <3>5 DEF G!Last
  <2>6. CASE hand = "near"
    <3>1. gesture.state \in {"IDLE", "Step1Far", "Step2Far", "Step3Far"}
      BY <1>1, <1>3, <1>4, <1>7, <2>6 DEF Bands
    <3>2. G!NearFrom[gesture.state] =
            IF gesture.state = "IDLE" THEN "Step1Near"
            ELSE IF gesture.state = "Step1Far" THEN "Step2Near" ELSE "Step3Near"
      BY <3>1 DEF G!NearFrom, G!States
    <3>3. /\ gesture.state = "IDLE" <=> Len(visits) = 0
          /\ gesture.state = "Step1Far" <=> Len(visits) = 1
      BY <1>1, <1>3, <1>4, <1>7, <2>6 DEF Bands
    <3>4. G!NearFrom[gesture.state] =
            IF Len(G!Entered) = 1 THEN "Step1Near" ELSE IF Len(G!Entered) = 2 THEN "Step2Near" ELSE "Step3Near"
      <4>1. /\ Len(G!Entered) = 1 <=> Len(visits) = 0
            /\ Len(G!Entered) = 2 <=> Len(visits) = 1
        <5>1. ASSUME NEW m \in Nat, NEW n \in Nat, NEW b \in Nat,
                     m = b + 1, b = n \/ (b >= 3 /\ n >= 4)
              PROVE  (m = 1 <=> n = 0) /\ (m = 2 <=> n = 1)
          BY <5>1
        <5>2. Len(G!Entered) \in Nat
          BY <2>4
        <5>3. Len(base) \in Nat /\ Len(visits) \in Nat /\ Len(G!Entered) = Len(base) + 1
              /\ (Len(base) = Len(visits) \/ (Len(base) >= 3 /\ Len(visits) >= 4))
          BY <1>1, <2>3, <2>4, Zenon
        <5> QED BY <5>1, <5>2, <5>3, Zenon
      <4> QED BY <3>1, <3>2, <3>3, <4>1, Zenon
    <3>5. Len(G!Entered) <= MaxVisits
      BY <2>3, <2>4, AloneAssumption
    <3> QED BY <2>4, <2>6, <3>4, <3>5 DEF G!Last
  <2> QED BY <1>2, <1>7, <2>5, <2>6
<1> QED BY <1>5, <1>6, <1>7

LEMMA GestureInit == G!Init => StateIsHistory
<1> SUFFICES ASSUME G!Init PROVE StateIsHistory
  OBVIOUS
<1>1. gesture \in G!Sensors /\ gesture.state = "IDLE"
  BY AloneAssumption DEF G!Init, G!Powered, G!Sensors, G!States, G!Published
<1>2. visits = << >> /\ hand = "none"
  BY DEF G!Init
<1>3. visits \in Seq(Bands) /\ Len(visits) <= MaxVisits
  BY <1>2, AloneAssumption
<1>4. G!TypeOK
  BY <1>1, <1>2, <1>3, HistoryIsSeq DEF G!TypeOK, G!Zones
<1> QED BY <1>1, <1>2, <1>4 DEF StateIsHistory, G!StateIsHistory, G!Meaning

LEMMA GestureKeeps == StateIsHistory /\ [G!Next]_G!vars => StateIsHistory'
<1> SUFFICES ASSUME G!TypeOK, G!StateIsHistory, [G!Next]_G!vars
             PROVE  G!TypeOK' /\ G!StateIsHistory'
  BY DEF StateIsHistory
<1>1. CASE UNCHANGED G!vars
  BY <1>1 DEF G!vars, G!TypeOK, G!StateIsHistory, G!Meaning
<1>2. CASE \E zone \in G!Zones : G!Move(zone)
  BY <1>2 DEF G!Move, G!TypeOK, G!StateIsHistory, G!Meaning
<1>3. CASE G!MasterAck
  <2>1. gesture' = [gesture EXCEPT !.mark = G!Acked] /\ hand' = hand /\ visits' = visits
    BY <1>3 DEF G!MasterAck
  <2>2. gesture' \in G!Sensors /\ gesture'.state = gesture.state
    BY <2>1 DEF G!TypeOK, G!Sensors
  <2> QED BY <2>1, <2>2 DEF G!TypeOK, G!StateIsHistory, G!Meaning
<1>4. CASE G!SensorPass
  <2>1. /\ gesture' = G!Pass(gesture, hand) /\ hand' = hand
        /\ visits' = IF gesture'.state = "IDLE" THEN << >> ELSE G!Entered
        /\ gesture \in G!Sensors /\ hand \in G!Zones
    BY <1>4 DEF G!SensorPass, G!TypeOK
  <2>2. << >> \in Seq(Bands) /\ Len(<< >>) <= MaxVisits
    BY AloneAssumption
  <2>3. G!TypeOK'
    <3>1. visits' \in Seq(Bands) /\ Len(visits') <= MaxVisits
      BY <2>1, <2>2, MeaningEntered
    <3>2. visits' \in UNION {[1 .. n -> G!Zones \ {"none"}] : n \in 0 .. MaxVisits}
      BY <3>1, HistoryIsSeq, Zenon
    <3>3. gesture' \in G!Sensors /\ hand' \in G!Zones
      BY <2>1, AlonePass, Zenon
    <3> QED BY <3>2, <3>3 DEF G!TypeOK
  <2>4. CASE gesture'.state = "IDLE"
    BY <2>1, <2>3, <2>4 DEF G!StateIsHistory, G!Meaning
  <2>5. CASE gesture'.state # "IDLE"
    <3>1. visits' = G!Entered
      BY <2>1, <2>5
    <3>2. G!Entered \in Seq(Bands) /\ Len(G!Entered) \in Nat
      BY MeaningEntered
    <3>3. CASE hand = "none"
      <4>1. gesture'.state = gesture.state /\ visits' = visits
        BY <2>1, <2>5, <3>1, <3>3, AlonePass, MeaningEntered
      <4> QED BY <2>3, <4>1 DEF G!StateIsHistory, G!Meaning
    <3>4. CASE hand = "far"
      <4>1. gesture'.state = G!FarFrom[gesture.state]
        BY <2>1, <2>5, <3>4, AlonePass
      <4>2. /\ visits' # << >> /\ visits'[Len(visits')] = "far"
            /\ gesture'.state = IF Len(visits') = 1 THEN "Step1Far"
                                ELSE IF Len(visits') = 2 THEN "Step2Far" ELSE "Step3Far"
        BY <3>1, <3>4, <4>1, MeaningEntered DEF G!Last
      <4>3. G!Meaning' = StateOf(visits')
        BY <3>1, <3>2, StateOfIs, Zenon DEF G!Meaning
      <4> QED BY <2>3, <4>2, <4>3 DEF G!StateIsHistory, StateOf
    <3>5. CASE hand = "near"
      <4>1. gesture'.state = G!NearFrom[gesture.state]
        BY <2>1, <2>5, <3>5, AlonePass
      <4>2. /\ visits' # << >> /\ visits'[Len(visits')] = "near" /\ visits'[Len(visits')] # "far"
            /\ gesture'.state = IF Len(visits') = 1 THEN "Step1Near"
                                ELSE IF Len(visits') = 2 THEN "Step2Near" ELSE "Step3Near"
        BY <3>1, <3>5, <4>1, MeaningEntered DEF G!Last
      <4>3. G!Meaning' = StateOf(visits')
        BY <3>1, <3>2, StateOfIs, Zenon DEF G!Meaning
      <4> QED BY <2>3, <4>2, <4>3 DEF G!StateIsHistory, StateOf
    <3> QED BY <2>1, <3>3, <3>4, <3>5 DEF G!Zones
  <2> QED BY <2>3, <2>4, <2>5
<1> QED BY <1>1, <1>2, <1>3, <1>4 DEF G!Next

(* Whatever path the hand takes and whenever it is acknowledged, the state
   of the automaton is what the bands entered in turn make it. *)
THEOREM AutomatonRemembers == G!Spec => []StateIsHistory
BY GestureInit, GestureKeeps, PTL DEF G!Spec

(* A command takes three bands in turn and a whole timeout outside both. *)
THEOREM WaveTakesThree == G!Spec => CommandMeansWave
<1> DEFINE Wave == gesture'.cmd # gesture.cmd /\ gesture'.cmd # 0
      => /\ Len(visits) >= 3 /\ hand = "none" /\ gesture.count = GestureTimeout
         /\ gesture'.cmd = IF G!Last(visits) = "far" THEN G!LightOff ELSE G!LightOn
<1>1. StateIsHistory /\ [G!Next]_G!vars => [Wave]_G!vars
  <2> SUFFICES ASSUME G!TypeOK, G!StateIsHistory, G!Next, gesture'.cmd # gesture.cmd, gesture'.cmd # 0
               PROVE  /\ Len(visits) >= 3 /\ hand = "none" /\ gesture.count = GestureTimeout
                      /\ gesture'.cmd = IF G!Last(visits) = "far" THEN G!LightOff ELSE G!LightOn
    BY DEF StateIsHistory
  <2>1. gesture \in G!Sensors /\ hand \in G!Zones
    BY DEF G!TypeOK
  <2>2. G!SensorPass
    <3>1. CASE \E zone \in G!Zones : G!Move(zone)
      BY <3>1 DEF G!Move
    <3>2. CASE G!MasterAck
      BY <2>1, <3>2 DEF G!MasterAck, G!Sensors
    <3> QED BY <3>1, <3>2 DEF G!Next
  <2>3. gesture' = G!Pass(gesture, hand)
    BY <2>2 DEF G!SensorPass
  <2>4. /\ hand = "none" /\ gesture.count = GestureTimeout
        /\ \/ gesture.state = "Step3Far" /\ gesture'.cmd = G!LightOff
           \/ gesture.state = "Step3Near" /\ gesture'.cmd = G!LightOn
    BY <2>1, <2>3, AlonePass
  <2>5. visits \in Seq(Bands) /\ Len(visits) \in Nat
    BY HistoryIsSeq DEF G!TypeOK
  <2>6. /\ Len(visits) >= 3
        /\ gesture.state = "Step3Far" => G!Last(visits) = "far"
        /\ gesture.state = "Step3Near" => G!Last(visits) # "far"
    <3>1. gesture.state = StateOf(visits)
      BY <2>5, StateOfIs, Zenon DEF G!StateIsHistory, G!Meaning
    <3>2. Len(visits) = 0 => visits = << >>
      BY <2>5
    <3>3. gesture.state \in {"Step3Far", "Step3Near"}
      BY <2>4
    <3>4. visits # << >> /\ Len(visits) # 1 /\ Len(visits) # 2
      BY <2>5, <3>1, <3>2, <3>3 DEF StateOf
    <3>5. ASSUME NEW n \in Nat, n = Len(visits) PROVE n >= 3
      BY <3>2, <3>4, <3>5
    <3> QED BY <2>4, <2>5, <3>1, <3>4, <3>5 DEF G!Last, StateOf
  <2> QED BY <2>4, <2>6
<1> QED BY <1>1, AutomatonRemembers, PTL DEF G!Spec, CommandMeansWave, G!CommandMeansWave

-----------------------------------------------------------------------------

Addrs == S!Addresses
FIRST == S!SEARCH_FIRST

(* Two addresses agree in their first bits; one leaves the other's path at a
   bit, downwards. *)
Agree(d, e, k) == \A x \in 1 .. k : d[x] = e[x]
Under(d, e, j) == Agree(d, e, j - 1) /\ d[j] = 0 /\ e[j] = 1

(* The next bit, and the one that the last conflict is at. *)
Now == Bits - i + 1
Place(n) == Bits - n + 1

(* The bit at which a pass leaves the last one's path, and what the passes
   from this one on have still to find. *)
Turn == Place(diff)
AheadOf(d, e, t) == (\E j \in 1 .. t - 1 : Under(d, e, j)) \/ (Agree(d, e, t - 1) /\ d[t] = 0)
Ahead(d) == diff = FIRST \/ AheadOf(d, id, Turn)

Answering == IF i = 0 THEN bus ELSE active
Turns == diff # FIRST /\ (i > 0 => Now <= Turn)

SearchTyped ==
  /\ bus \subseteq Addrs /\ stayed \subseteq bus /\ active \subseteq bus /\ changes \in Nat
  /\ i \in 0 .. Bits /\ id \in Addrs /\ next_diff \in 0 .. Bits
  /\ searching => frames \in Seq(Addrs)
  /\ searching => diff \in 1 .. Bits \/ diff = FIRST
  /\ ~searching => i = 0
  /\ changes = 0 => stayed = bus

(* The devices that still answer are those of the path so far. *)
PathInv ==
  i > 0 =>
    /\ \A d \in active : Agree(d, id, Now - 1)
    /\ \A d \in stayed : Agree(d, id, Now - 1) => d \in active
    /\ next_diff # 0 => Place(next_diff) \in 1 .. Now - 1 /\ id[Place(next_diff)] = 1
    /\ \A d \in stayed : \A j \in 1 .. Now - 1 : Under(d, id, j) => next_diff # 0 /\ j <= Place(next_diff)

(* With one device that has come or gone the path is kept up to the turn, and
   nothing is passed by. *)
FoundInv ==
  searching /\ changes <= 1 =>
    /\ \A d \in stayed \cap Thermometers : d \in S!Reported \/ Ahead(d)
    /\ i > 0 => \A d \in stayed \cap Thermometers : \A j \in 1 .. Now - 1 : Under(id, d, j) => d \in S!Reported
    /\ Turns => \E z \in Answering : Agree(z, id, Turn - 1)

(* While no device comes or goes, each is found once. *)
OnceInv ==
  searching /\ changes = 0 =>
    /\ S!IsInjective(frames) /\ S!Reported \subseteq bus \cap Thermometers
    /\ IF diff = FIRST THEN frames = << >> ELSE \A e \in S!Reported : ~ AheadOf(e, id, Turn)
    /\ Turns => \A a \in {0, 1} : \E z \in Answering : Agree(z, id, Turn - 1) /\ z[Turn] = a
    /\ i > 0 /\ diff # FIRST /\ Turn < Now => id[Turn] = 0
    /\ i > 0 /\ next_diff # 0 =>
         \E z \in bus : Agree(z, id, Place(next_diff) - 1) /\ z[Place(next_diff)] = 0

WireInv == SearchTyped /\ PathInv /\ FoundInv /\ OnceInv /\ S!AllFound

-----------------------------------------------------------------------------

(* Two addresses that differ have a first bit in which they do. *)
LEMMA FirstDifference ==
  ASSUME NEW d \in Addrs, NEW e \in Addrs, d # e
  PROVE  \E j \in 1 .. Bits : Under(d, e, j) \/ Under(e, d, j)
<1> DEFINE Differ == {j \in 1 .. Bits : d[j] # e[j]}
<1>1. /\ d = [x \in 1 .. Bits |-> d[x]] /\ e = [x \in 1 .. Bits |-> e[x]]
      /\ \A x \in 1 .. Bits : d[x] \in {0, 1} /\ e[x] \in {0, 1}
  BY DEF Addrs, S!Addresses
<1>2. Differ \subseteq Nat /\ Differ # {}
  <2>1. ASSUME Differ = {} PROVE FALSE
    <3>1. \A x \in 1 .. Bits : d[x] = e[x]
      BY <2>1
    <3> QED BY <1>1, <3>1
  <2> QED BY <2>1, AddressAssumption
<1>3. PICK j \in Differ : \A y \in Differ : ~ (<<y, j>> \in OpToRel(<, Nat))
  <2> HIDE DEF Differ
  <2> QED BY <1>2, NatLessThanWellFounded, WFMin, Zenon
<1>4. j \in 1 .. Bits /\ d[j] # e[j]
  OBVIOUS
<1>5. ASSUME NEW x \in 1 .. j - 1 PROVE d[x] = e[x]
  <2>1. x \in Nat /\ j \in Nat /\ x < j /\ x \in 1 .. Bits
    BY <1>4, AddressAssumption
  <2>2. <<x, j>> \in OpToRel(<, Nat)
    BY <2>1 DEF OpToRel
  <2> QED BY <1>3, <2>1, <2>2
<1> QED BY <1>1, <1>4, <1>5 DEF Under, Agree

(* A device that leaves a path upwards before or at the turn is not ahead. *)
LEMMA NotAhead ==
  ASSUME NEW d, NEW e, NEW k \in 1 .. Bits, NEW t \in 1 .. Bits,
         Agree(d, e, k - 1), d[k] = 1, k <= t, k < t => e[k] = 0
  PROVE  ~ AheadOf(d, e, t)
<1>1. ASSUME NEW j \in 1 .. t - 1, Under(d, e, j) PROVE FALSE
  <2>1. CASE j < k
    BY <1>1, <2>1, AddressAssumption DEF Under, Agree
  <2>2. CASE j = k
    BY <1>1, <2>2 DEF Under
  <2>3. CASE j > k
    BY <1>1, <2>3, AddressAssumption DEF Under, Agree
  <2> QED BY <1>1, <2>1, <2>2, <2>3, AddressAssumption
<1>2. ASSUME Agree(d, e, t - 1), d[t] = 0 PROVE FALSE
  <2>1. CASE k = t
    BY <1>2, <2>1
  <2>2. CASE k < t
    BY <1>2, <2>2, AddressAssumption DEF Agree
  <2> QED BY <2>1, <2>2, AddressAssumption
<1> QED BY <1>1, <1>2 DEF AheadOf

(* An address with one bit set anew, and any other. *)
Sets(d, e, k, b, f) ==
  /\ f \in Addrs /\ f[k] = b
  /\ \A x \in 1 .. Bits : x # k => f[x] = e[x]
  /\ \A j \in 0 .. k - 1 : Agree(d, f, j) <=> Agree(d, e, j)
  /\ Agree(d, f, k) <=> Agree(d, e, k - 1) /\ d[k] = b
  /\ \A j \in 1 .. k - 1 : /\ Under(d, f, j) <=> Under(d, e, j)
                           /\ Under(f, d, j) <=> Under(e, d, j)
  /\ Under(d, f, k) <=> Agree(d, e, k - 1) /\ d[k] = 0 /\ b = 1
  /\ Under(f, d, k) <=> Agree(d, e, k - 1) /\ d[k] = 1 /\ b = 0

LEMMA OneBit ==
  ASSUME NEW e \in Addrs, NEW k \in 1 .. Bits, NEW b \in {0, 1}, NEW d
  PROVE  Sets(d, e, k, b, [e EXCEPT ![k] = b])
<1> DEFINE f == [e EXCEPT ![k] = b]
<1>1. f \in Addrs /\ f[k] = b /\ \A x \in 1 .. Bits : x # k => f[x] = e[x]
  BY DEF Addrs, S!Addresses
<1> HIDE DEF f
<1>2. \A j \in 0 .. k - 1 : (Agree(d, f, j) <=> Agree(d, e, j)) /\ (Agree(f, d, j) <=> Agree(d, e, j))
  BY <1>1, AddressAssumption DEF Agree
<1>3. Agree(d, f, k) <=> Agree(d, e, k - 1) /\ d[k] = b
  <2>1. ASSUME Agree(d, f, k) PROVE Agree(d, e, k - 1) /\ d[k] = b
    BY <1>1, <2>1, AddressAssumption DEF Agree
  <2>2. ASSUME Agree(d, e, k - 1), d[k] = b, NEW x \in 1 .. k PROVE d[x] = f[x]
    BY <1>1, <2>2, AddressAssumption DEF Agree
  <2> QED BY <2>1, <2>2 DEF Agree
<1>4. \A j \in 1 .. k - 1 : j - 1 \in 0 .. k - 1 /\ j \in 1 .. Bits /\ j # k
  BY AddressAssumption
<1>5. \A j \in 1 .. k - 1 : Agree(d, e, j - 1) <=> Agree(e, d, j - 1)
  BY DEF Agree
<1>6. \A j \in 1 .. k - 1 : (Under(d, f, j) <=> Under(d, e, j)) /\ (Under(f, d, j) <=> Under(e, d, j))
  BY <1>1, <1>2, <1>4, <1>5 DEF Under
<1>7. k - 1 \in 0 .. k - 1
  BY AddressAssumption
<1>8. /\ Under(d, f, k) <=> Agree(d, e, k - 1) /\ d[k] = 0 /\ b = 1
      /\ Under(f, d, k) <=> Agree(d, e, k - 1) /\ d[k] = 1 /\ b = 0
  BY <1>1, <1>2, <1>7 DEF Under
<1> QED BY <1>1, <1>2, <1>3, <1>6, <1>8 DEF f, Sets

-----------------------------------------------------------------------------

(* One bit of a pass: what the devices say, the bit chosen, the path and the
   last conflict after it. *)
Answers == {d[Now] : d \in active}
Chosen ==
  IF Answers = {0, 1} THEN (IF S!Branch(id[Now]) THEN 1 ELSE 0) ELSE CHOOSE a \in Answers : TRUE
Path == [id EXCEPT ![Now] = Chosen]
Conflict == IF Answers = {0, 1} /\ Chosen = 1 THEN i ELSE next_diff

LEMMA BitIs ==
  ASSUME S!Bit
  PROVE  /\ searching /\ i > 0 /\ UNCHANGED <<bus, stayed, changes>>
         /\ Answers = {} => /\ diff' = S!DATA_ERR /\ searching' = FALSE /\ i' = 0 /\ active' = {}
                            /\ id' = id /\ next_diff' = next_diff
         /\ Answers # {} =>
              /\ i' = i - 1 /\ id' = Path /\ next_diff' = Conflict
              /\ i = 1 => active' = {} /\ S!Found(Path, Conflict)
              /\ i # 1 => /\ active' = {d \in active : d[Now] = Chosen}
                          /\ UNCHANGED <<diff, searching, frames>>
BY Zenon DEF S!Bit, S!Abort, Answers, Chosen, Path, Conflict, Now

(* The bit chosen is the answer of a device; where they differ it is the last
   path's before the turn, 0 at it and 1 after it. *)
LEMMA ChosenIs ==
  ASSUME SearchTyped, searching, i > 0, Answers # {}
  PROVE  /\ Now \in 1 .. Bits /\ Answers \subseteq {0, 1}
         /\ Chosen \in {0, 1} /\ Chosen \in Answers
         /\ Answers = {0, 1} => /\ diff < i => Chosen = 0 \/ id[Now] = 1
                                /\ diff < i => Chosen = 1 \/ id[Now] = 0
                                /\ diff = i => Chosen = 0
<1>1. Now \in 1 .. Bits /\ i \in Nat /\ diff \in Nat
  BY AddressAssumption DEF SearchTyped, Now, FIRST, S!SEARCH_FIRST
<1>2. Answers \subseteq {0, 1} /\ id[Now] \in {0, 1}
  BY <1>1 DEF SearchTyped, Answers, Addrs, S!Addresses
<1>3. CASE Answers = {0, 1}
  BY <1>1, <1>2, <1>3 DEF Chosen, S!Branch
<1>4. CASE Answers # {0, 1}
  BY <1>1, <1>2, <1>4 DEF Chosen
<1> QED BY <1>1, <1>2, <1>3, <1>4

LEMMA PathIs ==
  ASSUME id \in Addrs, Now \in 1 .. Bits, Chosen \in {0, 1}
  PROVE  \A d : Sets(d, id, Now, Chosen, Path)
BY OneBit, Zenon DEF Path

PathOn ==
  /\ Path \in Addrs /\ Conflict \in 0 .. Bits /\ Path[Now] = Chosen
  /\ \A x \in 1 .. Bits : x # Now => Path[x] = id[x]
  /\ \A d \in active : Agree(d, id, Now - 1)
  /\ \A d \in active : d[Now] = Chosen => Agree(d, Path, Now)
  /\ \E d \in active : d[Now] = Chosen
  /\ \A d \in stayed : Agree(d, Path, Now) => d \in active /\ d[Now] = Chosen
  /\ Conflict # 0 => Place(Conflict) \in 1 .. Now /\ Path[Place(Conflict)] = 1
  /\ \A d \in stayed : \A j \in 1 .. Now : Under(d, Path, j) => Conflict # 0 /\ j <= Place(Conflict)

LEMMA PathGoesOn ==
  ASSUME SearchTyped, PathInv, searching, i > 0, Answers # {}
  PROVE  PathOn
<1>1. /\ Now \in 1 .. Bits /\ Answers \subseteq {0, 1} /\ Chosen \in {0, 1} /\ Chosen \in Answers
      /\ id \in Addrs /\ next_diff \in 0 .. Bits /\ i \in 1 .. Bits /\ Place(i) = Now
  BY ChosenIs, AddressAssumption DEF SearchTyped, Now, Place
<1> DEFINE k == Now
           b == Chosen
           f == Path
<1>2. \A d : /\ f \in Addrs /\ f[k] = b
             /\ \A x \in 1 .. Bits : x # k => f[x] = id[x]
             /\ Agree(d, f, k) <=> Agree(d, id, k - 1) /\ d[k] = b
             /\ \A j \in 1 .. k - 1 : Under(d, f, j) <=> Under(d, id, j)
             /\ Under(d, f, k) <=> Agree(d, id, k - 1) /\ d[k] = 0 /\ b = 1
  BY <1>1, PathIs DEF Sets
<1>3. /\ \A d \in active : Agree(d, id, k - 1)
      /\ \A d \in stayed : Agree(d, id, k - 1) => d \in active
      /\ next_diff # 0 => Place(next_diff) \in 1 .. k - 1 /\ id[Place(next_diff)] = 1
      /\ \A d \in stayed : \A j \in 1 .. k - 1 : Under(d, id, j) => next_diff # 0 /\ j <= Place(next_diff)
  BY DEF PathInv
<1>4. \A d \in active : d[k] \in Answers
  BY DEF Answers
<1>5. \E d \in active : d[k] = b
  BY <1>1 DEF Answers
<1>6. Conflict = (IF Answers = {0, 1} /\ b = 1 THEN i ELSE next_diff)
  BY DEF Conflict
<1>7. \A d \in active : d[k] = 0 /\ b = 1 => Answers = {0, 1}
  BY <1>1, <1>4
<1> HIDE DEF k, b, f
<1>8. Conflict # 0 => Place(Conflict) \in 1 .. k /\ f[Place(Conflict)] = 1
  <2>1. CASE Answers = {0, 1} /\ b = 1
    BY <1>1, <1>2, <1>6, <2>1 DEF k
  <2>2. CASE ~ (Answers = {0, 1} /\ b = 1)
    BY <1>1, <1>2, <1>3, <1>6, <2>2, AddressAssumption DEF k
  <2> QED BY <2>1, <2>2
<1>9. ASSUME NEW d \in stayed, NEW j \in 1 .. k, Under(d, f, j) PROVE Conflict # 0 /\ j <= Place(Conflict)
  <2>1. CASE j = k
    <3>1. Agree(d, id, k - 1) /\ d[k] = 0 /\ b = 1
      BY <1>2, <1>9, <2>1
    <3>2. Conflict = i
      BY <1>3, <1>6, <1>7, <3>1
    <3> QED BY <1>1, <2>1, <3>2 DEF k
  <2>2. CASE j # k
    <3>1. j \in 1 .. k - 1
      BY <1>1, <2>2 DEF k
    <3>2. next_diff # 0 /\ j <= Place(next_diff) /\ Place(next_diff) \in 1 .. k - 1
      BY <1>2, <1>3, <1>9, <3>1
    <3>3. Place(next_diff) <= k
      BY <1>1, <3>2 DEF k
    <3>4. j <= k
      BY <1>1 DEF k
    <3> QED BY <1>1, <1>6, <3>2, <3>4 DEF k
  <2> QED BY <2>1, <2>2
<1>10. Conflict \in 0 .. Bits
  BY <1>1, <1>6
<1> QED BY <1>1, <1>2, <1>3, <1>5, <1>8, <1>9, <1>10 DEF PathOn, k, b, f

(* Up to the turn a device shows the bit of the last path. *)
LEMMA PathIsKept ==
  ASSUME SearchTyped, PathInv, FoundInv, searching, i > 0, Answers # {}, changes <= 1,
         diff # FIRST, Now < Turn
  PROVE  Chosen = id[Now] /\ Path = id
<1>1. /\ Now \in 1 .. Bits /\ Answers \subseteq {0, 1} /\ Chosen \in Answers
      /\ id \in Addrs /\ diff \in 1 .. Bits /\ i \in 1 .. Bits
      /\ Answers = {0, 1} => /\ diff < i => Chosen = 0 \/ id[Now] = 1
                             /\ diff < i => Chosen = 1 \/ id[Now] = 0
  BY ChosenIs DEF SearchTyped
<1>2. diff < i
  BY <1>1, AddressAssumption DEF Turn, Place, Now
<1>3. Now \in 1 .. Turn - 1 /\ Now <= Turn
  BY <1>1, AddressAssumption DEF Turn, Place
<1>4. PICK z \in active : Agree(z, id, Turn - 1)
  BY <1>1, <1>3 DEF FoundInv, Turns, Answering
<1>5. z[Now] = id[Now] /\ z[Now] \in Answers
  BY <1>3, <1>4 DEF Agree, Answers
<1>6. Chosen = id[Now]
  <2>1. CASE Answers = {0, 1}
    BY <1>1, <1>2, <1>5, <2>1
  <2>2. CASE Answers # {0, 1}
    BY <1>1, <1>5, <2>2
  <2> QED BY <2>1, <2>2
<1> QED BY <1>1, <1>6 DEF Path, Addrs, S!Addresses

FoundOn ==
  /\ diff # FIRST => \A d : AheadOf(d, Path, Turn) <=> AheadOf(d, id, Turn)
  /\ \A d \in stayed \cap Thermometers : \A j \in 1 .. Now : Under(Path, d, j) => d \in S!Reported

LEMMA FoundGoesOn ==
  ASSUME SearchTyped, PathInv, FoundInv, searching, i > 0, Answers # {}, changes <= 1
  PROVE  FoundOn
<1>1. /\ Now \in 1 .. Bits /\ Answers \subseteq {0, 1} /\ Chosen \in {0, 1} /\ Chosen \in Answers
      /\ id \in Addrs /\ i \in 1 .. Bits
      /\ diff \in 1 .. Bits \/ diff = FIRST
      /\ Answers = {0, 1} => /\ diff < i => Chosen = 0 \/ id[Now] = 1
                             /\ diff < i => Chosen = 1 \/ id[Now] = 0
  BY ChosenIs DEF SearchTyped
<1>2. \A d : Sets(d, id, Now, Chosen, Path)
  BY <1>1, PathIs
<1>3. /\ \A d \in stayed : Agree(d, id, Now - 1) => d \in active
      /\ \A d \in stayed \cap Thermometers : d \in S!Reported \/ Ahead(d)
      /\ \A d \in stayed \cap Thermometers : \A j \in 1 .. Now - 1 : Under(id, d, j) => d \in S!Reported
  BY DEF PathInv, FoundInv
<1>4. ASSUME diff # FIRST, NEW d PROVE AheadOf(d, Path, Turn) <=> AheadOf(d, id, Turn)
  <2>1. CASE Now < Turn
    BY <1>4, <2>1, PathIsKept
  <2>2. CASE Now >= Turn
    <3>1. /\ Turn \in 1 .. Now /\ Turn - 1 \in 0 .. Now - 1
          /\ \A j \in 1 .. Turn - 1 : j \in 1 .. Now - 1
      BY <1>1, <1>4, <2>2, AddressAssumption DEF Turn, Place
    <3> QED BY <1>2, <3>1 DEF AheadOf, Sets
  <2> QED BY <1>1, <1>4, <2>1, <2>2, AddressAssumption DEF Turn, Place
<1>5. ASSUME NEW d \in stayed \cap Thermometers, NEW j \in 1 .. Now, Under(Path, d, j)
      PROVE  d \in S!Reported
  <2>1. CASE j \in 1 .. Now - 1
    BY <1>2, <1>3, <1>5, <2>1 DEF Sets
  <2>2. CASE j = Now
    <3>1. Agree(d, id, Now - 1) /\ d[Now] = 1 /\ Chosen = 0
      BY <1>2, <1>5, <2>2 DEF Sets
    <3>2. Answers = {0, 1}
      BY <1>1, <1>3, <3>1 DEF Answers
    <3>3. ~ S!Branch(id[Now])
      BY <3>1, <3>2 DEF Chosen
    <3>4. diff # FIRST /\ diff \in 1 .. Bits /\ diff <= i
      BY <1>1, <3>3, AddressAssumption DEF FIRST, S!Branch, S!SEARCH_FIRST
    <3>5. Turn \in 1 .. Bits /\ Now <= Turn
      BY <1>1, <3>4, AddressAssumption DEF Turn, Place, Now
    <3>6. Now < Turn => id[Now] = 0
      BY <1>1, <3>1, <3>4, PathIsKept
    <3>7. ~ AheadOf(d, id, Turn)
      BY <1>1, <3>1, <3>5, <3>6, NotAhead
    <3> QED BY <1>3, <3>4, <3>7 DEF Ahead
  <2>3. j \in 1 .. Now - 1 \/ j = Now
    BY <1>1, AddressAssumption
  <2> QED BY <2>1, <2>2, <2>3
<1> QED BY <1>4, <1>5 DEF FoundOn

OnceOn ==
  /\ diff # FIRST /\ Turn <= Now => Path[Turn] = 0
  /\ Conflict # 0 => \E z \in bus : Agree(z, Path, Place(Conflict) - 1) /\ z[Place(Conflict)] = 0

LEMMA OnceGoesOn ==
  ASSUME SearchTyped, PathInv, FoundInv, OnceInv, searching, i > 0, Answers # {}, changes = 0
  PROVE  OnceOn
<1>1. /\ Now \in 1 .. Bits /\ Answers \subseteq {0, 1} /\ Chosen \in {0, 1} /\ Chosen \in Answers
      /\ id \in Addrs /\ i \in 1 .. Bits /\ Place(i) = Now /\ active \subseteq bus
      /\ diff \in 1 .. Bits \/ diff = FIRST
      /\ next_diff \in 0 .. Bits
      /\ Answers = {0, 1} => (diff = i => Chosen = 0)
  BY ChosenIs, AddressAssumption DEF SearchTyped, Now, Place
<1>2. \A d : Sets(d, id, Now, Chosen, Path)
  BY <1>1, PathIs
<1>3. ASSUME diff # FIRST, Turn <= Now PROVE Path[Turn] = 0
  <2>1. CASE Turn < Now
    <3>1. id[Turn] = 0 /\ Turn \in 1 .. Bits /\ Turn # Now
      BY <1>1, <1>3, <2>1, AddressAssumption DEF OnceInv, Turn, Place
    <3> QED BY <1>2, <3>1 DEF Sets
  <2>2. CASE Turn = Now
    <3>1. \A a \in {0, 1} : \E z \in active : z[Now] = a
      BY <1>1, <1>3, <2>2, AddressAssumption DEF OnceInv, Turns, Answering
    <3>2. Answers = {0, 1}
      BY <1>1, <3>1 DEF Answers
    <3>3. diff = i
      BY <1>1, <1>3, <2>2, AddressAssumption DEF Turn, Place, Now
    <3> QED BY <1>1, <1>2, <2>2, <3>2, <3>3 DEF Sets
  <2>3. Turn \in Int /\ Now \in Int
    BY <1>1, <1>3, AddressAssumption DEF Turn, Place
  <2> QED BY <1>3, <2>1, <2>2, <2>3
<1>4. ASSUME Conflict # 0
      PROVE  \E z \in bus : Agree(z, Path, Place(Conflict) - 1) /\ z[Place(Conflict)] = 0
  <2>1. CASE Answers = {0, 1} /\ Chosen = 1
    <3>1. PICK z \in active : z[Now] = 0
      BY <2>1 DEF Answers
    <3>2. Agree(z, id, Now - 1)
      BY <1>1 DEF PathInv
    <3>3. Place(Conflict) = Now /\ Now - 1 \in 0 .. Now - 1
      BY <1>1, <2>1, AddressAssumption DEF Conflict
    <3>4. Agree(z, Path, Now - 1)
      BY <1>2, <3>2, <3>3 DEF Sets
    <3> QED BY <1>1, <3>1, <3>3, <3>4
  <2>2. CASE ~ (Answers = {0, 1} /\ Chosen = 1)
    <3>1. Conflict = next_diff /\ next_diff # 0
      BY <1>4, <2>2 DEF Conflict
    <3>2. PICK z \in bus : Agree(z, id, Place(next_diff) - 1) /\ z[Place(next_diff)] = 0
      BY <3>1 DEF OnceInv
    <3>3. Place(next_diff) \in 1 .. Now - 1
      BY <3>1 DEF PathInv
    <3>4. Place(next_diff) - 1 \in 0 .. Now - 1
      BY <1>1, <3>3, AddressAssumption
    <3>5. Agree(z, Path, Place(next_diff) - 1)
      BY <1>2, <3>2, <3>4 DEF Sets
    <3> QED BY <3>1, <3>2, <3>5
  <2> QED BY <2>1, <2>2
<1> QED BY <1>3, <1>4 DEF OnceOn

LEMMA InnerKeeps ==
  ASSUME WireInv, S!Bit, Answers # {}, i # 1
  PROVE  WireInv'
<1>1. /\ searching /\ i > 0 /\ UNCHANGED <<bus, stayed, changes, diff, searching, frames>>
      /\ i' = i - 1 /\ id' = Path /\ next_diff' = Conflict
      /\ active' = {d \in active : d[Now] = Chosen}
  BY BitIs
<1>2. /\ SearchTyped /\ PathInv /\ FoundInv /\ OnceInv
      /\ bus \subseteq Addrs /\ stayed \subseteq bus /\ active \subseteq bus /\ changes \in Nat
      /\ diff \in 1 .. Bits \/ diff = FIRST
      /\ i \in 2 .. Bits /\ Now \in 1 .. Bits
  BY <1>1, AddressAssumption DEF WireInv, SearchTyped, Now
<1>3. PathOn
  BY <1>1, <1>2, PathGoesOn
<1>4. changes <= 1 => FoundOn
  BY <1>1, <1>2, FoundGoesOn
<1>5. changes = 0 => OnceOn
  BY <1>1, <1>2, OnceGoesOn
<1>6. /\ i' \in 1 .. Bits - 1 /\ Now' = Now + 1 /\ Now' - 1 = Now
      /\ Turn' = Turn /\ Place(next_diff)' = Place(Conflict)
  BY <1>1, <1>2, AddressAssumption DEF Now, Turn, Place
<1>7. SearchTyped'
  BY <1>1, <1>2, <1>3, <1>6, AddressAssumption DEF SearchTyped, PathOn
<1>8. PathInv'
  BY <1>1, <1>3, <1>6 DEF PathInv, PathOn
<1>9. changes <= 1 /\ Turns' => Turns /\ Now \in 1 .. Turn - 1 /\ Answering = active /\ Answering' = active' /\ Path = id /\ Chosen = id[Now]
  <2>1. ASSUME Turns' PROVE diff # FIRST /\ Now \in 1 .. Turn - 1 /\ Now < Turn /\ Now <= Turn
    BY <1>1, <1>2, <1>6, <2>1, AddressAssumption DEF Turns, Turn, Place
  <2> QED BY <1>1, <1>2, <1>6, <2>1, PathIsKept DEF Turns, Answering
<1>10. ASSUME changes <= 1, Turns', NEW z \in active, Agree(z, id, Turn - 1)
       PROVE  z \in active' /\ Agree(z, id', Turn' - 1)
  BY <1>1, <1>6, <1>9, <1>10 DEF Agree
<1>11. FoundInv'
  <2> SUFFICES ASSUME changes <= 1
               PROVE  /\ \A d \in stayed \cap Thermometers : d \in S!Reported \/ Ahead(d)'
                      /\ \A d \in stayed \cap Thermometers :
                           \A j \in 1 .. Now : Under(Path, d, j) => d \in S!Reported
                      /\ Turns' => \E z \in active' : Agree(z, id', Turn' - 1)
    BY <1>1, <1>6 DEF FoundInv, Answering, S!Reported
  <2>1. ASSUME NEW d \in stayed \cap Thermometers PROVE d \in S!Reported \/ Ahead(d)'
    BY <1>1, <1>2, <1>4, <1>6 DEF FoundInv, FoundOn, Ahead
  <2>2. ASSUME Turns' PROVE \E z \in active' : Agree(z, id', Turn' - 1)
    BY <1>1, <1>2, <1>9, <1>10, <2>2 DEF FoundInv
  <2> QED BY <1>4, <2>1, <2>2 DEF FoundOn
<1>12. OnceInv'
  <2> SUFFICES ASSUME changes = 0
               PROVE  /\ S!IsInjective(frames) /\ S!Reported \subseteq bus \cap Thermometers
                      /\ IF diff = FIRST THEN frames = << >>
                         ELSE \A e \in S!Reported : ~ AheadOf(e, Path, Turn)
                      /\ Turns' => \A a \in {0, 1} :
                           \E z \in active' : Agree(z, id', Turn' - 1) /\ z[Turn] = a
                      /\ diff # FIRST /\ Turn < Now + 1 => Path[Turn] = 0
                      /\ Conflict # 0 =>
                           \E z \in bus : Agree(z, Path, Place(Conflict) - 1) /\ z[Place(Conflict)] = 0
    BY <1>1, <1>6 DEF OnceInv, Answering, S!Reported
  <2>1. /\ S!IsInjective(frames) /\ S!Reported \subseteq bus \cap Thermometers
        /\ IF diff = FIRST THEN frames = << >> ELSE \A e \in S!Reported : ~ AheadOf(e, Path, Turn)
    BY <1>1, <1>2, <1>4 DEF OnceInv, FoundOn
  <2>2. ASSUME Turns', NEW a \in {0, 1}
        PROVE  \E z \in active' : Agree(z, id', Turn' - 1) /\ z[Turn] = a
    <3>1. PICK z \in active : Agree(z, id, Turn - 1) /\ z[Turn] = a
      BY <1>1, <1>2, <1>9, <2>2 DEF OnceInv
    <3> QED BY <1>10, <2>2, <3>1
  <2>3. diff # FIRST /\ Turn < Now + 1 => Turn <= Now
    BY <1>2, AddressAssumption DEF Turn, Place
  <2> QED BY <1>5, <2>1, <2>2, <2>3 DEF OnceOn
<1>13. S!AllFound'
  BY <1>1 DEF S!AllFound
<1> QED BY <1>7, <1>8, <1>11, <1>12, <1>13 DEF WireInv

(* What a sequence holds after Append, and that it repeats nothing. *)
Elems(s) == {s[n] : n \in 1 .. Len(s)}

LEMMA AppendedIs ==
  ASSUME NEW T, NEW s \in Seq(T), NEW d \in T
  PROVE  /\ Append(s, d) \in Seq(T) /\ Elems(Append(s, d)) = Elems(s) \cup {d}
         /\ S!IsInjective(s) /\ d \notin Elems(s) => S!IsInjective(Append(s, d))
<1> DEFINE r == Append(s, d)
           m == Len(s)
<1>1. /\ m \in Nat /\ Len(r) = m + 1 /\ r \in Seq(T) /\ r[m + 1] = d
      /\ \A n \in 1 .. m : r[n] = s[n]
      /\ DOMAIN s = 1 .. m /\ DOMAIN r = 1 .. m + 1
  OBVIOUS
<1> HIDE DEF r, m
<1>2. Elems(s) = {s[n] : n \in 1 .. m}
  BY DEF Elems, m
<1>3. Elems(r) = {r[n] : n \in 1 .. m + 1}
  BY <1>1 DEF Elems
<1>4. \A n \in 1 .. m + 1 : n \in 1 .. m \/ n = m + 1
  BY <1>1
<1>5. \A n \in 1 .. m : n \in 1 .. m + 1
  BY <1>1
<1>6. m + 1 \in 1 .. m + 1
  BY <1>1
<1>7. Elems(r) = Elems(s) \cup {d}
  BY <1>1, <1>2, <1>3, <1>4, <1>5, <1>6
<1>8. ASSUME S!IsInjective(s), d \notin Elems(s) PROVE S!IsInjective(r)
  BY <1>1, <1>2, <1>4, <1>8 DEF S!IsInjective
<1> QED BY <1>1, <1>7, <1>8 DEF r

LEMMA LastKeeps ==
  ASSUME WireInv, S!Bit, Answers # {}, i = 1
  PROVE  WireInv'
<1>1. /\ searching /\ UNCHANGED <<bus, stayed, changes>>
      /\ i' = 0 /\ id' = Path /\ next_diff' = Conflict /\ active' = {}
      /\ diff' = Conflict /\ (Conflict # 0 => searching') /\ (Conflict = 0 => ~ searching')
  <2>1. /\ searching /\ UNCHANGED <<bus, stayed, changes>>
        /\ i' = 0 /\ id' = Path /\ next_diff' = Conflict /\ active' = {}
        /\ diff' = Conflict /\ searching' = (Conflict # 0)
    BY BitIs DEF S!Found, S!LAST_DEVICE
  <2>2. (Conflict # 0 => searching') /\ (Conflict = 0 => ~ searching')
    BY <2>1, Zenon
  <2> QED BY <2>1, <2>2
<1>0. frames' = IF Path \in Thermometers THEN Append(frames, Path) ELSE frames
  BY BitIs DEF S!Found
<1>2. /\ SearchTyped /\ PathInv /\ FoundInv /\ OnceInv
      /\ bus \subseteq Addrs /\ stayed \subseteq bus /\ active \subseteq bus /\ changes \in Nat
      /\ frames \in Seq(Addrs)
      /\ diff \in 1 .. Bits \/ diff = FIRST
      /\ Now = Bits /\ i > 0
  BY <1>1, AddressAssumption DEF WireInv, SearchTyped, Now
<1>3. PathOn
  BY <1>1, <1>2, PathGoesOn
<1>4. changes <= 1 => FoundOn
  BY <1>1, <1>2, FoundGoesOn
<1>5. changes = 0 => OnceOn
  BY <1>1, <1>2, OnceGoesOn
<1> DEFINE f == Path
           c == Conflict
           t == Place(c)
<1>6. /\ f \in Addrs /\ c \in 0 .. Bits
      /\ c # 0 => t \in 1 .. Bits /\ f[t] = 1
      /\ \A d \in stayed : \A j \in 1 .. Bits : Under(d, f, j) => c # 0 /\ j <= t
  BY <1>2, <1>3 DEF PathOn
<1>7. f \in active /\ f \in bus
  <2>1. PICK d \in active : Agree(d, f, Bits)
    BY <1>2, <1>3 DEF PathOn
  <2>2. d \in Addrs
    BY <1>2
  <2>3. d = f
    BY <1>6, <2>1, <2>2, FirstDifference DEF Agree, Under
  <2> QED BY <1>2, <2>1, <2>3
<1>8. /\ frames' \in Seq(Addrs)
      /\ S!Reported' = S!Reported \cup ({f} \cap Thermometers)
      /\ S!IsInjective(frames) /\ f \notin S!Reported => S!IsInjective(frames')
  <2>1. S!Reported = Elems(frames) /\ S!Reported' = Elems(frames')
    BY DEF S!Reported, Elems
  <2>2. CASE f \in Thermometers
    BY <1>0, <1>2, <1>6, <2>1, <2>2, AppendedIs
  <2>3. CASE f \notin Thermometers
    BY <1>0, <1>2, <2>1, <2>3
  <2> QED BY <2>2, <2>3
<1>9. Turn' = t /\ Place(next_diff)' = t
  BY <1>1 DEF Turn, Place
<1> HIDE DEF f, c, t
<1>10. SearchTyped'
  BY <1>1, <1>2, <1>6, <1>8, AddressAssumption DEF SearchTyped, c, f
<1>11. PathInv'
  BY <1>1 DEF PathInv
<1>12. ASSUME changes <= 1, NEW d \in stayed \cap Thermometers
       PROVE  d \in S!Reported' \/ (c # 0 /\ AheadOf(d, f, t))
  <2>1. CASE d = f
    BY <1>8, <2>1
  <2>2. CASE d # f
    <3>1. PICK j \in 1 .. Bits : Under(d, f, j) \/ Under(f, d, j)
      BY <1>2, <1>6, <2>2, FirstDifference
    <3>2. CASE Under(f, d, j)
      BY <1>2, <1>4, <1>8, <1>12, <3>2 DEF FoundOn, f
    <3>3. CASE Under(d, f, j)
      <4>1. c # 0 /\ j <= t /\ t \in 1 .. Bits
        BY <1>6, <3>3
      <4>2. CASE j = t
        BY <3>3, <4>1, <4>2 DEF AheadOf, Under
      <4>3. CASE j # t
        <5>1. j \in 1 .. t - 1
          BY <4>1, <4>3, AddressAssumption
        <5> QED BY <3>3, <4>1, <5>1 DEF AheadOf
      <4> QED BY <4>2, <4>3
    <3> QED BY <3>1, <3>2, <3>3
  <2> QED BY <2>1, <2>2
<1>13. c # 0 => diff' # FIRST
  BY <1>1, <1>6, AddressAssumption DEF c, FIRST, S!SEARCH_FIRST
<1>14. FoundInv'
  <2> SUFFICES ASSUME c # 0, changes <= 1
               PROVE  /\ \A d \in stayed \cap Thermometers : d \in S!Reported' \/ Ahead(d)'
                      /\ \E z \in bus : Agree(z, f, t - 1)
    BY <1>1, <1>9 DEF FoundInv, Answering, c, f
  <2>1. \A d \in stayed \cap Thermometers : d \in S!Reported' \/ Ahead(d)'
    BY <1>1, <1>9, <1>12 DEF Ahead, f
  <2>2. Agree(f, f, t - 1)
    BY DEF Agree
  <2> QED BY <1>7, <2>1, <2>2
<1>15. ASSUME changes = 0
       PROVE  /\ S!IsInjective(frames') /\ S!Reported' \subseteq bus \cap Thermometers
              /\ diff # FIRST => f[Turn] = 0 /\ \A e \in S!Reported : ~ AheadOf(e, f, Turn)
              /\ diff = FIRST => S!Reported = {}
  <2>1. /\ S!IsInjective(frames) /\ S!Reported \subseteq bus \cap Thermometers
        /\ diff = FIRST => frames = << >>
        /\ diff # FIRST => \A e \in S!Reported : ~ AheadOf(e, id, Turn)
    BY <1>1, <1>2, <1>15 DEF OnceInv
  <2>2. diff # FIRST => f[Turn] = 0 /\ \A e \in S!Reported : ~ AheadOf(e, f, Turn)
    <3>1. diff # FIRST => Turn <= Now
      BY <1>2, AddressAssumption DEF Turn, Place
    <3> QED BY <1>2, <1>4, <1>5, <1>15, <2>1, <3>1 DEF OnceOn, FoundOn, f
  <2>3. diff = FIRST => S!Reported = {}
    BY <2>1 DEF S!Reported
  <2>4. f \notin S!Reported
    <3>1. CASE diff = FIRST
      BY <2>3, <3>1
    <3>2. CASE diff # FIRST
      BY <2>2, <3>2 DEF AheadOf, Agree
    <3> QED BY <3>1, <3>2
  <2> QED BY <1>7, <1>8, <2>1, <2>2, <2>3, <2>4
<1>16. ASSUME changes = 0, c # 0, NEW e \in S!Reported', AheadOf(e, f, t) PROVE FALSE
  <2>1. PICK j \in 1 .. t : Under(e, f, j)
    <3>1. t \in 1 .. t /\ \A j \in 1 .. t - 1 : j \in 1 .. t
      BY <1>6, <1>16, AddressAssumption
    <3> QED BY <1>6, <1>16, <3>1 DEF AheadOf, Under
  <2>2. j \in 1 .. Bits /\ e[j] = 0 /\ f[j] = 1 /\ Agree(e, f, j - 1)
    BY <1>6, <1>16, <2>1, AddressAssumption DEF Under
  <2>3. e # f
    BY <2>2
  <2>4. e \in S!Reported
    BY <1>8, <2>3
  <2>5. diff # FIRST /\ f[Turn] = 0 /\ ~ AheadOf(e, f, Turn)
    BY <1>15, <1>16, <2>4
  <2>6. Turn \in 1 .. Bits /\ Turn # j
    BY <1>2, <2>2, <2>5, AddressAssumption DEF Turn, Place
  <2>7. CASE j < Turn
    <3>1. j \in 1 .. Turn - 1
      BY <2>2, <2>6, <2>7, AddressAssumption
    <3> QED BY <2>1, <2>5, <3>1 DEF AheadOf
  <2>8. CASE Turn < j
    <3>1. Turn \in 1 .. j - 1 /\ \A x \in 1 .. Turn - 1 : x \in 1 .. j - 1
      BY <2>2, <2>6, <2>8, AddressAssumption
    <3> QED BY <2>2, <2>5, <3>1 DEF AheadOf, Agree
  <2> QED BY <2>2, <2>6, <2>7, <2>8, AddressAssumption
<1>17. OnceInv'
  <2> SUFFICES ASSUME c # 0, changes = 0
               PROVE  /\ S!IsInjective(frames') /\ S!Reported' \subseteq bus \cap Thermometers
                      /\ \A e \in S!Reported' : ~ AheadOf(e, f, t)
                      /\ \A a \in {0, 1} : \E z \in bus : Agree(z, f, t - 1) /\ z[t] = a
    BY <1>1, <1>9, <1>13 DEF OnceInv, Answering, c, f
  <2>1. \E z \in bus : Agree(z, f, t - 1) /\ z[t] = 0
    BY <1>5 DEF OnceOn, c, f, t
  <2>2. Agree(f, f, t - 1) /\ f[t] = 1
    BY <1>6 DEF Agree
  <2> QED BY <1>7, <1>15, <1>16, <2>1, <2>2
<1>18. S!AllFound'
  <2> SUFFICES ASSUME c = 0
               PROVE  /\ changes <= 1 => stayed \cap Thermometers \subseteq S!Reported'
                      /\ changes = 0 => S!IsInjective(frames') /\ S!Reported' = bus \cap Thermometers
    BY <1>1, <1>2 DEF S!AllFound, c
  <2>1. changes <= 1 => stayed \cap Thermometers \subseteq S!Reported'
    BY <1>12
  <2>2. changes = 0 => stayed = bus /\ changes <= 1
    BY <1>2 DEF SearchTyped
  <2> QED BY <1>15, <2>1, <2>2
<1> QED BY <1>10, <1>11, <1>14, <1>17, <1>18 DEF WireInv

(* A pass that ends with an error ends the measurement. *)
LEMMA ErrorKeeps ==
  ASSUME WireInv, diff' \in {S!PRESENCE_ERR, S!DATA_ERR}, ~ searching', i' = 0,
         UNCHANGED <<bus, stayed, changes, id, next_diff>>, active' \subseteq active
  PROVE  WireInv'
<1>1. SearchTyped'
  BY AddressAssumption DEF WireInv, SearchTyped
<1>2. PathInv'
  BY DEF PathInv
<1>3. FoundInv' /\ OnceInv'
  BY DEF FoundInv, OnceInv
<1>4. S!AllFound'
  BY DEF S!AllFound, S!PRESENCE_ERR, S!DATA_ERR, S!LAST_DEVICE
<1> QED BY <1>1, <1>2, <1>3, <1>4 DEF WireInv

LEMMA BitKeeps ==
  ASSUME WireInv, S!Bit
  PROVE  WireInv'
<1>1. CASE Answers = {}
  <2>1. /\ UNCHANGED <<bus, stayed, changes, id, next_diff>> /\ i' = 0 /\ active' = {}
        /\ diff' = S!DATA_ERR /\ searching' = FALSE
    BY <1>1, BitIs
  <2>2. ~ searching'
    BY <2>1, Zenon
  <2> QED BY <2>1, <2>2, ErrorKeeps
<1> QED BY <1>1, LastKeeps, InnerKeeps

LEMMA BeginKeeps ==
  ASSUME WireInv, S!Begin
  PROVE  WireInv'
<1>1. CASE bus = {}
  <2>1. /\ UNCHANGED <<bus, stayed, changes, id, next_diff, active, i>> /\ i = 0
        /\ diff' = S!PRESENCE_ERR /\ searching' = FALSE
    BY <1>1 DEF S!Begin, S!Abort, S!pass
  <2>2. ~ searching'
    BY <2>1, Zenon
  <2> QED BY <2>1, <2>2, ErrorKeeps
<1>2. CASE bus # {}
  <2>1. /\ searching /\ i = 0 /\ i' = Bits /\ active' = bus /\ next_diff' = 0
        /\ UNCHANGED <<id, diff, searching, frames, bus, stayed, changes>>
    BY <1>2 DEF S!Begin, S!LAST_DEVICE
  <2>2. /\ SearchTyped /\ FoundInv /\ OnceInv
        /\ bus \subseteq Addrs /\ stayed \subseteq bus
        /\ diff \in 1 .. Bits \/ diff = FIRST
    BY <2>1 DEF WireInv, SearchTyped
  <2>3. /\ Now' = 1 /\ Now' - 1 = 0 /\ i' > 0 /\ i' # 0 /\ Turn' = Turn
        /\ diff # FIRST => Turn \in 1 .. Bits
    BY <2>1, <2>2, AddressAssumption DEF Now, Turn, Place
  <2>4. SearchTyped'
    BY <2>1, <2>2, AddressAssumption DEF SearchTyped
  <2>5. PathInv'
    BY <2>1, <2>2, <2>3 DEF PathInv, Agree
  <2>6. Answering' = bus /\ Answering = bus /\ (Turns <=> diff # FIRST) /\ (Turns' => diff # FIRST)
    BY <2>1, <2>3 DEF Answering, Turns
  <2>7. FoundInv'
    <3> SUFFICES ASSUME changes <= 1
                 PROVE  /\ \A d \in stayed \cap Thermometers : d \in S!Reported \/ Ahead(d)'
                        /\ Turns' => \E z \in bus : Agree(z, id', Turn' - 1)
      BY <2>1, <2>3, <2>6 DEF FoundInv, S!Reported
    <3> QED BY <2>1, <2>2, <2>3, <2>6 DEF FoundInv, Ahead
  <2>8. OnceInv'
    <3> SUFFICES ASSUME changes = 0
                 PROVE  /\ S!IsInjective(frames) /\ S!Reported \subseteq bus \cap Thermometers
                        /\ IF diff = FIRST THEN frames = << >>
                           ELSE \A e \in S!Reported : ~ AheadOf(e, id, Turn)
                        /\ Turns' => \A a \in {0, 1} : \E z \in bus : Agree(z, id, Turn - 1) /\ z[Turn] = a
                        /\ ~ (diff # FIRST /\ Turn < 1)
      BY <2>1, <2>3, <2>6 DEF OnceInv, S!Reported
    <3> QED BY <2>1, <2>2, <2>3, <2>6, AddressAssumption DEF OnceInv
  <2>9. S!AllFound'
    BY <2>1 DEF S!AllFound
  <2> QED BY <2>4, <2>5, <2>7, <2>8, <2>9 DEF WireInv
<1> QED BY <1>1, <1>2

LEMMA ComeKeeps ==
  ASSUME WireInv, S!Come
  PROVE  WireInv'
<1>1. PICK d \in Addrs : bus' = bus \cup {d}
  BY DEF S!Come, Addrs
<1>2. /\ searching /\ changes' = changes + 1
      /\ UNCHANGED <<i, active, id, next_diff, diff, searching, frames, stayed>>
  BY DEF S!Come, S!pass
<1>3. /\ SearchTyped /\ FoundInv /\ changes \in Nat /\ changes' # 0 /\ (changes' <= 1 => changes <= 1)
      /\ stayed \subseteq bus /\ bus \subseteq Addrs
  BY <1>2 DEF WireInv, SearchTyped
<1>4. SearchTyped'
  BY <1>1, <1>2, <1>3 DEF SearchTyped
<1>5. PathInv'
  BY <1>2 DEF WireInv, PathInv, Now, Place
<1>6. /\ Answering \subseteq Answering' /\ (Turns' <=> Turns) /\ Turn' = Turn /\ Now' = Now
  BY <1>1, <1>2 DEF Answering, Turns, Turn, Now, Place
<1>7. FoundInv'
  <2> SUFFICES ASSUME changes <= 1
               PROVE  /\ \A e \in stayed \cap Thermometers : e \in S!Reported \/ Ahead(e)
                      /\ i > 0 => \A e \in stayed \cap Thermometers :
                                    \A j \in 1 .. Now - 1 : Under(id, e, j) => e \in S!Reported
                      /\ Turns => \E z \in Answering' : Agree(z, id, Turn - 1)
    BY <1>2, <1>3, <1>6 DEF FoundInv, S!Reported, Ahead
  <2> QED BY <1>2, <1>3, <1>6 DEF FoundInv
<1>8. OnceInv' /\ S!AllFound'
  BY <1>2, <1>3 DEF OnceInv, S!AllFound
<1> QED BY <1>4, <1>5, <1>7, <1>8 DEF WireInv

LEMMA GoKeeps ==
  ASSUME WireInv, S!Go
  PROVE  WireInv'
<1>1. PICK d \in bus : bus' = bus \ {d} /\ active' = active \ {d} /\ stayed' = stayed \ {d}
  BY DEF S!Go
<1>2. /\ searching /\ changes' = changes + 1
      /\ UNCHANGED <<i, id, next_diff, diff, searching, frames>>
  BY DEF S!Go
<1>3. /\ SearchTyped /\ FoundInv /\ OnceInv /\ changes \in Nat /\ changes' # 0
      /\ changes' <= 1 => changes = 0 /\ changes <= 1
      /\ stayed \subseteq bus /\ bus \subseteq Addrs /\ active \subseteq bus
  BY <1>2 DEF WireInv, SearchTyped
<1>4. SearchTyped'
  BY <1>1, <1>2, <1>3 DEF SearchTyped
<1>5. PathInv'
  BY <1>1, <1>2 DEF WireInv, PathInv, Now, Place
<1>6. /\ Answering' = Answering \ {d} /\ (Turns' <=> Turns) /\ Turn' = Turn /\ Now' = Now
  BY <1>1, <1>2 DEF Answering, Turns, Turn, Now, Place
<1>7. FoundInv'
  <2> SUFFICES ASSUME changes = 0, changes <= 1
               PROVE  /\ \A e \in stayed \cap Thermometers : e \in S!Reported \/ Ahead(e)
                      /\ i > 0 => \A e \in stayed \cap Thermometers :
                                    \A j \in 1 .. Now - 1 : Under(id, e, j) => e \in S!Reported
                      /\ Turns => \E z \in Answering' : Agree(z, id, Turn - 1)
    BY <1>1, <1>2, <1>3, <1>6 DEF FoundInv, S!Reported, Ahead
  <2>1. ASSUME Turns PROVE \E z \in Answering' : Agree(z, id, Turn - 1)
    <3>1. /\ \E z \in Answering : Agree(z, id, Turn - 1) /\ z[Turn] = 0
          /\ \E z \in Answering : Agree(z, id, Turn - 1) /\ z[Turn] = 1
      BY <1>2, <1>3, <2>1 DEF OnceInv
    <3>2. PICK y \in Answering, z \in Answering :
            Agree(y, id, Turn - 1) /\ y[Turn] = 0 /\ Agree(z, id, Turn - 1) /\ z[Turn] = 1
      BY <3>1
    <3> QED BY <1>6, <3>2
  <2> QED BY <1>2, <1>3, <2>1 DEF FoundInv
<1>8. OnceInv' /\ S!AllFound'
  BY <1>2, <1>3 DEF OnceInv, S!AllFound
<1> QED BY <1>4, <1>5, <1>7, <1>8 DEF WireInv

LEMMA AgainKeeps ==
  ASSUME WireInv, S!Again
  PROVE  WireInv'
<1>1. /\ ~ searching /\ diff' = FIRST /\ frames' = << >> /\ stayed' = bus /\ changes' = 0
      /\ UNCHANGED <<bus, i, active, id, next_diff>>
  BY DEF S!Again, S!pass, FIRST
<1>2. searching'
  BY Zenon DEF S!Again
<1>3. i = 0 /\ SearchTyped
  BY <1>1 DEF WireInv, SearchTyped
<1>4. SearchTyped'
  BY <1>1, <1>2, <1>3 DEF SearchTyped
<1>5. PathInv'
  BY <1>1, <1>3 DEF PathInv
<1>6. FoundInv'
  BY <1>1, <1>3 DEF FoundInv, Ahead, Turns
<1>7. S!IsInjective(frames') /\ S!Reported' = {}
  BY <1>1 DEF S!IsInjective, S!Reported
<1>8. OnceInv'
  BY <1>1, <1>3, <1>7 DEF OnceInv, Turns
<1>9. S!AllFound'
  BY <1>2 DEF S!AllFound
<1> QED BY <1>4, <1>5, <1>6, <1>8, <1>9 DEF WireInv

LEMMA SearchStarts == S!Init => WireInv
<1> SUFFICES ASSUME S!Init PROVE WireInv
  OBVIOUS
<1>1. /\ bus \subseteq Addrs /\ stayed = bus /\ changes = 0 /\ i = 0 /\ active = {} /\ next_diff = 0
      /\ id \in Addrs /\ diff = FIRST /\ frames = << >>
  BY DEF S!Init, Addrs, S!Addresses, S!LAST_DEVICE, FIRST
<1>2. searching
  BY Zenon DEF S!Init
<1>3. SearchTyped
  BY <1>1, <1>2, AddressAssumption DEF SearchTyped
<1>4. S!IsInjective(frames) /\ S!Reported = {}
  BY <1>1 DEF S!IsInjective, S!Reported
<1>5. PathInv /\ FoundInv /\ OnceInv
  BY <1>1, <1>4 DEF PathInv, FoundInv, OnceInv, Ahead, Turns
<1>6. S!AllFound
  BY <1>2 DEF S!AllFound
<1> QED BY <1>3, <1>5, <1>6 DEF WireInv

LEMMA SearchKeeps == WireInv /\ [S!Next]_S!vars => WireInv'
<1>1. ASSUME WireInv, UNCHANGED S!vars PROVE WireInv'
  BY <1>1 DEF S!vars, S!pass, WireInv, SearchTyped, PathInv, FoundInv, OnceInv, S!AllFound, S!Reported,
       S!IsInjective, Ahead, Turns, Turn, Now, Place, Answering
<1> QED BY <1>1, BeginKeeps, BitKeeps, ComeKeeps, GoKeeps, AgainKeeps DEF S!Next

(* A measurement that ends without an error has reported every sensor that
   was there all the time, whatever the length of an address, with one device
   that comes or goes; and exactly once when none does. *)
THEOREM FindsAll == S!Spec => []SearchFindsAll
<1>1. WireInv => SearchFindsAll
  BY DEF WireInv, SearchFindsAll
<1> QED BY <1>1, SearchStarts, SearchKeeps, PTL DEF S!Spec
=============================================================================
