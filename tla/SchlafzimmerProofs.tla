------------------------- MODULE SchlafzimmerProofs -------------------------
(***************************************************************************)
(* What the clock keeps of the lamp's settings, and why the controller     *)
(* gives up, and what switches the light: for any number of faults of      *)
(* every kind, any devices dead, any hands and keys, and any pace.  And    *)
(* that gestures are executed exactly once as long as no visit breaks and  *)
(* the controller does not restart.                                        *)
(***************************************************************************)
EXTENDS MCSchlafzimmer, TLAPS

P == INSTANCE LampProofs

Queued(c) == \E i \in 1 .. Len(queue) : queue[i] = c

Shape ==
  /\ Cells \subseteq DOMAIN settings /\ Cells \subseteq DOMAIN sram
  /\ queue \in Seq(Cells) /\ (Down => queue = << >>)

(* OneCommandBehind does not say which cells the rest of the queue brings up
   to date: those that still differ are in it. *)
Stored ==
  ~Down => \A c \in Cells \ unsaved :
             /\ sram[c] \in {before[c], settings[c]}
             /\ sram[c] = settings[c] \/ Queued(c)

SavedInv == Shape /\ Stored

(* Each loop that is counted as bad has had a silence, and no good loop has
   come after it. *)
CountInv ==
  /\ uiErrorCount \in Nat /\ silences \in Nat /\ bHasError \in {0, 1}
  /\ pc = "blink" => silences > ErrorLimit
  /\ ~Down => silences > ErrorLimit \/ silences >= uiErrorCount
  /\ pc \in {"sensor1", "sensor2", "ir", "show"} =>
       silences > ErrorLimit \/ silences >= uiErrorCount + bHasError

-----------------------------------------------------------------------------
(* The steps that leave what is kept alone. *)
LEMMA StoreStays ==
  ASSUME SavedInv, UNCHANGED store, Down' => queue = << >>, Down => Down'
  PROVE  SavedInv'
BY DEF SavedInv, Shape, Stored, Queued, store

LEMMA ThreeChanged ==
  ASSUME NEW s, NEW r, NEW g, NEW b
  PROVE  DOMAIN Full(s, r, g, b) = DOMAIN s
BY Zenon DEF Full

LEMMA ObeyKeepsDomain ==
  ASSUME NEW s, NEW command
  PROVE  DOMAIN Obey(command, s) = DOMAIN s
<1>1. DOMAIN [s EXCEPT !.light = 1, !.function = 0] = DOMAIN s
  BY Zenon
<1> QED BY <1>1, ThreeChanged DEF Obey

(* A command: nothing was left to save, so that the cells kept are the
   settings before it, and every setting it changes is queued. *)
LEMMA ChangeKeeps ==
  ASSUME SavedInv, ~Down, queue = << >>, pc' \in Places, ~Down',
         NEW s, NEW cells \in Seq(Cells), Change(s, cells), Cells \subseteq DOMAIN s,
         \A c \in Cells : s[c] = settings[c] \/ \E i \in 1 .. Len(cells) : cells[i] = c
  PROVE  SavedInv'
<1>1. settings' = s /\ before' = [c \in Cells |-> settings[c]] /\ queue' = cells /\ sram' = sram /\ unsaved' = unsaved
  BY DEF Change, Kept
<1>2. \A c \in Cells \ unsaved : sram[c] = settings[c]
  BY DEF SavedInv, Stored, Queued
<1>3. Shape'
  BY <1>1 DEF SavedInv, Shape
<1>4. Stored'
  BY <1>1, <1>2 DEF Stored, Queued
<1> QED BY <1>3, <1>4 DEF SavedInv

LEMMA SwitchKeeps ==
  ASSUME SavedInv, NEW place, At(place), place \notin {"boot", "blink", "noclock"},
         NEW next \in Places, next \notin {"boot", "blink", "noclock"}, SwitchLight(next)
  PROVE  SavedInv'
<1>1. ~Down /\ queue = << >> /\ pc' \in Places /\ ~Down'
  BY DEF At, Down, SwitchLight, Goes
<1>2. CASE uiLightCmd \in {1, 2}
  <2> DEFINE s == [settings EXCEPT !.light = uiLightCmd - 1]
  <2>1. Change(s, <<"light">>)
    BY <1>2 DEF SwitchLight
  <2>2. DOMAIN s = DOMAIN settings
    OBVIOUS
  <2>3. \A c \in Cells : s[c] = settings[c] \/ c = "light"
    BY DEF SavedInv, Shape
  <2>4. <<"light">> \in Seq(Cells) /\ \E i \in 1 .. Len(<<"light">>) : <<"light">>[i] = "light"
    BY DEF Cells
  <2>5. Cells \subseteq DOMAIN s
    BY <2>2 DEF SavedInv, Shape
  <2> HIDE DEF s
  <2> QED BY <1>1, <2>1, <2>3, <2>4, <2>5, ChangeKeeps
<1>3. CASE uiLightCmd \notin {1, 2}
  <2>1. UNCHANGED store
    BY <1>3 DEF SwitchLight
  <2> QED BY <1>1, <2>1, StoreStays
<1> QED BY <1>2, <1>3

LEMMA KeyKeeps ==
  ASSUME SavedInv, At("ir"), ObeyKey
  PROVE  SavedInv'
<1> DEFINE s == Obey(Link!Command(got), settings)
           cells == <<"r", "g", "b", "percent", "light">>
<1>1. ~Down /\ queue = << >> /\ pc' \in Places /\ ~Down'
  BY DEF At, Down, ObeyKey, Goes, Places
<1>2. Change(s, cells)
  BY DEF ObeyKey
<1>3. Cells \subseteq DOMAIN s
  BY ObeyKeepsDomain DEF SavedInv, Shape
<1>4. cells \in Seq(Cells)
  BY DEF Cells
<1>5. Len(cells) = 5 /\ cells[1] = "r" /\ cells[2] = "g" /\ cells[3] = "b" /\ cells[4] = "percent" /\ cells[5] = "light"
  OBVIOUS
<1> HIDE DEF s, cells
<1>6. \A c \in Cells : \E i \in 1 .. Len(cells) : cells[i] = c
  BY <1>5 DEF Cells
<1> QED BY <1>1, <1>2, <1>3, <1>4, <1>6, ChangeKeeps

LEMMA SaveKeeps == ASSUME SavedInv, Save PROVE SavedInv'
<1> DEFINE c == Head(queue)
<1>1. /\ queue # << >> /\ queue' = Tail(queue) /\ settings' = settings /\ before' = before /\ pc' = pc
      /\ \/ sram' = [sram EXCEPT ![c] = settings[c]] /\ unsaved' = unsaved \ {c}
         \/ sram' \in {sram, [sram EXCEPT ![c] = settings[c]]} /\ unsaved' = unsaved \cup {c}
  BY DEF Save
<1>2. queue \in Seq(Cells) /\ ~Down /\ ~Down'
  BY <1>1 DEF SavedInv, Shape, Down
<1>3. c \in Cells /\ queue' \in Seq(Cells) /\ Len(queue') = Len(queue) - 1
      /\ \A i \in 1 .. Len(queue') : queue'[i] = queue[i + 1]
  BY <1>1, <1>2
<1>4. \A d \in Cells : Queued(d) => d = c \/ Queued(d)'
  <2> SUFFICES ASSUME NEW d \in Cells, NEW i \in 1 .. Len(queue), queue[i] = d, d # c
               PROVE  Queued(d)'
    BY DEF Queued
  <2>1. Len(queue) \in Nat /\ queue[1] = c
    BY <1>1, <1>2
  <2>2. i - 1 \in 1 .. Len(queue')
    BY <1>3, <2>1
  <2>3. queue'[i - 1] = d
    BY <1>3, <2>2
  <2> QED BY <2>2, <2>3 DEF Queued
<1> HIDE DEF c
<1>5. Shape'
  BY <1>1, <1>2, <1>3 DEF SavedInv, Shape
<1>6. \A d \in Cells : d # c => sram'[d] = sram[d]
  BY <1>1, <1>3 DEF SavedInv, Shape
<1>7. c \notin unsaved' => sram'[c] = settings[c]
  BY <1>1, <1>3 DEF SavedInv, Shape
<1>8. Stored'
  <2> SUFFICES ASSUME NEW d \in Cells, d \notin unsaved'
               PROVE  /\ sram'[d] \in {before[d], settings[d]}
                      /\ sram'[d] = settings[d] \/ Queued(d)'
    BY <1>1 DEF Stored
  <2>1. CASE d = c
    BY <1>7, <2>1
  <2>2. CASE d # c
    <3>1. d \notin unsaved
      BY <1>1, <2>2
    <3>2. sram[d] \in {before[d], settings[d]} /\ (sram[d] = settings[d] \/ Queued(d))
      BY <1>2, <3>1 DEF SavedInv, Stored
    <3> QED BY <1>4, <1>6, <2>2, <3>2
  <2> QED BY <2>1, <2>2
<1> QED BY <1>5, <1>8 DEF SavedInv

LEMMA BootKeeps == ASSUME SavedInv, Boot PROVE SavedInv'
<1>1. PICK lost \in SUBSET Cells :
        /\ settings' = [Default EXCEPT !.r = IF "r" \in lost THEN @ ELSE sram.r,
                          !.g = IF "g" \in lost THEN @ ELSE sram.g,
                          !.b = IF "b" \in lost THEN @ ELSE sram.b,
                          !.percent = IF "percent" \in lost THEN @ ELSE sram.percent,
                          !.light = IF "light" \in lost THEN @ ELSE sram.light]
        /\ unsaved' = lost
  BY DEF Boot
<1>2. queue = << >> /\ queue' = << >> /\ sram' = sram /\ pc' = "loop" /\ before' = [c \in Cells |-> settings'[c]]
  BY DEF Boot, At, Kept
<1>3. DOMAIN Default = {"r", "g", "b", "percent", "light", "function"}
  BY DEF Default
<1>4. Cells \subseteq DOMAIN settings'
  <2>1. DOMAIN settings' = DOMAIN Default
    BY <1>1, Zenon
  <2> QED BY <1>3, <2>1 DEF Cells
<1>5. \A c \in Cells \ lost : settings'[c] = sram[c]
  <2>1. "r" \notin lost => settings'["r"] = sram["r"]
    BY <1>1, <1>3
  <2>2. "g" \notin lost => settings'["g"] = sram["g"]
    BY <1>1, <1>3
  <2>3. "b" \notin lost => settings'["b"] = sram["b"]
    BY <1>1, <1>3
  <2>4. "percent" \notin lost => settings'["percent"] = sram["percent"]
    BY <1>1, <1>3
  <2>5. "light" \notin lost => settings'["light"] = sram["light"]
    BY <1>1, <1>3
  <2> QED BY <2>1, <2>2, <2>3, <2>4, <2>5 DEF Cells
<1>6. Shape'
  BY <1>2, <1>4 DEF SavedInv, Shape
<1>7. Stored'
  BY <1>1, <1>2, <1>5 DEF Stored
<1> QED BY <1>6, <1>7 DEF SavedInv

-----------------------------------------------------------------------------
(* The devices touch nothing of the controller's. *)
LEMMA DeviceSteps ==
  ASSUME Pass1 \/ Pass2 \/ Receiver
  PROVE  UNCHANGED <<store, pc, uiErrorCount, bHasError, silences>>
BY DEF Pass1, Pass2, Receiver, flags, store

(* What a visit does to the settings and to the count of errors. *)
Stayed == UNCHANGED <<store, pc, uiErrorCount, bHasError, silences>>
Visited(here, next) ==
  \/ Stayed
  \/ UNCHANGED <<store, uiErrorCount, bHasError, silences>> /\ pc' = next
  \/ Fails(next)
  \/ SwitchLight(next)
  \/ here = "ir" /\ next = "show" /\ ObeyKey

LEMMA VisitSteps ==
  /\ ReadDistance1 => At("sensor1") /\ Visited("sensor1", "sensor2")
  /\ ReadDistance2 => At("sensor2") /\ Visited("sensor2", "ir")
  /\ ReadIr => At("ir") /\ Visited("ir", "show")
<1>1. ReadDistance1 => At("sensor1") /\ Visited("sensor1", "sensor2")
  BY DEF ReadDistance1, Visited, Stayed, Stays, TempLight, Fails, flags, store
<1>2. ReadDistance2 => At("sensor2") /\ Visited("sensor2", "ir")
  BY DEF ReadDistance2, Visited, Stayed, Stays, TempLight, Fails, flags, store
<1>3. ReadIr => At("ir") /\ Visited("ir", "show")
  BY DEF ReadIr, ReadIrByte, Visited, Stayed, Stays, Goes, Fails, flags, store
<1> QED BY <1>1, <1>2, <1>3

LEMMA VisitKeeps ==
  ASSUME SavedInv, NEW here, NEW next, <<here, next>> \in {<<"sensor1", "sensor2">>, <<"sensor2", "ir">>, <<"ir", "show">>},
         At(here), Visited(here, next)
  PROVE  SavedInv'
<1>1. here \notin {"boot", "blink", "noclock"} /\ next \notin {"boot", "blink", "noclock"} /\ next \in Places
  BY DEF Places
<1>2. ~Down
  BY <1>1 DEF At, Down
<1>3. CASE Stayed
  BY <1>2, <1>3, StoreStays DEF Stayed, Down
<1>4. CASE UNCHANGED store /\ pc' = next
  BY <1>1, <1>2, <1>4, StoreStays DEF Down
<1>5. CASE SwitchLight(next)
  BY <1>1, <1>5, SwitchKeeps
<1>6. CASE here = "ir" /\ ObeyKey
  BY <1>6, KeyKeeps
<1> QED BY <1>3, <1>4, <1>5, <1>6 DEF Visited, Fails

LEMMA SavedInitially == Init => SavedInv
<1> SUFFICES ASSUME Init PROVE SavedInv
  OBVIOUS
<1>1. Down /\ queue = << >> /\ settings = Default /\ sram = Kept(Default)
  BY DEF Init, Down
<1>2. Shape
  BY <1>1 DEF Shape, Default, Kept, Cells
<1> QED BY <1>1, <1>2 DEF SavedInv, Stored

LEMMA SavedStep == SavedInv /\ [Next]_vars => SavedInv'
<1> SUFFICES ASSUME SavedInv, [Next]_vars PROVE SavedInv'
  OBVIOUS
<1>1. CASE Pass1 \/ Pass2 \/ Receiver
  <2>1. UNCHANGED store /\ pc' = pc
    BY <1>1, DeviceSteps
  <2> QED BY <2>1, StoreStays DEF Down, SavedInv, Shape
<1>2. CASE LoopStart
  BY <1>2, StoreStays DEF LoopStart, At, Down
<1>3. CASE ReadDistance1 \/ ReadDistance2 \/ ReadIr
  BY <1>3, VisitSteps, VisitKeeps
<1>4. CASE Save
  BY <1>4, SaveKeeps
<1>5. CASE LoopEnd
  BY <1>5, StoreStays DEF LoopEnd, At, Down
<1>6. CASE Boot
  BY <1>6, BootKeeps
<1>7. CASE BootFails
  BY <1>7, StoreStays DEF BootFails, At, Down
<1>8. CASE Watchdog \/ Reset
  <2>1. pc' = "boot" /\ queue' = << >> /\ settings' = settings /\ sram' = sram
    BY <1>8 DEF Watchdog, Reset, Restart
  <2> QED BY <2>1 DEF SavedInv, Shape, Stored, Down
<1>9. CASE UNCHANGED vars
  <2>1. UNCHANGED store /\ pc' = pc
    BY <1>9 DEF vars
  <2> QED BY <2>1, StoreStays DEF Down, SavedInv, Shape
<1> QED BY <1>1, <1>2, <1>3, <1>4, <1>5, <1>6, <1>7, <1>8, <1>9 DEF Next, Controller

(* Wherever resets, refused transfers and broken visits strike, and however
   many: what the clock keeps is at most one command behind. *)
THEOREM KeptOneBehind == Spec => []OneCommandBehind
<1>1. SavedInv => OneCommandBehind
  <2> SUFFICES ASSUME SavedInv, ~Down, NEW c \in Cells \ unsaved
               PROVE  sram[c] \in {before[c], settings[c]} /\ (queue = << >> => sram[c] = settings[c])
    BY DEF OneCommandBehind
  <2>1. queue = << >> => ~Queued(c)
    BY DEF Queued
  <2> QED BY <2>1 DEF SavedInv, Stored
<1> QED BY <1>1, SavedInitially, SavedStep, PTL DEF Spec

-----------------------------------------------------------------------------
LEMMA CountInitially == Init => CountInv
BY DEF Init, CountInv, Down

LEMMA CountStays ==
  ASSUME CountInv, UNCHANGED <<uiErrorCount, silences, bHasError>>,
         pc' = pc \/ (pc \in {"sensor1", "sensor2", "ir"} /\ pc' \in {"sensor2", "ir", "show"})
                  \/ pc' \in {"boot", "noclock"}
  PROVE  CountInv'
BY DEF CountInv, Down

LEMMA VisitCounts ==
  ASSUME CountInv, NEW here \in {"sensor1", "sensor2", "ir"}, NEW next \in {"sensor2", "ir", "show"},
         pc = here, Visited(here, next)
  PROVE  CountInv'
<1>1. CASE Fails(next)
  BY <1>1 DEF CountInv, Fails, Down
<1>2. CASE SwitchLight(next) \/ ObeyKey
  <2>1. UNCHANGED <<uiErrorCount, silences, bHasError>> /\ pc' \in {next, "show"}
    BY <1>2 DEF SwitchLight, ObeyKey, Goes, flags
  <2> QED BY <2>1, CountStays
<1>3. CASE Stayed
  BY <1>3, CountStays DEF Stayed
<1>4. CASE UNCHANGED <<uiErrorCount, silences, bHasError>> /\ pc' = next
  BY <1>4, CountStays
<1> QED BY <1>1, <1>2, <1>3, <1>4 DEF Visited

LEMMA CountStep == CountInv /\ [Next]_vars => CountInv'
<1> SUFFICES ASSUME CountInv, [Next]_vars PROVE CountInv'
  OBVIOUS
<1>1. CASE Pass1 \/ Pass2 \/ Receiver
  BY <1>1, DeviceSteps, CountStays
<1>2. CASE LoopStart
  BY <1>2 DEF LoopStart, At, CountInv, Down
<1>3. CASE ReadDistance1 \/ ReadDistance2 \/ ReadIr
  BY <1>3, VisitSteps, VisitCounts DEF At
<1>4. CASE Save
  BY <1>4, CountStays DEF Save, flags
<1>5. CASE LoopEnd
  BY <1>5, FaultAssumption DEF LoopEnd, Count, At, CountInv, Down
<1>6. CASE Boot
  BY <1>6 DEF Boot, Locals, CountInv, Down
<1>7. CASE BootFails
  BY <1>7, CountStays DEF BootFails, flags
<1>8. CASE Watchdog \/ Reset
  BY <1>8, CountStays DEF Watchdog, Reset, Restart, flags
<1>9. CASE UNCHANGED vars
  BY <1>9, CountStays DEF vars, flags
<1> QED BY <1>1, <1>2, <1>3, <1>4, <1>5, <1>6, <1>7, <1>8, <1>9 DEF Next, Controller

(* The controller gives up only after more silences than the limit, none of
   them before a good loop. *)
THEOREM GivesUpForCause == Spec => []ResetsForCause
<1>1. CountInv => ResetsForCause
  BY DEF CountInv, ResetsForCause
<1> QED BY <1>1, CountInitially, CountStep, PTL DEF Spec

-----------------------------------------------------------------------------
(* The two sensors and the one that LampProofs speaks of are the same. *)
LEMMA SameSensors ==
  /\ S1!Sensors = P!Sensors /\ S2!Sensors = P!Sensors
  /\ S1!Powered = P!Powered /\ S2!Powered = P!Powered
  /\ S1!Acked = 170 /\ S2!Acked = 170 /\ P!Acked = 170
  /\ P!Zones = {"far", "near", "none"}
BY DEF S1!Sensors, S2!Sensors, P!Sensors, S1!States, S2!States, P!States, S1!Published, S2!Published,
       P!Published, S1!Powered, S2!Powered, P!Powered, S1!Acked, S2!Acked, P!Acked, P!Zones

LEMMA SamePass ==
  ASSUME NEW d, NEW zone
  PROVE  S1!Pass(d, zone) = P!Pass(d, zone) /\ S2!Pass(d, zone) = P!Pass(d, zone)
<1>1. S1!Pass(d, zone) = P!Pass(d, zone)
  BY DEF S1!Pass, P!Pass, S1!Publish, P!Publish, S1!TakeAck, P!TakeAck, S1!Expire, P!Expire,
         S1!Sense, P!Sense, S1!FarFrom, P!FarFrom, S1!NearFrom, P!NearFrom, S1!States, P!States,
         S1!LightOff, P!LightOff, S1!LightOn, P!LightOn, S1!Acked, P!Acked
<1>2. S2!Pass(d, zone) = P!Pass(d, zone)
  BY DEF S2!Pass, P!Pass, S2!Publish, P!Publish, S2!TakeAck, P!TakeAck, S2!Expire, P!Expire,
         S2!Sense, P!Sense, S2!FarFrom, P!FarFrom, S2!NearFrom, P!NearFrom, S2!States, P!States,
         S2!LightOff, P!LightOff, S2!LightOn, P!LightOn, S2!Acked, P!Acked
<1> QED BY <1>1, <1>2

(* What holds of a sensor d in step s of its visits, a passes after the last
   one, when the controller's uiLightCmd is u: the copies agree while it is visited, and a command that was acknowledged
   and taken back is not followed by another before it is executed. *)
Visits == {"away", "addressed", "temp", "ack", "execute"}
Typed(d, s, u, a) == d \in P!Sensors /\ s \in Visits /\ a \in 0 .. MaxAway /\ u \in 0 .. 2
Agreed(d, s, u, a) ==
  /\ d.tx.cmd = d.cmd
  /\ s = "ack" => u # 0
  /\ s \in {"temp", "ack"} /\ u # 0 => d.mark = 0 /\ d.cmd # 0
  /\ s = "execute" /\ u # 0 => \/ d.mark = 170
                               \/ d.mark = 0 /\ d.cmd = 0 /\ P!Progress(d) <= a

(* An acknowledgement is taken before the next visit begins. *)
Taken(d, s, u, a) == d.mark = 170 => (s = "execute" /\ u # 0) \/ (s = "away" /\ a = 0)

OfferOf(d, s, u) ==
  IF s \in {"temp", "ack", "execute"} /\ u # 0 THEN u ELSE IF d.mark = 170 THEN 0 ELSE d.cmd

(* A step of a visit, complete or broken, from one sensor's view. *)
Moves(d, s, u, a, d2, s2, u2, a2) ==
  \/ s = "away" /\ a >= 1 /\ s2 = "addressed" /\ d2 = d /\ u2 = u /\ a2 = a
  \/ s = "addressed" /\ u2 = d.tx.cmd /\ s2 = "temp" /\ d2 = d /\ a2 = a
  \/ s = "addressed" /\ s2 = "away" /\ d2 = d /\ u2 = u /\ a2 = a
  \/ s = "temp" /\ s2 = (IF u > 0 THEN "ack" ELSE "execute") /\ d2 = d /\ u2 = u /\ a2 = a
  \/ s = "ack" /\ d2 = [d EXCEPT !.mark = 170] /\ s2 = "execute" /\ u2 = u /\ a2 = a
  \/ s = "ack" /\ s2 = "away" /\ d2 = d /\ u2 = u /\ a2 = a
  \/ s = "execute" /\ s2 = "away" /\ a2 = 0 /\ d2 = d /\ u2 = u

LEMMA MovesAgree ==
  ASSUME NEW d, NEW s, NEW u, NEW a, NEW d2, NEW s2, NEW u2, NEW a2,
         Typed(d, s, u, a), Agreed(d, s, u, a) /\ Taken(d, s, u, a), Moves(d, s, u, a, d2, s2, u2, a2)
  PROVE  /\ Typed(d2, s2, u2, a2) /\ Agreed(d2, s2, u2, a2) /\ Taken(d2, s2, u2, a2)
         /\ OfferOf(d, s, u) # 0 /\ OfferOf(d2, s2, u2) = 0 => s = "execute" /\ u # 0
         /\ s = "execute" /\ u # 0 => OfferOf(d, s, u) = u /\ OfferOf(d2, s2, u2) = 0
<1>1. /\ d.cmd \in 0 .. 2 /\ d.mark \in {0, 170} /\ a \in Nat /\ MaxAway \in Nat
      /\ d.tx.cmd = d.cmd
  BY SameSensors, LinkAssumption DEF Typed, Agreed, Taken, P!Sensors
<1>2. CASE s = "ack" /\ d2 = [d EXCEPT !.mark = 170] /\ s2 = "execute" /\ u2 = u /\ a2 = a
  <2>1. d2 \in P!Sensors /\ d2.mark = 170 /\ d2.cmd = d.cmd /\ d2.tx = d.tx
    BY <1>2, SameSensors DEF Typed, P!Sensors
  <2>2. u # 0
    BY <1>2 DEF Agreed, Taken
  <2> QED BY <1>1, <1>2, <2>1, <2>2 DEF Typed, Agreed, Taken, OfferOf, Visits
<1>3. CASE s = "away" /\ a >= 1 /\ s2 = "addressed" /\ d2 = d /\ u2 = u /\ a2 = a
  BY <1>1, <1>3 DEF Typed, Agreed, Taken, OfferOf, Visits
<1>4. CASE s = "addressed" /\ u2 = d.tx.cmd /\ s2 = "temp" /\ d2 = d /\ a2 = a
  BY <1>1, <1>4 DEF Typed, Agreed, Taken, OfferOf, Visits
<1>5. CASE s = "addressed" /\ s2 = "away" /\ d2 = d /\ u2 = u /\ a2 = a
  BY <1>1, <1>5 DEF Typed, Agreed, Taken, OfferOf, Visits
<1>6. CASE s = "temp" /\ s2 = (IF u > 0 THEN "ack" ELSE "execute") /\ d2 = d /\ u2 = u /\ a2 = a
  BY <1>1, <1>6 DEF Typed, Agreed, Taken, OfferOf, Visits
<1>7. CASE s = "ack" /\ s2 = "away" /\ d2 = d /\ u2 = u /\ a2 = a
  BY <1>1, <1>7 DEF Typed, Agreed, Taken, OfferOf, Visits
<1>8. CASE s = "execute" /\ s2 = "away" /\ a2 = 0 /\ d2 = d /\ u2 = u
  BY <1>1, <1>8 DEF Typed, Agreed, Taken, OfferOf, Visits
<1> QED BY <1>2, <1>3, <1>4, <1>5, <1>6, <1>7, <1>8 DEF Moves

(* A pass of the sensor: it withdraws no command that nobody acknowledged,
   and while a visit lasts it raises none behind its back. *)
LEMMA PassAgrees ==
  ASSUME NEW d, NEW s, NEW u, NEW a, NEW a2, NEW down, NEW zone \in P!Zones,
         Typed(d, s, u, a), Agreed(d, s, u, a) /\ (down \/ Taken(d, s, u, a)),
         \/ a < MaxAway /\ a2 = a + 1
         \/ s = "away" /\ a2 = a
  PROVE  /\ Typed(P!Pass(d, zone), s, u, a2) /\ Agreed(P!Pass(d, zone), s, u, a2) /\ Taken(P!Pass(d, zone), s, u, a2)
         /\ OfferOf(d, s, u) # 0 => OfferOf(P!Pass(d, zone), s, u) # 0
<1> DEFINE p == P!Pass(d, zone)
<1>1. TimeoutLimit \in Nat \ {0} /\ MaxAway \in Nat \ {0} /\ 2 * MaxAway <= TimeoutLimit + 3
  BY LinkAssumption
<1>2. d \in P!Sensors /\ d.mark \in {0, 170} /\ d.cmd \in 0 .. 2 /\ a \in 0 .. MaxAway /\ a2 \in 0 .. MaxAway
  BY <1>1, SameSensors DEF Typed, P!Sensors
<1>3. /\ p \in P!Sensors /\ p.mark = 0 /\ p.tx.cmd = p.cmd
      /\ d.mark = 170 => p.cmd = 0 /\ P!Progress(p) = 0
      /\ P!Progress(p) <= P!Progress(d) + 1
      /\ d.mark = 0 => \/ p.cmd = d.cmd
                       \/ P!Progress(d) >= TimeoutLimit + 3 /\ p.cmd \in {1, 2}
  <2>1. /\ p \in P!Sensors /\ p.tx.cmd = p.cmd /\ p.mark = 0
        /\ P!Progress(p) <= P!Progress(d) + 1
        /\ d.mark = P!Acked => p.cmd = 0 /\ P!Progress(p) = 0
        /\ d.mark = 0 => \/ p.cmd = d.cmd
                         \/ /\ P!Progress(d) >= TimeoutLimit + 3
                            /\ p.cmd \in {P!LightOff, P!LightOn} /\ P!Progress(p) = 0
    BY <1>1, <1>2, P!PassEffect
  <2> HIDE DEF p
  <2>2. P!LightOff = 1 /\ P!LightOn = 2
    BY DEF P!LightOff, P!LightOn
  <2> QED BY <2>1, <2>2, SameSensors
<1>4. P!Progress(d) \in Nat /\ P!Progress(p) \in Nat
  BY <1>1, <1>2, <1>3, P!ProgressType
<1> HIDE DEF p
<1>5. Typed(p, s, u, a2)
  BY <1>2, <1>3 DEF Typed
<1>6. d.mark = 0 /\ d.cmd # 0 => p.cmd # 0
  BY <1>3
<1>7. s = "execute" /\ u # 0 => p.cmd = 0 /\ P!Progress(p) <= a2
  BY <1>1, <1>2, <1>3, <1>4 DEF Agreed, Taken
<1>8. Agreed(p, s, u, a2) /\ Taken(p, s, u, a2)
  BY <1>2, <1>3, <1>6, <1>7 DEF Agreed, Taken
<1>9. OfferOf(d, s, u) # 0 => OfferOf(p, s, u) # 0
  BY <1>2, <1>3, <1>6 DEF OfferOf
<1> QED BY <1>5, <1>8, <1>9 DEF p

-----------------------------------------------------------------------------
(* The visits of each sensor are such moves. *)
LEMMA VisitMoves1 ==
  ASSUME ReadDistance1
  PROVE  /\ pc = "sensor1" /\ pc' \in {"sensor1", "sensor2"}
         /\ \/ Moves(dev1, step1, uiLightCmd, away1, dev1', step1', uiLightCmd', away1')
               /\ (step1' # "away" => pc' = "sensor1")
            \/ step1 = "away" /\ UNCHANGED <<sensor1, uiLightCmd>>
         /\ executed1' \in {executed1, 1 - executed1}
         /\ UNCHANGED <<sensor2, remote>>
<1>1. pc = "sensor1" /\ UNCHANGED <<sensor2, remote>>
  BY DEF ReadDistance1, At
<1>2. CASE S1!Address /\ Stays
  BY <1>1, <1>2, Zenon DEF S1!Address, Stays, Moves
<1>3. CASE S1!ReadCmd /\ Stays
  BY <1>1, <1>3, Zenon DEF S1!ReadCmd, Stays, Moves
<1>4. CASE S1!Acknowledge /\ Stays
  BY <1>1, <1>4, SameSensors, Zenon DEF S1!Acknowledge, Stays, Moves
<1>5. CASE S1!ReadTemp /\ TempLight(dev1)
  BY <1>1, <1>5, Zenon DEF S1!ReadTemp, TempLight, Moves
<1>6. CASE S1!Execute /\ SwitchLight("sensor2")
  BY <1>1, <1>6, Zenon DEF S1!Execute, SwitchLight, Goes, Moves
<1>7. CASE /\ step1 = "addressed" /\ step1' = "away" /\ executed1' = Flip(executed1)
           /\ SwitchLight("sensor2") /\ UNCHANGED <<dev1, away1, uiLightCmd>>
  BY <1>1, <1>7, Zenon DEF Flip, SwitchLight, Goes, Moves
<1>8. CASE S1!NotAcknowledged /\ Fails("sensor2")
  BY <1>1, <1>8, Zenon DEF S1!NotAcknowledged, Fails, Moves
<1>9. CASE step1 = "away" /\ Fails("sensor2") /\ UNCHANGED <<sensor1, uiLightCmd>>
  BY <1>1, <1>9, Zenon DEF Fails, sensor1
<1> QED BY <1>2, <1>3, <1>4, <1>5, <1>6, <1>7, <1>8, <1>9 DEF ReadDistance1

LEMMA VisitMoves2 ==
  ASSUME ReadDistance2
  PROVE  /\ pc = "sensor2" /\ pc' \in {"sensor2", "ir"}
         /\ \/ Moves(dev2, step2, uiLightCmd, away2, dev2', step2', uiLightCmd', away2')
               /\ (step2' # "away" => pc' = "sensor2")
            \/ step2 = "away" /\ UNCHANGED <<sensor2, uiLightCmd>>
         /\ executed2' \in {executed2, 1 - executed2}
         /\ UNCHANGED <<sensor1, remote>>
<1>1. pc = "sensor2" /\ UNCHANGED <<sensor1, remote>>
  BY DEF ReadDistance2, At
<1>2. CASE S2!Address /\ Stays
  BY <1>1, <1>2, Zenon DEF S2!Address, Stays, Moves
<1>3. CASE S2!ReadCmd /\ Stays
  BY <1>1, <1>3, Zenon DEF S2!ReadCmd, Stays, Moves
<1>4. CASE S2!Acknowledge /\ Stays
  BY <1>1, <1>4, SameSensors, Zenon DEF S2!Acknowledge, Stays, Moves
<1>5. CASE S2!ReadTemp /\ TempLight(dev2)
  BY <1>1, <1>5, Zenon DEF S2!ReadTemp, TempLight, Moves
<1>6. CASE S2!Execute /\ SwitchLight("ir")
  BY <1>1, <1>6, Zenon DEF S2!Execute, SwitchLight, Goes, Moves
<1>7. CASE /\ step2 = "addressed" /\ step2' = "away" /\ executed2' = Flip(executed2)
           /\ SwitchLight("ir") /\ UNCHANGED <<dev2, away2, uiLightCmd>>
  BY <1>1, <1>7, Zenon DEF Flip, SwitchLight, Goes, Moves
<1>8. CASE S2!NotAcknowledged /\ Fails("ir")
  BY <1>1, <1>8, Zenon DEF S2!NotAcknowledged, Fails, Moves
<1>9. CASE step2 = "away" /\ Fails("ir") /\ UNCHANGED <<sensor2, uiLightCmd>>
  BY <1>1, <1>9, Zenon DEF Fails, sensor2
<1> QED BY <1>2, <1>3, <1>4, <1>5, <1>6, <1>7, <1>8, <1>9 DEF ReadDistance2

LEMMA PassSteps ==
  /\ Pass1 => \E zone \in P!Zones :
       /\ dev1' = P!Pass(dev1, zone) /\ step1' = step1 /\ executed1' = executed1
       /\ uiLightCmd' = uiLightCmd /\ pc' = pc
       /\ UNCHANGED <<sensor2, remote, flags, store, lamp, faults, silences>>
       /\ \/ away1 < MaxAway /\ away1' = away1 + 1
          \/ Down /\ away1' = away1
  /\ Pass2 => \E zone \in P!Zones :
       /\ dev2' = P!Pass(dev2, zone) /\ step2' = step2 /\ executed2' = executed2
       /\ uiLightCmd' = uiLightCmd /\ pc' = pc
       /\ UNCHANGED <<sensor1, remote, flags, store, lamp, faults, silences>>
       /\ \/ away2 < MaxAway /\ away2' = away2 + 1
          \/ Down /\ away2' = away2
<1>1. Hand1 \subseteq P!Zones /\ Hand2 \subseteq P!Zones /\ HandDown \subseteq P!Zones
  BY LinkAssumption, SameSensors
<1>2. ASSUME Pass1
      PROVE  \E zone \in P!Zones :
       /\ dev1' = P!Pass(dev1, zone) /\ step1' = step1 /\ executed1' = executed1
       /\ uiLightCmd' = uiLightCmd /\ pc' = pc
       /\ UNCHANGED <<sensor2, remote, flags, store, lamp, faults, silences>>
       /\ \/ away1 < MaxAway /\ away1' = away1 + 1
          \/ Down /\ away1' = away1
  BY <1>1, <1>2, SamePass, Zenon DEF Pass1, S1!SensorPass
<1>3. ASSUME Pass2
      PROVE  \E zone \in P!Zones :
       /\ dev2' = P!Pass(dev2, zone) /\ step2' = step2 /\ executed2' = executed2
       /\ uiLightCmd' = uiLightCmd /\ pc' = pc
       /\ UNCHANGED <<sensor1, remote, flags, store, lamp, faults, silences>>
       /\ \/ away2 < MaxAway /\ away2' = away2 + 1
          \/ Down /\ away2' = away2
  BY <1>1, <1>3, SamePass, Zenon DEF Pass2, S2!SensorPass
<1> QED BY <1>2, <1>3

LEMMA OtherSteps ==
  ASSUME LoopStart \/ Save \/ LoopEnd \/ ReadIr \/ BootFails \/ Receiver \/ UNCHANGED vars
  PROVE  /\ UNCHANGED <<sensor1, sensor2, uiLightCmd>>
         /\ pc' = pc \/ pc \notin {"sensor1", "sensor2"}
         /\ Down => Down'
<1>1. LoopStart => UNCHANGED <<sensor1, sensor2, uiLightCmd>> /\ pc = "loop"
  BY DEF LoopStart, At
<1>2. Save => UNCHANGED <<sensor1, sensor2, uiLightCmd>> /\ pc' = pc
  BY DEF Save
<1>3. LoopEnd => UNCHANGED <<sensor1, sensor2, uiLightCmd>> /\ pc = "show"
  BY DEF LoopEnd, At
<1>4. ReadIr => UNCHANGED <<sensor1, sensor2, uiLightCmd>> /\ pc = "ir"
  BY DEF ReadIr, At
<1>5. BootFails => UNCHANGED <<sensor1, sensor2, uiLightCmd>> /\ pc = "boot" /\ pc' = "noclock"
  BY DEF BootFails, At
<1>6. Receiver => UNCHANGED <<sensor1, sensor2, uiLightCmd>> /\ pc' = pc
  BY DEF Receiver
<1>7. UNCHANGED vars => UNCHANGED <<sensor1, sensor2, uiLightCmd>> /\ pc' = pc
  BY DEF vars
<1> QED BY <1>1, <1>2, <1>3, <1>4, <1>5, <1>6, <1>7 DEF Down

(* What keeps the visits in order: a sensor is visited at its place in the
   loop only. *)
Sensor1Inv ==
  /\ Typed(dev1, step1, uiLightCmd, away1) /\ executed1 \in {0, 1}
  /\ Agreed(dev1, step1, uiLightCmd, away1) /\ (Down \/ Taken(dev1, step1, uiLightCmd, away1))
  /\ step1 # "away" => pc = "sensor1"

Sensor2Inv ==
  /\ Typed(dev2, step2, uiLightCmd, away2) /\ executed2 \in {0, 1}
  /\ Agreed(dev2, step2, uiLightCmd, away2) /\ (Down \/ Taken(dev2, step2, uiLightCmd, away2))
  /\ step2 # "away" => pc = "sensor2"

(* A sensor that is not visited does not mind what uiLightCmd is. *)
LEMMA AwayAgrees ==
  ASSUME NEW d, NEW s, NEW u, NEW a, NEW u2 \in 0 .. 2, NEW down, NEW down2,
         Typed(d, s, u, a), Agreed(d, s, u, a) /\ (down \/ Taken(d, s, u, a)), s = "away", down => down2 \/ d.mark = 0
  PROVE  Typed(d, s, u2, a) /\ Agreed(d, s, u2, a) /\ (down2 \/ Taken(d, s, u2, a))
BY DEF Typed, Agreed, Taken

LEMMA SensorsInitially == Init => Sensor1Inv /\ Sensor2Inv
<1> SUFFICES ASSUME Init PROVE Sensor1Inv /\ Sensor2Inv
  OBVIOUS
<1>1. /\ dev1 = P!Powered /\ dev2 = P!Powered /\ uiLightCmd = 0 /\ pc = "boot"
      /\ step1 = "away" /\ away1 = 0 /\ executed1 = 0 /\ step2 = "away" /\ away2 = 0 /\ executed2 = 0
  BY SameSensors DEF Init, S1!Init, S2!Init
<1>2. P!Powered \in P!Sensors /\ P!Powered.tx.cmd = P!Powered.cmd /\ P!Powered.mark = 0
  BY LinkAssumption, SameSensors DEF P!Powered, P!Sensors, P!States, P!Published
<1> QED BY <1>1, <1>2, LinkAssumption DEF Sensor1Inv, Sensor2Inv, Typed, Agreed, Taken, Visits

LEMMA SensorsStep == Sensor1Inv /\ Sensor2Inv /\ [Next]_vars => Sensor1Inv' /\ Sensor2Inv'
<1> SUFFICES ASSUME Sensor1Inv, Sensor2Inv, [Next]_vars PROVE Sensor1Inv' /\ Sensor2Inv'
  OBVIOUS
<1>1. CASE Pass1
  <2>1. PICK zone \in P!Zones :
          /\ dev1' = P!Pass(dev1, zone) /\ step1' = step1 /\ executed1' = executed1
          /\ uiLightCmd' = uiLightCmd /\ pc' = pc /\ UNCHANGED sensor2
          /\ \/ away1 < MaxAway /\ away1' = away1 + 1
             \/ Down /\ away1' = away1
    BY <1>1, PassSteps, Zenon
  <2>2. Down => step1 = "away"
    BY DEF Sensor1Inv, Down
  <2>3. Typed(dev1', step1', uiLightCmd', away1') /\ Agreed(dev1', step1', uiLightCmd', away1') /\ Taken(dev1', step1', uiLightCmd', away1')
    BY <2>1, <2>2, PassAgrees DEF Sensor1Inv
  <2>4. Agreed(dev1', step1', uiLightCmd', away1') /\ (Down' \/ Taken(dev1', step1', uiLightCmd', away1'))
    BY <2>3 DEF Agreed, Taken
  <2> QED BY <2>1, <2>3, <2>4 DEF Sensor1Inv, Sensor2Inv, sensor2, Down
<1>2. CASE Pass2
  <2>1. PICK zone \in P!Zones :
          /\ dev2' = P!Pass(dev2, zone) /\ step2' = step2 /\ executed2' = executed2
          /\ uiLightCmd' = uiLightCmd /\ pc' = pc /\ UNCHANGED sensor1
          /\ \/ away2 < MaxAway /\ away2' = away2 + 1
             \/ Down /\ away2' = away2
    BY <1>2, PassSteps, Zenon
  <2>2. Down => step2 = "away"
    BY DEF Sensor2Inv, Down
  <2>3. Typed(dev2', step2', uiLightCmd', away2') /\ Agreed(dev2', step2', uiLightCmd', away2') /\ Taken(dev2', step2', uiLightCmd', away2')
    BY <2>1, <2>2, PassAgrees DEF Sensor2Inv
  <2>4. Agreed(dev2', step2', uiLightCmd', away2') /\ (Down' \/ Taken(dev2', step2', uiLightCmd', away2'))
    BY <2>3 DEF Agreed, Taken
  <2> QED BY <2>1, <2>3, <2>4 DEF Sensor1Inv, Sensor2Inv, sensor1, Down
<1>3. CASE ReadDistance1
  <2>1. ~Down /\ ~Down' /\ step2 = "away"
    BY <1>3, VisitMoves1 DEF Down, Sensor2Inv
  <2>2. Agreed(dev1, step1, uiLightCmd, away1) /\ Taken(dev1, step1, uiLightCmd, away1)
    BY <2>1 DEF Sensor1Inv, Agreed, Taken
  <2>3. /\ Typed(dev1', step1', uiLightCmd', away1') /\ Agreed(dev1', step1', uiLightCmd', away1') /\ Taken(dev1', step1', uiLightCmd', away1')
        /\ step1' # "away" => pc' = "sensor1"
    <3>1. CASE /\ Moves(dev1, step1, uiLightCmd, away1, dev1', step1', uiLightCmd', away1')
               /\ (step1' # "away" => pc' = "sensor1")
      <4>1. /\ Typed(dev1, step1, uiLightCmd, away1)
            /\ Moves(dev1, step1, uiLightCmd, away1, dev1', step1', uiLightCmd', away1')
        BY <3>1 DEF Sensor1Inv
      <4>2. /\ Typed(dev1', step1', uiLightCmd', away1')
            /\ Agreed(dev1', step1', uiLightCmd', away1') /\ Taken(dev1', step1', uiLightCmd', away1')
        BY <2>2, <4>1, MovesAgree
      <4> QED BY <3>1, <4>2
    <3>2. CASE step1 = "away" /\ UNCHANGED <<sensor1, uiLightCmd>>
      BY <2>2, <3>2 DEF Sensor1Inv, sensor1
    <3> QED BY <1>3, <3>1, <3>2, VisitMoves1
  <2>4. executed1' \in {0, 1}
    BY <1>3, VisitMoves1 DEF Sensor1Inv
  <2>5. uiLightCmd' \in 0 .. 2 /\ UNCHANGED sensor2
    BY <1>3, <2>3, VisitMoves1 DEF Typed
  <2>6. Typed(dev2, step2, uiLightCmd', away2) /\ Agreed(dev2, step2, uiLightCmd', away2) /\ Taken(dev2, step2, uiLightCmd', away2)
    BY <2>1, <2>5, AwayAgrees DEF Sensor2Inv
  <2> QED BY <2>1, <2>3, <2>4, <2>5, <2>6 DEF Sensor1Inv, Sensor2Inv, sensor2, Agreed, Taken
<1>4. CASE ReadDistance2
  <2>1. ~Down /\ ~Down' /\ step1 = "away"
    BY <1>4, VisitMoves2 DEF Down, Sensor1Inv
  <2>2. Agreed(dev2, step2, uiLightCmd, away2) /\ Taken(dev2, step2, uiLightCmd, away2)
    BY <2>1 DEF Sensor2Inv, Agreed, Taken
  <2>3. /\ Typed(dev2', step2', uiLightCmd', away2') /\ Agreed(dev2', step2', uiLightCmd', away2') /\ Taken(dev2', step2', uiLightCmd', away2')
        /\ step2' # "away" => pc' = "sensor2"
    <3>1. CASE /\ Moves(dev2, step2, uiLightCmd, away2, dev2', step2', uiLightCmd', away2')
               /\ (step2' # "away" => pc' = "sensor2")
      <4>1. /\ Typed(dev2, step2, uiLightCmd, away2)
            /\ Moves(dev2, step2, uiLightCmd, away2, dev2', step2', uiLightCmd', away2')
        BY <3>1 DEF Sensor2Inv
      <4>2. /\ Typed(dev2', step2', uiLightCmd', away2')
            /\ Agreed(dev2', step2', uiLightCmd', away2') /\ Taken(dev2', step2', uiLightCmd', away2')
        BY <2>2, <4>1, MovesAgree
      <4> QED BY <3>1, <4>2
    <3>2. CASE step2 = "away" /\ UNCHANGED <<sensor2, uiLightCmd>>
      BY <2>2, <3>2 DEF Sensor2Inv, sensor2
    <3> QED BY <1>4, <3>1, <3>2, VisitMoves2
  <2>4. executed2' \in {0, 1}
    BY <1>4, VisitMoves2 DEF Sensor2Inv
  <2>5. uiLightCmd' \in 0 .. 2 /\ UNCHANGED sensor1
    BY <1>4, <2>3, VisitMoves2 DEF Typed
  <2>6. Typed(dev1, step1, uiLightCmd', away1) /\ Agreed(dev1, step1, uiLightCmd', away1) /\ Taken(dev1, step1, uiLightCmd', away1)
    BY <2>1, <2>5, AwayAgrees DEF Sensor1Inv
  <2> QED BY <2>1, <2>3, <2>4, <2>5, <2>6 DEF Sensor1Inv, Sensor2Inv, sensor1, Agreed, Taken
<1>5. CASE Boot
  <2>1. /\ UNCHANGED <<sensor1, sensor2>> /\ uiLightCmd' = 0 /\ dev1.mark = 0 /\ dev2.mark = 0
        /\ step1 = "away" /\ step2 = "away"
    BY <1>5 DEF Boot, Locals, Faded, At, Sensor1Inv, Sensor2Inv
  <2>2. /\ Typed(dev1, step1, 0, away1) /\ Agreed(dev1, step1, 0, away1) /\ (Down' \/ Taken(dev1, step1, 0, away1))
        /\ Typed(dev2, step2, 0, away2) /\ Agreed(dev2, step2, 0, away2) /\ (Down' \/ Taken(dev2, step2, 0, away2))
    BY <2>1, AwayAgrees DEF Sensor1Inv, Sensor2Inv
  <2> QED BY <2>1, <2>2 DEF Sensor1Inv, Sensor2Inv, sensor1, sensor2
<1>6. CASE Watchdog \/ Reset
  <2>1. /\ pc' = "boot" /\ step1' = "away" /\ step2' = "away" /\ uiLightCmd' = uiLightCmd
        /\ UNCHANGED <<dev1, away1, executed1, dev2, away2, executed2>>
    BY <1>6 DEF Watchdog, Reset, Restart
  <2>2. Down'
    BY <2>1 DEF Down
  <2> QED BY <2>1, <2>2 DEF Sensor1Inv, Sensor2Inv, Typed, Agreed, Taken, Visits
<1>7. CASE LoopStart \/ Save \/ LoopEnd \/ ReadIr \/ BootFails \/ Receiver \/ UNCHANGED vars
  <2>1. /\ UNCHANGED <<sensor1, sensor2, uiLightCmd>>
        /\ pc' = pc \/ pc \notin {"sensor1", "sensor2"}
        /\ Down => Down'
    BY <1>7, OtherSteps
  <2> QED BY <2>1 DEF Sensor1Inv, Sensor2Inv, sensor1, sensor2, Agreed, Taken
<1> QED BY <1>1, <1>2, <1>3, <1>4, <1>5, <1>6, <1>7 DEF Next, Controller

-----------------------------------------------------------------------------
(* The receiver and the visits to it keep their types. *)
LEMMA ReceiverTyped ==
  ASSUME Link!TypeOK, Receiver
  PROVE  Link!TypeOK'
<1>1. ir \in Link!Receivers
  BY DEF Link!TypeOK
<1>2. 0 \in 0 .. SleepVisits
  BY LinkAssumption
<1>3. CASE Link!CheckMark
  <2>1. ir' \in Link!Receivers
    BY <1>1, <1>3 DEF Link!CheckMark, Link!Check, Link!Receivers, Link!Displays
  <2> QED BY <1>3, <2>1 DEF Link!CheckMark, Link!TypeOK
<1>4. CASE Link!PollNothing
  <2>1. ir' \in Link!Receivers
    BY <1>1, <1>4 DEF Link!PollNothing, Link!NoKey, Link!Receivers
  <2> QED BY <1>4, <2>1 DEF Link!PollNothing, Link!TypeOK
<1>5. CASE \E key \in Keys : Link!Press(key)
  <2>1. PICK key \in Keys : Link!Press(key)
    BY <1>5
  <2>2. ir' = [at |-> "asleep", tx |-> key, mark |-> ir.mark]
    <3>1. ir' = [ir EXCEPT !.at = "asleep", !.tx = key]
      BY <2>1 DEF Link!Press, Link!Show
    <3> QED BY <1>1, <3>1, Zenon DEF Link!Receivers
  <2>3. ir' \in Link!Receivers
    BY <1>1, <2>2 DEF Link!Receivers, Link!Displays
  <2> QED BY <1>2, <2>1, <2>3 DEF Link!Press, Link!TypeOK
<1>6. CASE ir' = Link!Wake(ir) /\ UNCHANGED <<step, got, visits, began, served>>
  <2>1. ir' \in Link!Receivers
    BY <1>1, <1>6 DEF Link!Wake, Link!Receivers
  <2> QED BY <1>6, <2>1 DEF Link!TypeOK
<1> QED BY <1>3, <1>4, <1>5, <1>6 DEF Receiver, Link!Receiver, Link!WakeUp

LEMMA VisitTyped ==
  ASSUME Link!TypeOK, ReadIr
  PROVE  Link!TypeOK'
<1>1. /\ ir \in Link!Receivers /\ ir.tx \in [1 .. 4 -> 0 .. 255] /\ got \in [1 .. 4 -> 0 .. 255]
      /\ visits \in 0 .. SleepVisits /\ SleepVisits \in Nat
  <2>1. <<0, 0, 0, 0>> \in [1 .. 4 -> 0 .. 255]
    OBVIOUS
  <2>2. ir.tx \in Keys \cup {<<0, 0, 0, 0>>}
    BY DEF Link!TypeOK, Link!Receivers, Link!Displays, Link!Blank
  <2> QED BY <2>1, <2>2, LinkAssumption DEF Link!TypeOK, Link!Frames
<1>2. CASE Link!Address
  BY <1>2 DEF Link!Address, Link!TypeOK, Link!Steps
<1>3. CASE ReadIrByte
  <2>1. PICK i \in 1 .. 4 : Link!ReadByte(i)
    BY <1>3 DEF ReadIrByte
  <2>2. got' \in [1 .. 4 -> 0 .. 255] /\ UNCHANGED <<ir, began, served>>
    BY <1>1, <2>1 DEF Link!ReadByte
  <2>3. step' \in Link!Steps /\ visits' \in 0 .. SleepVisits
    <3>1. CASE i < 4
      <4>1. i \in 1 .. 3 /\ step' = <<"read2", "read3", "read4">>[i] /\ visits' = visits
        BY <2>1, <3>1 DEF Link!ReadByte
      <4> QED BY <1>1, <4>1 DEF Link!Steps
    <3>2. CASE ~(i < 4)
      <4>1. step' \in {"ack", "away"} /\ visits' \in {visits, IF visits < SleepVisits THEN visits + 1 ELSE visits}
        BY <2>1, <3>2 DEF Link!ReadByte, Link!Complete
      <4> QED BY <1>1, <4>1 DEF Link!Steps
    <3> QED BY <3>1, <3>2
  <2> QED BY <2>2, <2>3 DEF Link!TypeOK, Link!Frames
<1>4. CASE Link!Acknowledge
  <2>1. ir' \in Link!Receivers
    BY <1>1, <1>4 DEF Link!Acknowledge, Link!Receivers
  <2> QED BY <1>4, <2>1 DEF Link!Acknowledge, Link!TypeOK, Link!Steps
<1>5. CASE Link!Execute
  BY <1>1, <1>5 DEF Link!Execute, Link!Complete, Link!TypeOK, Link!Steps
<1>6. CASE Link!ReadFails \/ Link!NotAcknowledged
  BY <1>6 DEF Link!ReadFails, Link!NotAcknowledged, Link!TypeOK, Link!Steps
<1>7. CASE UNCHANGED remote
  BY <1>7 DEF remote, Link!TypeOK
<1> QED BY <1>2, <1>3, <1>4, <1>5, <1>6, <1>7 DEF ReadIr

LEMMA RemoteStep == Link!TypeOK /\ [Next]_vars => Link!TypeOK'
<1> SUFFICES ASSUME Link!TypeOK, [Next]_vars PROVE Link!TypeOK'
  OBVIOUS
<1>1. CASE UNCHANGED remote
  BY <1>1 DEF remote, Link!TypeOK
<1>2. CASE Watchdog \/ Reset
  BY <1>2 DEF Watchdog, Reset, Restart, Link!TypeOK, Link!Steps
<1>3. CASE Receiver
  BY <1>3, ReceiverTyped
<1>4. CASE ReadIr
  BY <1>4, VisitTyped
<1>5. Pass1 \/ Pass2 \/ LoopStart \/ Save \/ LoopEnd \/ Boot \/ BootFails \/ UNCHANGED vars => UNCHANGED remote
  BY DEF Pass1, Pass2, LoopStart, Save, LoopEnd, Boot, BootFails, vars
<1>6. ReadDistance1 \/ ReadDistance2 => UNCHANGED remote
  BY VisitMoves1, VisitMoves2
<1> QED BY <1>1, <1>2, <1>3, <1>4, <1>5, <1>6 DEF Next, Controller

-----------------------------------------------------------------------------
(* The settings stay in their ranges because what is read back from the
   clock was in them when it was saved. *)
StoreTyped ==
  /\ settings \in Settings /\ before \in Memories /\ unsaved \subseteq Cells
  /\ sram \in Memories /\ sram["percent"] \in 5 .. 100 /\ sram["light"] \in {0, 1}
  /\ queue \in Seq(Cells) /\ Len(queue) <= 5

LEMMA SameSettings ==
  /\ P!Settings = Settings
  /\ \A command, s : P!Obey(command, s) = Obey(command, s)
<1>1. P!Settings = Settings
  BY DEF P!Settings, Settings
<1>2. ASSUME NEW command, NEW s PROVE P!Obey(command, s) = Obey(command, s)
  BY DEF P!Obey, Obey, P!Full, Full, P!Raise, Raise, P!Lower, Lower
<1> QED BY <1>1, <1>2

LEMMA KeptTyped ==
  ASSUME NEW s \in Settings
  PROVE  /\ Kept(s) \in Memories /\ \A c \in Cells : s[c] \in 0 .. 255
         /\ s["percent"] \in 5 .. 100 /\ s["light"] \in {0, 1}
<1>1. \A c \in Cells : s[c] \in 0 .. 255
  BY DEF Settings, Cells
<1>2. s["percent"] \in 5 .. 100 /\ s["light"] \in {0, 1}
  BY DEF Settings
<1> QED BY <1>1, <1>2 DEF Kept, Memories

LEMMA ChangeTyped ==
  ASSUME StoreTyped, NEW s \in Settings, NEW cells \in Seq(Cells), Len(cells) <= 5, Change(s, cells)
  PROVE  StoreTyped'
<1>1. Kept(settings) \in Memories
  BY KeptTyped DEF StoreTyped
<1> QED BY <1>1 DEF Change, StoreTyped

LEMMA SwitchTyped ==
  ASSUME StoreTyped, NEW next, SwitchLight(next)
  PROVE  StoreTyped'
<1>1. CASE uiLightCmd \in {1, 2}
  <2> DEFINE s == [settings EXCEPT !.light = uiLightCmd - 1]
  <2>1. Change(s, <<"light">>)
    BY <1>1 DEF SwitchLight
  <2>2. uiLightCmd - 1 \in {0, 1}
    BY <1>1
  <2>3. s \in Settings
    <3>1. ASSUME NEW x \in Settings
          PROVE  [x EXCEPT !.light = 0] \in Settings /\ [x EXCEPT !.light = 1] \in Settings
      <4>1. [x EXCEPT !.light = 0] \in Settings
        BY DEF Settings
      <4>2. [x EXCEPT !.light = 1] \in Settings
        BY DEF Settings
      <4> QED BY <4>1, <4>2
    <3>2. uiLightCmd - 1 = 0 \/ uiLightCmd - 1 = 1
      BY <2>2
    <3> QED BY <3>1, <3>2, Zenon DEF StoreTyped
  <2>4. <<"light">> \in Seq(Cells) /\ Len(<<"light">>) <= 5
    BY DEF Cells
  <2> HIDE DEF s
  <2> QED BY <2>1, <2>3, <2>4, ChangeTyped
<1>2. CASE uiLightCmd \notin {1, 2}
  BY <1>2 DEF SwitchLight, StoreTyped, store
<1> QED BY <1>1, <1>2

LEMMA KeyTyped ==
  ASSUME StoreTyped, Link!TypeOK, ObeyKey
  PROVE  StoreTyped'
<1> DEFINE s == Obey(Link!Command(got), settings)
           cells == <<"r", "g", "b", "percent", "light">>
<1>1. Link!Command(got) \in Int
  <2>1. got[1] \in 0 .. 255 /\ got[2] \in 0 .. 255
    BY DEF Link!TypeOK, Link!Frames
  <2>2. \A x, y \in 0 .. 255 : 256 * x + y \in Int
    OBVIOUS
  <2> QED BY <2>1, <2>2, Zenon DEF Link!Command
<1>2. s \in Settings
  BY <1>1, LinkAssumption, SameSettings, P!ObeyInRange DEF StoreTyped
<1>3. Change(s, cells)
  BY DEF ObeyKey
<1>4. cells \in Seq(Cells) /\ Len(cells) <= 5
  BY DEF Cells
<1> HIDE DEF s, cells
<1> QED BY <1>2, <1>3, <1>4, ChangeTyped

LEMMA SaveTyped == ASSUME StoreTyped, Save PROVE StoreTyped'
<1> DEFINE c == Head(queue)
<1>1. /\ queue # << >> /\ queue' = Tail(queue) /\ settings' = settings /\ before' = before
      /\ sram' \in {sram, [sram EXCEPT ![c] = settings[c]]}
      /\ unsaved' \in {unsaved \ {c}, unsaved \cup {c}}
  BY DEF Save
<1>2. c \in Cells /\ queue' \in Seq(Cells) /\ Len(queue') <= 5
  BY <1>1 DEF StoreTyped
<1> HIDE DEF c
<1>3. settings[c] \in 0 .. 255 /\ settings["percent"] \in 5 .. 100 /\ settings["light"] \in {0, 1}
  BY <1>2, KeptTyped DEF StoreTyped
<1>4. sram' \in Memories
  <2>1. ASSUME NEW v \in 0 .. 255 PROVE [sram EXCEPT ![c] = v] \in Memories
    BY <1>2 DEF StoreTyped, Memories
  <2> QED BY <1>1, <1>3, <2>1 DEF StoreTyped
<1>5. "percent" \in Cells /\ "light" \in Cells
  BY DEF Cells
<1>6. sram'["percent"] \in 5 .. 100 /\ sram'["light"] \in {0, 1}
  <2>1. CASE sram' = sram
    BY <2>1 DEF StoreTyped
  <2>2. CASE sram' = [sram EXCEPT ![c] = settings[c]]
    <3>1. sram'["percent"] \in {sram["percent"], settings["percent"]}
      BY <1>2, <1>5, <2>2 DEF StoreTyped, Memories
    <3>2. sram'["light"] \in {sram["light"], settings["light"]}
      BY <1>2, <1>5, <2>2 DEF StoreTyped, Memories
    <3> QED BY <1>3, <3>1, <3>2 DEF StoreTyped
  <2> QED BY <1>1, <2>1, <2>2
<1> QED BY <1>1, <1>2, <1>4, <1>6 DEF StoreTyped

LEMMA BootTyped == ASSUME StoreTyped, Boot PROVE StoreTyped'
<1>1. PICK lost \in SUBSET Cells :
        /\ settings' = [Default EXCEPT !.r = IF "r" \in lost THEN @ ELSE sram.r,
                          !.g = IF "g" \in lost THEN @ ELSE sram.g,
                          !.b = IF "b" \in lost THEN @ ELSE sram.b,
                          !.percent = IF "percent" \in lost THEN @ ELSE sram.percent,
                          !.light = IF "light" \in lost THEN @ ELSE sram.light]
        /\ unsaved' = lost
  BY DEF Boot
<1>2. queue' = queue /\ sram' = sram /\ before' = Kept(settings')
  BY DEF Boot
<1>3. sram["r"] \in 0 .. 255 /\ sram["g"] \in 0 .. 255 /\ sram["b"] \in 0 .. 255
  BY DEF StoreTyped, Memories, Cells
<1> DEFINE r == IF "r" \in lost THEN Default.r ELSE sram.r
           g == IF "g" \in lost THEN Default.g ELSE sram.g
           b == IF "b" \in lost THEN Default.b ELSE sram.b
           percent == IF "percent" \in lost THEN Default.percent ELSE sram.percent
           light == IF "light" \in lost THEN Default.light ELSE sram.light
<1>4. /\ settings' = [Default EXCEPT !.r = r, !.g = g, !.b = b, !.percent = percent, !.light = light]
      /\ r \in {Default.r, sram.r} /\ g \in {Default.g, sram.g} /\ b \in {Default.b, sram.b}
      /\ percent \in {Default.percent, sram.percent} /\ light \in {Default.light, sram.light}
  BY <1>1
<1> HIDE DEF r, g, b, percent, light
<1>5. Default \in Settings
  BY DEF Default, Settings
<1>6. settings' \in Settings
  <2>1. settings' = [r |-> r, g |-> g, b |-> b, percent |-> percent, light |-> light,
                     function |-> Default.function]
    BY <1>4, <1>5, Zenon DEF Settings
  <2>2. /\ Default.r = 255 /\ Default.g = 239 /\ Default.b = 191 /\ Default.percent = 100
        /\ Default.light = 0 /\ Default.function = 0
    BY DEF Default
  <2>3. r \in 0 .. 255 /\ g \in 0 .. 255 /\ b \in 0 .. 255
    BY <1>3, <1>4, <2>2
  <2>4. sram.percent \in 5 .. 100 /\ sram.light \in {0, 1}
    BY DEF StoreTyped
  <2>5. percent \in 5 .. 100
    BY <1>4, <2>2, <2>4
  <2>6. light \in {0, 1} /\ Default.function \in 0 .. 4
    BY <1>4, <2>2, <2>4
  <2> QED BY <2>1, <2>3, <2>5, <2>6 DEF Settings
<1>7. Kept(settings') \in Memories
  BY <1>6, KeptTyped
<1> QED BY <1>1, <1>2, <1>6, <1>7 DEF StoreTyped

LEMMA StoreInitially == Init => StoreTyped
<1> SUFFICES ASSUME Init PROVE StoreTyped
  OBVIOUS
<1>1. settings = Default /\ sram = Kept(Default) /\ before = sram /\ unsaved = {} /\ queue = << >>
  BY DEF Init
<1>2. Default \in Settings
  BY DEF Default, Settings
<1>3. Kept(Default) \in Memories /\ Kept(Default)["percent"] = 100 /\ Kept(Default)["light"] = 0
  BY <1>2, KeptTyped DEF Kept, Cells, Default
<1>4. queue \in Seq(Cells) /\ Len(queue) <= 5
  BY <1>1
<1> QED BY <1>1, <1>2, <1>3, <1>4 DEF StoreTyped

LEMMA StoreStep == StoreTyped /\ Link!TypeOK /\ [Next]_vars => StoreTyped'
<1> SUFFICES ASSUME StoreTyped, Link!TypeOK, [Next]_vars PROVE StoreTyped'
  OBVIOUS
<1>1. CASE UNCHANGED store
  BY <1>1 DEF store, StoreTyped
<1>2. CASE ReadDistance1 \/ ReadDistance2 \/ ReadIr
  <2>1. PICK here, next : Visited(here, next)
    BY <1>2, VisitSteps
  <2> QED BY <1>1, <2>1, SwitchTyped, KeyTyped DEF Visited, Stayed, Fails
<1>3. CASE Save
  BY <1>3, SaveTyped
<1>4. CASE Boot
  BY <1>4, BootTyped
<1>5. CASE Watchdog \/ Reset
  <2>1. queue' = << >> /\ UNCHANGED <<settings, sram, before, unsaved>>
    BY <1>5 DEF Watchdog, Reset, Restart
  <2>2. queue' \in Seq(Cells) /\ Len(queue') <= 5
    BY <2>1
  <2> QED BY <2>1, <2>2 DEF StoreTyped
<1>6. LoopStart \/ LoopEnd \/ BootFails \/ Pass1 \/ Pass2 \/ Receiver \/ UNCHANGED vars => UNCHANGED store
  BY DEF LoopStart, LoopEnd, BootFails, Pass1, Pass2, Receiver, vars
<1> QED BY <1>1, <1>2, <1>3, <1>4, <1>5, <1>6 DEF Next, Controller

-----------------------------------------------------------------------------
(* The controller's own flags and counters. *)
ControlInv ==
  /\ uiTempLight \in 0 .. 2 /\ bHasError \in {0, 1} /\ pc \in Places
  /\ faults \in 0 .. MaxFaults /\ silences \in 0 .. ErrorLimit + 1
  /\ uiErrorCount \in 0 .. ErrorLimit + 1 /\ (~Down => uiErrorCount <= ErrorLimit)

LEMMA FaultsTyped ==
  ASSUME faults \in 0 .. MaxFaults
  PROVE  /\ \A kind : Fault(kind) => faults' \in 0 .. MaxFaults
         /\ \A device : Answers(device) \/ Silent(device) => faults' \in 0 .. MaxFaults
<1>1. ASSUME NEW kind, Fault(kind) PROVE faults' \in 0 .. MaxFaults
  BY <1>1, FaultAssumption DEF Fault
<1> QED BY <1>1 DEF Answers, Silent

(* What a visit does to them, whichever device it is to. *)
Flagged(next) ==
  \/ pc' \in {pc, next} /\ UNCHANGED <<bHasError, uiErrorCount, silences>> /\ uiTempLight' \in 0 .. 2
  \/ Fails(next)

LEMMA VisitFlags ==
  ASSUME ControlInv, Sensor1Inv, Sensor2Inv, ReadDistance1 \/ ReadDistance2 \/ ReadIr
  PROVE  /\ faults' \in 0 .. MaxFaults
         /\ \E next \in {"sensor2", "ir", "show"} : ~Down /\ Flagged(next)
<1>1. uiTempLight \in 0 .. 2 /\ dev1.tx.temp \in 0 .. 2 /\ dev2.tx.temp \in 0 .. 2
  BY DEF ControlInv, Sensor1Inv, Sensor2Inv, Typed, P!Sensors, P!Published
<1>2. Stays => UNCHANGED <<pc, flags, silences>>
  BY DEF Stays
<1>3. CASE ReadDistance1
  <2>1. faults' \in 0 .. MaxFaults
    BY <1>3, FaultsTyped DEF ReadDistance1, ControlInv
  <2>2. Flagged("sensor2")
    BY <1>1, <1>2, <1>3 DEF ReadDistance1, Flagged, TempLight, SwitchLight, Goes, flags
  <2>3. ~Down
    BY <1>3 DEF ReadDistance1, At, Down
  <2> QED BY <2>1, <2>2, <2>3
<1>4. CASE ReadDistance2
  <2>1. faults' \in 0 .. MaxFaults
    BY <1>4, FaultsTyped DEF ReadDistance2, ControlInv
  <2>2. Flagged("ir")
    BY <1>1, <1>2, <1>4 DEF ReadDistance2, Flagged, TempLight, SwitchLight, Goes, flags
  <2>3. ~Down
    BY <1>4 DEF ReadDistance2, At, Down
  <2> QED BY <2>1, <2>2, <2>3
<1>5. CASE ReadIr
  <2>1. faults' \in 0 .. MaxFaults
    BY <1>5, FaultsTyped DEF ReadIr, ControlInv
  <2>2. Flagged("show")
    BY <1>1, <1>2, <1>5 DEF ReadIr, ReadIrByte, Flagged, ObeyKey, Goes, flags
  <2>3. ~Down
    BY <1>5 DEF ReadIr, At, Down
  <2> QED BY <2>1, <2>2, <2>3
<1> QED BY <1>3, <1>4, <1>5

LEMMA ControlInitially == Init => ControlInv
BY FaultAssumption DEF Init, ControlInv, Places, Down

LEMMA ControlStep == ControlInv /\ Sensor1Inv /\ Sensor2Inv /\ [Next]_vars => ControlInv'
<1> SUFFICES ASSUME ControlInv, Sensor1Inv, Sensor2Inv, [Next]_vars PROVE ControlInv'
  OBVIOUS
<1>1. ErrorLimit \in Nat /\ MaxFaults \in Nat
  BY FaultAssumption
<1>2. CASE UNCHANGED <<flags, pc, silences>> /\ faults' \in 0 .. MaxFaults
  BY <1>2 DEF ControlInv, flags, Down
<1>3. CASE Pass1 \/ Pass2 \/ Receiver \/ UNCHANGED vars
  <2>1. UNCHANGED <<flags, pc, silences, faults>>
    BY <1>3 DEF Pass1, Pass2, Receiver, vars
  <2> QED BY <1>2, <2>1 DEF ControlInv
<1>4. CASE ReadDistance1 \/ ReadDistance2 \/ ReadIr
  <2>1. PICK next \in {"sensor2", "ir", "show"} : ~Down /\ Flagged(next)
    BY <1>4, VisitFlags
  <2>2. faults' \in 0 .. MaxFaults
    BY <1>4, VisitFlags
  <2>3. CASE Fails(next)
    BY <1>1, <2>1, <2>2, <2>3 DEF Fails, ControlInv, Places, Down
  <2>4. CASE pc' \in {pc, next} /\ UNCHANGED <<bHasError, uiErrorCount, silences>> /\ uiTempLight' \in 0 .. 2
    BY <2>1, <2>2, <2>4 DEF ControlInv, Places, Down
  <2> QED BY <2>1, <2>3, <2>4 DEF Flagged
<1>5. CASE LoopStart
  BY <1>5 DEF LoopStart, At, ControlInv, Places, Down
<1>6. CASE Save
  <2>1. UNCHANGED <<flags, pc, silences>> /\ faults' \in 0 .. MaxFaults
    BY <1>6, FaultsTyped DEF Save, ControlInv
  <2> QED BY <1>2, <2>1
<1>7. CASE LoopEnd
  BY <1>1, <1>7 DEF LoopEnd, At, Count, ControlInv, Places, Down
<1>8. CASE Boot
  <2>1. faults' \in 0 .. MaxFaults
    BY <1>8, FaultsTyped DEF Boot, ControlInv
  <2> QED BY <1>1, <1>8, <2>1 DEF Boot, Locals, ControlInv, Places, Down
<1>9. CASE BootFails
  <2>1. faults' \in 0 .. MaxFaults
    BY <1>9, FaultsTyped DEF BootFails, ControlInv
  <2> QED BY <1>9, <2>1 DEF BootFails, flags, ControlInv, Places, Down
<1>10. CASE Watchdog \/ Reset
  <2>1. faults' \in 0 .. MaxFaults
    BY <1>10, FaultsTyped DEF Watchdog, Reset, ControlInv
  <2> QED BY <1>10, <2>1 DEF Watchdog, Reset, Restart, flags, ControlInv, Places, Down
<1> QED BY <1>3, <1>4, <1>5, <1>6, <1>7, <1>8, <1>9, <1>10 DEF Next, Controller

LEMMA RemoteInitially == Init => Link!TypeOK
<1> SUFFICES ASSUME Init PROVE Link!TypeOK
  OBVIOUS
<1>1. ir = Link!Powered /\ got = Link!Blank /\ step = "away" /\ visits = 0 /\ began = 0 /\ served = 0
  BY DEF Init, Link!Init
<1>2. Link!Powered \in Link!Receivers
  BY DEF Link!Powered, Link!Receivers, Link!Displays
<1>3. Link!Blank \in Link!Frames
  BY DEF Link!Blank, Link!Frames
<1> QED BY <1>1, <1>2, <1>3, LinkAssumption DEF Link!TypeOK, Link!Steps

LampInv ==
  Sensor1Inv /\ Sensor2Inv /\ Link!TypeOK /\ StoreTyped /\ ControlInv

LEMMA LampInitially == Init => LampInv
BY SensorsInitially, RemoteInitially, StoreInitially, ControlInitially DEF LampInv

LEMMA LampStep == LampInv /\ [Next]_vars => LampInv'
BY SensorsStep, RemoteStep, StoreStep, ControlStep DEF LampInv

(* Every variable of the lamp keeps its range: in particular the settings do,
   whatever a reset leaves in the clock's RAM and whichever cells of it
   cannot be read. *)
THEOREM LampTyped == Spec => []TypeOK
<1>1. LampInv => TypeOK
  <2> SUFFICES ASSUME LampInv PROVE TypeOK
    OBVIOUS
  <2>1. S1!TypeOK
    BY SameSensors DEF LampInv, Sensor1Inv, Typed, S1!TypeOK, S1!Steps, Visits
  <2>2. S2!TypeOK
    BY SameSensors DEF LampInv, Sensor2Inv, Typed, S2!TypeOK, S2!Steps, Visits
  <2>3. Kept(settings) \in Memories
    BY KeptTyped DEF LampInv, StoreTyped
  <2> QED BY <2>1, <2>2, <2>3 DEF LampInv, StoreTyped, ControlInv, TypeOK
<1> QED BY <1>1, LampInitially, LampStep, PTL DEF Spec

-----------------------------------------------------------------------------
(* The offers of SensorLink and OfferOf are the same. *)
LEMMA SameOffers ==
  /\ S1!Offer = OfferOf(dev1, step1, uiLightCmd) /\ S2!Offer = OfferOf(dev2, step2, uiLightCmd)
  /\ (S1!Offer)' = OfferOf(dev1', step1', uiLightCmd') /\ (S2!Offer)' = OfferOf(dev2', step2', uiLightCmd')
BY SameSensors DEF S1!Offer, S2!Offer, OfferOf, S1!Acked, S2!Acked

(* What the switch behind read_distance does to the light. *)
LEMMA SwitchSwitches ==
  ASSUME settings \in Settings, uiLightCmd \in 0 .. 2, NEW next, SwitchLight(next)
  PROVE  settings'.light = IF uiLightCmd = 0 THEN settings.light ELSE uiLightCmd - 1
<1>1. CASE uiLightCmd \in {1, 2}
  <2>1. settings' = [settings EXCEPT !.light = uiLightCmd - 1]
    BY <1>1 DEF SwitchLight, Change
  <2> QED BY <1>1, <2>1 DEF Settings
<1>2. CASE uiLightCmd \notin {1, 2}
  BY <1>2 DEF SwitchLight, store
<1> QED BY <1>1, <1>2

(* Only the keys "off" and "on" of the remote switch the light. *)
LEMMA ObeySwitches ==
  ASSUME NEW s \in Settings, NEW command \in Int, command \notin {2, 3}
  PROVE  Obey(command, s).light = s.light
<1>1. \A x, y : [s EXCEPT !.percent = x].light = s.light /\ [s EXCEPT !.function = y].light = s.light
  BY DEF Settings
<1>2. \A x : /\ [s EXCEPT !.r = x].light = s.light /\ [s EXCEPT !.g = x].light = s.light
             /\ [s EXCEPT !.b = x].light = s.light
  BY DEF Settings
<1>3. \A r, g, b : Full(s, r, g, b).light = s.light
  BY DEF Full, Settings
<1>4. command \in {0, 1, 4, 5, 6, 7, 8, 9, 10, 11, 12, 13, 14, 15, 19, 23} \/ Obey(command, s) = s
  BY DEF Obey
<1>5. CASE command \in {0, 1, 11, 15, 19, 23}
  BY <1>1, <1>5 DEF Obey
<1>6. CASE command \in {8, 9, 10, 12, 13, 14}
  BY <1>2, <1>6 DEF Obey
<1>7. CASE command \in {4, 5, 6, 7}
  BY <1>3, <1>7 DEF Obey
<1> QED BY <1>4, <1>5, <1>6, <1>7

(* A visit switches the light in its last step, or when it breaks. *)
LEMMA VisitSwitches ==
  /\ ReadDistance1 =>
       \/ step1 = "execute" /\ SwitchLight("sensor2")
       \/ step1 # "execute" /\ settings' = settings
       \/ step1 = "addressed" /\ SwitchLight("sensor2") /\ Fault("broken")
  /\ ReadDistance2 =>
       \/ step2 = "execute" /\ SwitchLight("ir")
       \/ step2 # "execute" /\ settings' = settings
       \/ step2 = "addressed" /\ SwitchLight("ir") /\ Fault("broken")
<1>1. ASSUME ReadDistance1
      PROVE  \/ step1 = "execute" /\ SwitchLight("sensor2")
             \/ step1 # "execute" /\ settings' = settings
             \/ step1 = "addressed" /\ SwitchLight("sensor2") /\ Fault("broken")
  BY <1>1 DEF ReadDistance1, S1!Address, S1!ReadCmd, S1!Acknowledge, S1!ReadTemp, S1!Execute,
              S1!NotAcknowledged, Stays, TempLight, Fails, store
<1>2. ASSUME ReadDistance2
      PROVE  \/ step2 = "execute" /\ SwitchLight("ir")
             \/ step2 # "execute" /\ settings' = settings
             \/ step2 = "addressed" /\ SwitchLight("ir") /\ Fault("broken")
  BY <1>2 DEF ReadDistance2, S2!Address, S2!ReadCmd, S2!Acknowledge, S2!ReadTemp, S2!Execute,
              S2!NotAcknowledged, Stays, TempLight, Fails, store
<1> QED BY <1>1, <1>2
(* A visit to one sensor, with the other waiting. *)
LEMMA Visit1Ordered ==
  ASSUME LampInv, ReadDistance1
  PROVE  /\ ~Done2
         /\ Done1 => settings'.light = S1!Offer - 1
         /\ settings'.light # settings.light => Done1 \/ Repeated
<1> DEFINE before1 == OfferOf(dev1, step1, uiLightCmd)
           after1 == OfferOf(dev1', step1', uiLightCmd')
<1>1. /\ pc = "sensor1" /\ step2 = "away" /\ ~Down /\ UNCHANGED sensor2
      /\ uiLightCmd \in 0 .. 2 /\ settings \in Settings /\ faults \in Nat
  BY VisitMoves1 DEF LampInv, Sensor1Inv, Sensor2Inv, Typed, StoreTyped, ControlInv, Down
<1>2. ~Done2
  BY <1>1, SameOffers DEF Done2, OfferOf, sensor2
<1>3. /\ before1 # 0 /\ after1 = 0 => step1 = "execute" /\ uiLightCmd # 0
      /\ step1 = "execute" /\ uiLightCmd # 0 => before1 = uiLightCmd /\ after1 = 0
  <2>1. CASE Moves(dev1, step1, uiLightCmd, away1, dev1', step1', uiLightCmd', away1')
    <3>1. /\ Typed(dev1, step1, uiLightCmd, away1)
          /\ Agreed(dev1, step1, uiLightCmd, away1) /\ Taken(dev1, step1, uiLightCmd, away1)
      BY <1>1 DEF LampInv, Sensor1Inv, Agreed, Taken
    <3> QED BY <2>1, <3>1, MovesAgree
  <2>2. CASE step1 = "away" /\ UNCHANGED <<sensor1, uiLightCmd>>
    BY <2>2 DEF sensor1
  <2> QED BY <2>1, <2>2, VisitMoves1
<1> HIDE DEF before1, after1
<1>4. Done1 <=> before1 # 0 /\ after1 = 0
  BY SameOffers DEF Done1, before1, after1
<1>5. S1!Offer = before1
  BY SameOffers DEF before1
<1>6. CASE step1 = "execute" /\ SwitchLight("sensor2")
  <2>1. settings'.light = IF uiLightCmd = 0 THEN settings.light ELSE uiLightCmd - 1
    BY <1>1, <1>6, SwitchSwitches
  <2> QED BY <1>2, <1>3, <1>4, <1>5, <1>6, <2>1
<1>7. CASE step1 # "execute" /\ settings' = settings
  BY <1>2, <1>3, <1>4, <1>7
<1>8. CASE step1 = "addressed" /\ SwitchLight("sensor2") /\ Fault("broken")
  <2>1. settings'.light = IF uiLightCmd = 0 THEN settings.light ELSE uiLightCmd - 1
    BY <1>1, <1>8, SwitchSwitches
  <2>2. faults' # faults
    BY <1>1, <1>8 DEF Fault
  <2> QED BY <1>2, <1>3, <1>4, <1>8, <2>1, <2>2 DEF Repeated
<1> QED BY <1>6, <1>7, <1>8, VisitSwitches

LEMMA Visit2Ordered ==
  ASSUME LampInv, ReadDistance2
  PROVE  /\ ~Done1
         /\ Done2 => settings'.light = S2!Offer - 1
         /\ settings'.light # settings.light => Done2 \/ Repeated
<1> DEFINE before2 == OfferOf(dev2, step2, uiLightCmd)
           after2 == OfferOf(dev2', step2', uiLightCmd')
<1>1. /\ pc = "sensor2" /\ step1 = "away" /\ ~Down /\ UNCHANGED sensor1
      /\ uiLightCmd \in 0 .. 2 /\ settings \in Settings /\ faults \in Nat
  BY VisitMoves2 DEF LampInv, Sensor1Inv, Sensor2Inv, Typed, StoreTyped, ControlInv, Down
<1>2. ~Done1
  BY <1>1, SameOffers DEF Done1, OfferOf, sensor1
<1>3. /\ before2 # 0 /\ after2 = 0 => step2 = "execute" /\ uiLightCmd # 0
      /\ step2 = "execute" /\ uiLightCmd # 0 => before2 = uiLightCmd /\ after2 = 0
  <2>1. CASE Moves(dev2, step2, uiLightCmd, away2, dev2', step2', uiLightCmd', away2')
    <3>1. /\ Typed(dev2, step2, uiLightCmd, away2)
          /\ Agreed(dev2, step2, uiLightCmd, away2) /\ Taken(dev2, step2, uiLightCmd, away2)
      BY <1>1 DEF LampInv, Sensor2Inv, Agreed, Taken
    <3> QED BY <2>1, <3>1, MovesAgree
  <2>2. CASE step2 = "away" /\ UNCHANGED <<sensor2, uiLightCmd>>
    BY <2>2 DEF sensor2
  <2> QED BY <2>1, <2>2, VisitMoves2
<1> HIDE DEF before2, after2
<1>4. Done2 <=> before2 # 0 /\ after2 = 0
  BY SameOffers DEF Done2, before2, after2
<1>5. S2!Offer = before2
  BY SameOffers DEF before2
<1>6. CASE step2 = "execute" /\ SwitchLight("ir")
  <2>1. settings'.light = IF uiLightCmd = 0 THEN settings.light ELSE uiLightCmd - 1
    BY <1>1, <1>6, SwitchSwitches
  <2> QED BY <1>2, <1>3, <1>4, <1>5, <1>6, <2>1
<1>7. CASE step2 # "execute" /\ settings' = settings
  BY <1>2, <1>3, <1>4, <1>7
<1>8. CASE step2 = "addressed" /\ SwitchLight("ir") /\ Fault("broken")
  <2>1. settings'.light = IF uiLightCmd = 0 THEN settings.light ELSE uiLightCmd - 1
    BY <1>1, <1>8, SwitchSwitches
  <2>2. faults' # faults
    BY <1>1, <1>8 DEF Fault
  <2> QED BY <1>2, <1>3, <1>4, <1>8, <2>1, <2>2 DEF Repeated
<1> QED BY <1>6, <1>7, <1>8, VisitSwitches

(* The formula of SwitchedByOrder. *)
Ordered ==
  ~Down /\ pc' # "boot" =>
    /\ Done1 => settings'.light = S1!Offer - 1
    /\ Done2 => settings'.light = S2!Offer - 1
    /\ settings'.light # settings.light =>
         \/ Done1 \/ Done2 \/ Repeated
         \/ (step = "execute" /\ Link!Command(got) \in {2, 3})

LEMMA PassOrdered ==
  ASSUME LampInv, Pass1 \/ Pass2, ~Down
  PROVE  ~Done1 /\ ~Done2 /\ settings' = settings
<1>1. CASE Pass1
  <2>1. PICK zone \in P!Zones :
          /\ dev1' = P!Pass(dev1, zone) /\ step1' = step1 /\ uiLightCmd' = uiLightCmd
          /\ UNCHANGED <<sensor2, store>> /\ away1 < MaxAway /\ away1' = away1 + 1
    BY <1>1, PassSteps, Zenon
  <2>2. OfferOf(dev1, step1, uiLightCmd) # 0 => OfferOf(dev1', step1', uiLightCmd') # 0
    <3>1. /\ Typed(dev1, step1, uiLightCmd, away1)
          /\ Agreed(dev1, step1, uiLightCmd, away1) /\ (Down \/ Taken(dev1, step1, uiLightCmd, away1))
      BY DEF LampInv, Sensor1Inv
    <3> QED BY <2>1, <3>1, PassAgrees
  <2> QED BY <2>1, <2>2, SameOffers DEF Done1, Done2, sensor2, store
<1>2. CASE Pass2
  <2>1. PICK zone \in P!Zones :
          /\ dev2' = P!Pass(dev2, zone) /\ step2' = step2 /\ uiLightCmd' = uiLightCmd
          /\ UNCHANGED <<sensor1, store>> /\ away2 < MaxAway /\ away2' = away2 + 1
    BY <1>2, PassSteps, Zenon
  <2>2. OfferOf(dev2, step2, uiLightCmd) # 0 => OfferOf(dev2', step2', uiLightCmd') # 0
    <3>1. /\ Typed(dev2, step2, uiLightCmd, away2)
          /\ Agreed(dev2, step2, uiLightCmd, away2) /\ (Down \/ Taken(dev2, step2, uiLightCmd, away2))
      BY DEF LampInv, Sensor2Inv
    <3> QED BY <2>1, <3>1, PassAgrees
  <2> QED BY <2>1, <2>2, SameOffers DEF Done1, Done2, sensor1, store
<1> QED BY <1>1, <1>2

LEMMA KeyOrdered ==
  ASSUME LampInv, ReadIr
  PROVE  settings'.light # settings.light => step = "execute" /\ Link!Command(got) \in {2, 3}
<1>1. CASE Link!Execute /\ ObeyKey
  <2>1. step = "execute" /\ settings' = Obey(Link!Command(got), settings)
    BY <1>1 DEF Link!Execute, ObeyKey, Change
  <2>2. Link!Command(got) \in Int
    <3>1. got[1] \in 0 .. 255 /\ got[2] \in 0 .. 255
      BY DEF LampInv, Link!TypeOK, Link!Frames
    <3>2. \A x, y \in 0 .. 255 : 256 * x + y \in Int
      OBVIOUS
    <3> QED BY <3>1, <3>2, Zenon DEF Link!Command
  <2>3. settings \in Settings
    BY DEF LampInv, StoreTyped
  <2> QED BY <2>1, <2>2, <2>3, ObeySwitches
<1>2. CASE settings' = settings
  BY <1>2
<1>3. \/ Link!Execute /\ ObeyKey
      \/ settings' = settings
  BY DEF ReadIr, ReadIrByte, Stays, Fails, store
<1> QED BY <1>1, <1>2, <1>3

LEMMA StepOrdered == LampInv /\ [Next]_vars => [Ordered]_vars
<1> SUFFICES ASSUME LampInv, Next, ~Down, pc' # "boot" PROVE Ordered
  BY DEF Ordered
<1>1. CASE Pass1 \/ Pass2
  BY <1>1, PassOrdered DEF Ordered
<1>2. CASE ReadDistance1
  BY <1>2, Visit1Ordered DEF Ordered
<1>3. CASE ReadDistance2
  BY <1>3, Visit2Ordered DEF Ordered
<1>4. UNCHANGED <<sensor1, sensor2, uiLightCmd>> => ~Done1 /\ ~Done2
  BY SameOffers DEF Done1, Done2, sensor1, sensor2
<1>5. CASE ReadIr
  BY <1>4, <1>5, OtherSteps, KeyOrdered DEF Ordered
<1>6. CASE LoopStart \/ Save \/ LoopEnd \/ Receiver
  <2>1. settings' = settings
    BY <1>6 DEF LoopStart, Save, LoopEnd, Receiver, store
  <2> QED BY <1>4, <1>6, <2>1, OtherSteps DEF Ordered
<1>7. ~(Boot \/ BootFails \/ Watchdog \/ Reset)
  BY DEF Boot, BootFails, Watchdog, Reset, Restart, At, Down
<1> QED BY <1>1, <1>2, <1>3, <1>5, <1>6, <1>7 DEF Next, Controller

(* While the controller runs, the light is switched by the commands of
   gestures, each to what it says, by the keys for on and off, and by nothing
   else but a visit that breaks: for two sensors that share the controller's
   copy of a command, any pace, any faults and any restarts. *)
THEOREM SwitchesAsOrdered == Spec => SwitchedByOrder
<1>1. LampInv /\ [Next]_vars =>
        [ ~Down /\ pc' # "boot" =>
            /\ Done1 => settings'.light = S1!Offer - 1
            /\ Done2 => settings'.light = S2!Offer - 1
            /\ settings'.light # settings.light =>
                 \/ Done1 \/ Done2 \/ Repeated
                 \/ (step = "execute" /\ Link!Command(got) \in {2, 3}) ]_vars
  BY StepOrdered DEF Ordered
<1> QED BY <1>1, LampInitially, LampStep, PTL DEF Spec, SwitchedByOrder

-----------------------------------------------------------------------------
(* What makes exactly one execution of every command: the controller's copy
   is the sensor's, and the gesture made since a command was raised has not
   come further than the controller's stays away allow. *)
Paced(d, s, u, a) ==
  /\ Typed(d, s, u, a) /\ Agreed(d, s, u, a) /\ Taken(d, s, u, a)
  /\ s \in {"temp", "ack"} /\ u # 0 => d.cmd = u
  /\ d.cmd # 0 /\ d.mark = 0 =>
       IF s \in {"temp", "execute"} /\ u = 0 THEN P!Progress(d) + 1 <= a
       ELSE P!Progress(d) + 1 <= MaxAway + a
  /\ d.mark = 170 => P!Progress(d) + 1 <= 2 * MaxAway

\* A step of LightChannel, or none.
ChannelStep(w, o, e, w2, o2, e2) ==
  \/ w2 = w /\ o2 = o /\ e2 = e
  \/ w = 0 /\ w2 \in {1, 2} /\ o = 0 /\ o2 = o /\ e2 = e
  \/ w # 0 /\ w2 = 0 /\ o2 = o /\ e2 = e
  \/ w # 0 /\ o = 0 /\ o2 = w /\ w2 = 0 /\ e2 = e
  \/ o # 0 /\ o2 = 0 /\ e2 = 1 - e /\ w2 = w

LEMMA SameRipe ==
  ASSUME NEW d
  PROVE  S1!Ripe(d) = P!Ripe(d) /\ S2!Ripe(d) = P!Ripe(d)
BY DEF S1!Ripe, S2!Ripe, P!Ripe, S1!LightOff, S2!LightOff, P!LightOff, S1!LightOn, S2!LightOn, P!LightOn

\* A gesture that is complete has outlasted the controller's stays away.
LEMMA PacedFree ==
  ASSUME NEW d, NEW s, NEW u, NEW a, Paced(d, s, u, a), P!Ripe(d) # 0
  PROVE  OfferOf(d, s, u) = 0 /\ d.mark = 0
<1>1. TimeoutLimit \in Nat \ {0} /\ MaxAway \in Nat \ {0} /\ 2 * MaxAway <= TimeoutLimit + 3
  BY LinkAssumption
<1>2. /\ d \in P!Sensors /\ d.mark \in {0, 170} /\ d.cmd \in 0 .. 2 /\ a \in 0 .. MaxAway
  BY SameSensors DEF Paced, Typed, P!Sensors
<1>3. P!Progress(d) = TimeoutLimit + 3
  BY <1>1, <1>2, P!WaveProgress
<1>4. d.mark = 0
  BY <1>1, <1>2, <1>3 DEF Paced
<1>5. d.cmd = 0
  BY <1>1, <1>2, <1>3, <1>4 DEF Paced
<1>6. ~(s \in {"temp", "ack", "execute"} /\ u # 0)
  BY <1>1, <1>2, <1>3, <1>4, <1>5 DEF Paced, Agreed
<1> QED BY <1>4, <1>5, <1>6 DEF OfferOf

Whole(s, s2) == ~(s = "addressed" /\ s2 = "away")
Executes(s, u) == s = "execute" /\ u # 0

LEMMA MovesPaced ==
  ASSUME NEW d, NEW s, NEW u, NEW a, NEW d2, NEW s2, NEW u2, NEW a2,
         Paced(d, s, u, a), Moves(d, s, u, a, d2, s2, u2, a2), Whole(s, s2)
  PROVE  /\ Paced(d2, s2, u2, a2) /\ P!Ripe(d2) = P!Ripe(d)
         /\ Executes(s, u) => OfferOf(d, s, u) # 0 /\ OfferOf(d2, s2, u2) = 0
         /\ ~Executes(s, u) => OfferOf(d2, s2, u2) = OfferOf(d, s, u)
<1>1. /\ d \in P!Sensors /\ d.cmd \in 0 .. 2 /\ d.mark \in {0, 170} /\ a \in Nat /\ MaxAway \in Nat
      /\ d.tx.cmd = d.cmd /\ u \in 0 .. 2 /\ a <= MaxAway /\ P!Progress(d) \in Nat
  BY SameSensors, LinkAssumption, P!ProgressType DEF Paced, Typed, Agreed, P!Sensors
<1>2. Typed(d2, s2, u2, a2) /\ Agreed(d2, s2, u2, a2) /\ Taken(d2, s2, u2, a2)
  BY MovesAgree DEF Paced
<1>3. CASE s = "ack" /\ d2 = [d EXCEPT !.mark = 170] /\ s2 = "execute" /\ u2 = u /\ a2 = a
  <2>1. /\ d2 \in P!Sensors /\ d2.mark = 170 /\ d2.cmd = d.cmd /\ d2.tx = d.tx
        /\ d2.state = d.state /\ d2.count = d.count
    BY <1>1, <1>3, SameSensors DEF P!Sensors
  <2>2. P!Progress(d2) = P!Progress(d) /\ P!Ripe(d2) = P!Ripe(d)
    BY <2>1 DEF P!Progress, P!Ripe
  <2>3. u # 0 /\ d.mark = 0 /\ d.cmd # 0
    BY <1>3 DEF Paced, Agreed
  <2>4. P!Progress(d2) + 1 <= 2 * MaxAway
    BY <1>1, <1>3, <2>2, <2>3 DEF Paced
  <2> QED BY <1>1, <1>2, <1>3, <2>1, <2>2, <2>3, <2>4 DEF Paced, OfferOf, Executes
<1>4. CASE s = "away" /\ a >= 1 /\ s2 = "addressed" /\ d2 = d /\ u2 = u /\ a2 = a
  BY <1>1, <1>2, <1>4 DEF Paced, OfferOf, Executes
<1>5. CASE s = "addressed" /\ u2 = d.tx.cmd /\ s2 = "temp" /\ d2 = d /\ a2 = a
  BY <1>1, <1>2, <1>5 DEF Paced, Taken, OfferOf, Executes
<1>6. CASE s = "temp" /\ s2 = (IF u > 0 THEN "ack" ELSE "execute") /\ d2 = d /\ u2 = u /\ a2 = a
  BY <1>1, <1>2, <1>6 DEF Paced, OfferOf, Executes
<1>7. CASE s = "ack" /\ s2 = "away" /\ d2 = d /\ u2 = u /\ a2 = a
  BY <1>1, <1>2, <1>7 DEF Paced, Agreed, OfferOf, Executes
<1>8. CASE s = "execute" /\ s2 = "away" /\ a2 = 0 /\ d2 = d /\ u2 = u
  BY <1>1, <1>2, <1>8 DEF Paced, Agreed, OfferOf, Executes
<1> QED BY <1>3, <1>4, <1>5, <1>6, <1>7, <1>8 DEF Moves, Whole

LEMMA PassPaced ==
  ASSUME NEW d, NEW s, NEW u, NEW a, NEW zone \in P!Zones,
         Paced(d, s, u, a), a < MaxAway
  PROVE  /\ Paced(P!Pass(d, zone), s, u, a + 1)
         /\ \A e : ChannelStep(P!Ripe(d), OfferOf(d, s, u), e,
                              P!Ripe(P!Pass(d, zone)), OfferOf(P!Pass(d, zone), s, u), e)
<1> DEFINE p == P!Pass(d, zone)
<1>1. TimeoutLimit \in Nat \ {0} /\ MaxAway \in Nat \ {0} /\ 2 * MaxAway <= TimeoutLimit + 3
  BY LinkAssumption
<1>2. /\ d \in P!Sensors /\ d.mark \in {0, 170} /\ d.cmd \in 0 .. 2 /\ a \in 0 .. MaxAway
      /\ u \in 0 .. 2
  BY SameSensors DEF Paced, Typed, P!Sensors
<1>3. /\ p \in P!Sensors /\ p.mark = 0 /\ p.tx.cmd = p.cmd
      /\ d.mark = 170 => p.cmd = 0 /\ P!Progress(p) = 0
      /\ P!Progress(p) <= P!Progress(d) + 1
      /\ d.mark = 0 => \/ p.cmd = d.cmd
                       \/ P!Progress(d) >= TimeoutLimit + 3 /\ p.cmd \in {1, 2} /\ P!Progress(p) = 0
  <2>1. /\ p \in P!Sensors /\ p.tx.cmd = p.cmd /\ p.mark = 0
        /\ P!Progress(p) <= P!Progress(d) + 1
        /\ d.mark = P!Acked => p.cmd = 0 /\ P!Progress(p) = 0
        /\ d.mark = 0 => \/ p.cmd = d.cmd
                         \/ /\ P!Progress(d) >= TimeoutLimit + 3
                            /\ p.cmd \in {P!LightOff, P!LightOn} /\ P!Progress(p) = 0
    BY <1>1, <1>2, P!PassEffect
  <2> HIDE DEF p
  <2>2. P!LightOff = 1 /\ P!LightOn = 2
    BY DEF P!LightOff, P!LightOn
  <2> QED BY <2>1, <2>2, SameSensors
<1>4. P!Progress(d) \in Nat /\ P!Progress(p) \in Nat
  BY <1>1, <1>2, <1>3, P!ProgressType
<1>5. Typed(p, s, u, a + 1) /\ Agreed(p, s, u, a + 1) /\ Taken(p, s, u, a + 1)
  <2>1. a < MaxAway /\ a + 1 = a + 1
    BY <1>2
  <2> QED BY <2>1, PassAgrees DEF Paced
<1> HIDE DEF p
<1>6. d.mark = 0 /\ d.cmd # 0 => p.cmd = d.cmd
  BY <1>1, <1>2, <1>3, <1>4 DEF Paced
<1>7. d.mark = 0 => p.cmd = d.cmd \/ (d.cmd = 0 /\ p.cmd \in {1, 2} /\ P!Progress(p) = 0)
  BY <1>3, <1>6
<1>8. s \in {"temp", "ack"} /\ u # 0 => p.cmd = u
  BY <1>6 DEF Paced, Agreed
<1>9. p.cmd # 0 =>
       IF s \in {"temp", "execute"} /\ u = 0 THEN P!Progress(p) + 1 <= a + 1
       ELSE P!Progress(p) + 1 <= MaxAway + (a + 1)
  BY <1>1, <1>2, <1>3, <1>4, <1>7 DEF Paced
<1>10. Paced(p, s, u, a + 1)
  BY <1>3, <1>5, <1>8, <1>9 DEF Paced
<1>11. /\ d.mark = 170 => P!Ripe(p) = 0
       /\ d.mark = 0 => \/ p.cmd = d.cmd /\ (P!Ripe(d) = 0 \/ P!Ripe(p) = 0)
                        \/ P!Ripe(d) # 0 /\ p.cmd = P!Ripe(d) /\ P!Ripe(p) = 0
       /\ P!Ripe(d) \in {0, 1, 2} /\ P!Ripe(p) \in {0, 1, 2}
  BY <1>1, <1>2, SameSensors, P!PassWave, P!WaveIs DEF p
<1>12. /\ P!Ripe(d) # 0 => OfferOf(d, s, u) = 0 /\ d.mark = 0
       /\ P!Ripe(p) # 0 => OfferOf(p, s, u) = 0
  BY <1>10, PacedFree
<1>13. CASE s \in {"temp", "ack", "execute"} /\ u # 0
  <2>1. OfferOf(p, s, u) = u /\ OfferOf(d, s, u) = u
    BY <1>13 DEF OfferOf
  <2> QED BY <1>10, <1>11, <1>12, <1>13, <2>1 DEF ChannelStep, p
<1>14. CASE ~(s \in {"temp", "ack", "execute"} /\ u # 0)
  <2>1. OfferOf(p, s, u) = p.cmd /\ OfferOf(d, s, u) = IF d.mark = 170 THEN 0 ELSE d.cmd
    BY <1>3, <1>14 DEF OfferOf
  <2>2. \A e : ChannelStep(P!Ripe(d), OfferOf(d, s, u), e, P!Ripe(p), OfferOf(p, s, u), e)
    BY <1>2, <1>3, <1>11, <1>12, <2>1 DEF ChannelStep
  <2> QED BY <1>10, <2>2 DEF p
<1> QED BY <1>13, <1>14

-----------------------------------------------------------------------------
(* Nobody waves while the controller is down, every device answers but for
   silences, and these are too few to make the controller give up. *)
Undisturbed ==
  /\ HandDown = {"none"} /\ Dead = {} /\ Faults \subseteq {"silent"}
  /\ MaxFaults <= ErrorLimit

(* A visit that does not break executes what it has read. *)
LEMMA WholeVisit1 ==
  ASSUME Undisturbed, ReadDistance1
  PROVE  \/ /\ Moves(dev1, step1, uiLightCmd, away1, dev1', step1', uiLightCmd', away1')
            /\ Whole(step1, step1')
            /\ executed1' = IF Executes(step1, uiLightCmd) THEN 1 - executed1 ELSE executed1
         \/ step1 = "away" /\ UNCHANGED <<sensor1, uiLightCmd>>
<1>1. ~Fault("broken")
  BY DEF Undisturbed, Fault
<1>2. CASE S1!Address
  BY <1>2, Zenon DEF S1!Address, Moves, Whole, Executes
<1>3. CASE S1!ReadCmd
  BY <1>3, Zenon DEF S1!ReadCmd, Moves, Whole, Executes
<1>4. CASE S1!Acknowledge
  BY <1>4, SameSensors, Zenon DEF S1!Acknowledge, Moves, Whole, Executes
<1>5. CASE S1!ReadTemp
  BY <1>5, Zenon DEF S1!ReadTemp, Moves, Whole, Executes
<1>6. CASE S1!Execute
  BY <1>6, Zenon DEF S1!Execute, Moves, Whole, Executes
<1>7. CASE S1!NotAcknowledged
  BY <1>7, Zenon DEF S1!NotAcknowledged, Moves, Whole, Executes
<1>8. CASE step1 = "away" /\ UNCHANGED <<sensor1, uiLightCmd>>
  BY <1>8
<1> QED BY <1>1, <1>2, <1>3, <1>4, <1>5, <1>6, <1>7, <1>8 DEF ReadDistance1

LEMMA WholeVisit2 ==
  ASSUME Undisturbed, ReadDistance2
  PROVE  \/ /\ Moves(dev2, step2, uiLightCmd, away2, dev2', step2', uiLightCmd', away2')
            /\ Whole(step2, step2')
            /\ executed2' = IF Executes(step2, uiLightCmd) THEN 1 - executed2 ELSE executed2
         \/ step2 = "away" /\ UNCHANGED <<sensor2, uiLightCmd>>
<1>1. ~Fault("broken")
  BY DEF Undisturbed, Fault
<1>2. CASE S2!Address
  BY <1>2, Zenon DEF S2!Address, Moves, Whole, Executes
<1>3. CASE S2!ReadCmd
  BY <1>3, Zenon DEF S2!ReadCmd, Moves, Whole, Executes
<1>4. CASE S2!Acknowledge
  BY <1>4, SameSensors, Zenon DEF S2!Acknowledge, Moves, Whole, Executes
<1>5. CASE S2!ReadTemp
  BY <1>5, Zenon DEF S2!ReadTemp, Moves, Whole, Executes
<1>6. CASE S2!Execute
  BY <1>6, Zenon DEF S2!Execute, Moves, Whole, Executes
<1>7. CASE S2!NotAcknowledged
  BY <1>7, Zenon DEF S2!NotAcknowledged, Moves, Whole, Executes
<1>8. CASE step2 = "away" /\ UNCHANGED <<sensor2, uiLightCmd>>
  BY <1>8
<1> QED BY <1>1, <1>2, <1>3, <1>4, <1>5, <1>6, <1>7, <1>8 DEF ReadDistance2

(* Until the controller has started nothing moves in front of the sensors. *)
Resting(d) == d \in P!Sensors /\ d.state = "IDLE" /\ d.cmd = 0 /\ d.mark = 0 /\ d.tx.cmd = 0

LEMMA RestingPass == ASSUME NEW d, Resting(d) PROVE Resting(P!Pass(d, "none"))
<1> DEFINE p == P!Pass(d, "none")
<1>1. TimeoutLimit \in Nat \ {0} /\ "none" \in P!Zones /\ d \in P!Sensors
  BY LinkAssumption, SameSensors DEF Resting
<1>2. p \in P!Sensors /\ p.mark = 0 /\ p.tx.cmd = p.cmd
  BY <1>1, P!PassEffect
<1>3. /\ d.mark = 0 =>
           \/ "none" = "far" /\ p.state = P!FarFrom[d.state] /\ p.cmd = d.cmd
           \/ "none" = "near" /\ p.state = P!NearFrom[d.state] /\ p.cmd = d.cmd
           \/ /\ "none" = "none" /\ d.count < TimeoutLimit
              /\ p.state = d.state /\ p.cmd = d.cmd
           \/ /\ "none" = "none" /\ d.count = TimeoutLimit
              /\ p.state = "IDLE"
              /\ p.cmd = CASE d.state = "Step3Far" -> P!LightOff
                           [] d.state = "Step3Near" -> P!LightOn
                           [] OTHER -> d.cmd
  BY <1>1, P!PassState
<1> HIDE DEF p
<1>4. p.state = "IDLE" /\ p.cmd = 0
  BY <1>3 DEF Resting
<1> QED BY <1>2, <1>4 DEF Resting, p

LEMMA RestingRipe == ASSUME NEW d, Resting(d) PROVE P!Ripe(d) = 0
<1>1. TimeoutLimit \in Nat \ {0} /\ d.state = "IDLE"
  BY LinkAssumption DEF Resting
<1> QED BY <1>1, P!WaveIs

LEMMA RestingPaced ==
  ASSUME NEW d, NEW u \in 0 .. 2, NEW a \in 0 .. MaxAway, Resting(d)
  PROVE  Paced(d, "away", u, a) /\ OfferOf(d, "away", u) = 0
BY DEF Resting, Paced, Typed, Agreed, Taken, Visits, OfferOf

\* A sensor that is not visited does not mind what uiLightCmd is.
LEMMA AwayPaced ==
  ASSUME NEW d, NEW u, NEW a, NEW u2 \in 0 .. 2, Paced(d, "away", u, a)
  PROVE  Paced(d, "away", u2, a) /\ OfferOf(d, "away", u2) = OfferOf(d, "away", u)
BY DEF Paced, Typed, Agreed, Taken, OfferOf

(* Each bad loop is a fault, so that there are too few for giving up. *)
LEMMA SilencesAreFaults ==
  ASSUME Undisturbed, ControlInv, silences <= faults, [Next]_vars
  PROVE  silences' <= faults' /\ faults' <= MaxFaults
<1>1. silences \in Nat /\ faults \in Nat /\ MaxFaults \in Nat /\ faults <= MaxFaults
  BY FaultAssumption DEF ControlInv
<1>2. \A kind : Fault(kind) => faults' = faults + 1 /\ faults' <= MaxFaults
  BY <1>1 DEF Fault
<1>3. \A device : Answers(device) => faults' = faults
  BY DEF Answers
<1>4. \A device : Silent(device) => faults' = faults + 1 /\ faults' <= MaxFaults
  BY <1>2 DEF Silent, Undisturbed
<1>5. \A next : Fails(next) => silences' \in Nat /\ silences' <= silences + 1
  BY <1>1 DEF Fails
<1>6. (\A next : SwitchLight(next) => silences' = silences) /\ (ObeyKey => silences' = silences)
      /\ (\A next : Goes(next) => silences' = silences) /\ (Stays => silences' = silences)
      /\ (\A dev : TempLight(dev) => silences' = silences) /\ (ReadIrByte => silences' = silences)
  BY DEF SwitchLight, ObeyKey, Goes, Stays, TempLight, ReadIrByte
<1>7. CASE ReadDistance1
  <2>1. \/ silences' = silences /\ (faults' = faults \/ \E kind : Fault(kind))
        \/ Fails("sensor2") /\ (Fault("silent") \/ Silent("sensor1"))
    BY <1>3, <1>6, <1>7, Zenon DEF ReadDistance1
  <2> QED BY <1>1, <1>2, <1>4, <1>5, <2>1
<1>8. CASE ReadDistance2
  <2>1. \/ silences' = silences /\ (faults' = faults \/ \E kind : Fault(kind))
        \/ Fails("ir") /\ (Fault("silent") \/ Silent("sensor2"))
    BY <1>3, <1>6, <1>8, Zenon DEF ReadDistance2
  <2> QED BY <1>1, <1>2, <1>4, <1>5, <2>1
<1>9. CASE ReadIr
  <2>1. \/ silences' = silences /\ (faults' = faults \/ \E kind : Fault(kind))
        \/ Fails("show") /\ (Fault("silent") \/ Silent("ir"))
    BY <1>3, <1>6, <1>9, Zenon DEF ReadIr
  <2> QED BY <1>1, <1>2, <1>4, <1>5, <2>1
<1>10. CASE Pass1 \/ Pass2 \/ Receiver
  BY <1>1, <1>10 DEF Pass1, Pass2, Receiver
<1>11. CASE LoopStart \/ LoopEnd
  BY <1>1, <1>11 DEF LoopStart, LoopEnd
<1>12. CASE Save
  BY <1>1, <1>2, <1>12 DEF Save
<1>13. CASE Boot \/ BootFails \/ Watchdog \/ Reset
  <2>1. (silences' = silences \/ silences' = 0) /\ (faults' = faults \/ \E kind : Fault(kind))
    BY <1>13 DEF Boot, BootFails, Watchdog, Reset, Restart, Locals
  <2> QED BY <1>1, <1>2, <2>1
<1>14. CASE UNCHANGED vars
  BY <1>1, <1>14 DEF vars
<1> QED BY <1>7, <1>8, <1>9, <1>10, <1>11, <1>12, <1>13, <1>14 DEF Next, Controller

OnceInv ==
  /\ LampInv /\ CountInv /\ silences <= faults /\ faults <= MaxFaults
  /\ pc \notin {"blink", "noclock"}
  /\ IF pc = "boot" THEN Resting(dev1) /\ Resting(dev2)
     ELSE Paced(dev1, step1, uiLightCmd, away1) /\ Paced(dev2, step2, uiLightCmd, away2)

Channelled ==
  /\ ChannelStep(P!Ripe(dev1), S1!Offer, executed1, P!Ripe(dev1'), (S1!Offer)', executed1')
  /\ ChannelStep(P!Ripe(dev2), S2!Offer, executed2, P!Ripe(dev2'), (S2!Offer)', executed2')

LEMMA OnceInitially == Undisturbed /\ Init => OnceInv
<1> SUFFICES ASSUME Undisturbed, Init PROVE OnceInv
  OBVIOUS
<1>1. LampInv /\ CountInv
  BY LampInitially, CountInitially
<1>2. Resting(P!Powered)
  <2>1. P!Powered \in P!Sensors
    BY LinkAssumption, SameSensors DEF P!Powered, P!Sensors, P!States, P!Published
  <2> QED BY <2>1 DEF P!Powered, Resting
<1>3. dev1 = P!Powered /\ dev2 = P!Powered /\ pc = "boot" /\ silences = 0 /\ faults = 0
  BY SameSensors DEF Init, S1!Init, S2!Init
<1>4. MaxFaults \in Nat
  BY FaultAssumption
<1> QED BY <1>1, <1>2, <1>3, <1>4 DEF OnceInv

(* The passes of the sensors, before and after the controller has started. *)
LEMMA PassOnce1 ==
  ASSUME Undisturbed, OnceInv, Pass1
  PROVE  IF pc = "boot" THEN Resting(dev1') /\ ChannelStep(P!Ripe(dev1), S1!Offer, executed1, P!Ripe(dev1'), (S1!Offer)', executed1')
         ELSE /\ Paced(dev1', step1', uiLightCmd', away1')
              /\ ChannelStep(P!Ripe(dev1), S1!Offer, executed1, P!Ripe(dev1'), (S1!Offer)', executed1')
<1>1. CASE ~Down
  <2>1. PICK zone \in P!Zones :
          /\ dev1' = P!Pass(dev1, zone) /\ step1' = step1 /\ executed1' = executed1
          /\ uiLightCmd' = uiLightCmd /\ away1 < MaxAway /\ away1' = away1 + 1
    BY <1>1, PassSteps, Zenon
  <2>2. pc # "boot" /\ Paced(dev1, step1, uiLightCmd, away1)
    BY <1>1 DEF OnceInv, Down
  <2>3. /\ Paced(P!Pass(dev1, zone), step1, uiLightCmd, away1 + 1)
        /\ ChannelStep(P!Ripe(dev1), OfferOf(dev1, step1, uiLightCmd), executed1,
                       P!Ripe(P!Pass(dev1, zone)), OfferOf(P!Pass(dev1, zone), step1, uiLightCmd), executed1)
    BY <2>1, <2>2, PassPaced
  <2> QED BY <2>1, <2>2, <2>3, SameOffers DEF ChannelStep
<1>2. CASE Down
  <2>1. pc = "boot" /\ step1 = "away"
    BY <1>2 DEF OnceInv, Down, LampInv, Sensor1Inv
  <2>2. dev1' = P!Pass(dev1, "none") /\ UNCHANGED <<step1, away1, executed1, uiLightCmd>>
    BY <1>2, SamePass DEF Pass1, Undisturbed
  <2>3. Resting(dev1) /\ Resting(dev1')
    BY <2>1, <2>2, RestingPass DEF OnceInv
  <2>4. OfferOf(dev1, step1, uiLightCmd) = 0 /\ OfferOf(dev1', step1', uiLightCmd') = 0
    BY <2>1, <2>2, <2>3 DEF Resting, OfferOf
  <2> QED BY <2>1, <2>2, <2>3, <2>4, SameOffers, RestingRipe DEF ChannelStep
<1> QED BY <1>1, <1>2

LEMMA PassOnce2 ==
  ASSUME Undisturbed, OnceInv, Pass2
  PROVE  IF pc = "boot" THEN Resting(dev2') /\ ChannelStep(P!Ripe(dev2), S2!Offer, executed2, P!Ripe(dev2'), (S2!Offer)', executed2')
         ELSE /\ Paced(dev2', step2', uiLightCmd', away2')
              /\ ChannelStep(P!Ripe(dev2), S2!Offer, executed2, P!Ripe(dev2'), (S2!Offer)', executed2')
<1>1. CASE ~Down
  <2>1. PICK zone \in P!Zones :
          /\ dev2' = P!Pass(dev2, zone) /\ step2' = step2 /\ executed2' = executed2
          /\ uiLightCmd' = uiLightCmd /\ away2 < MaxAway /\ away2' = away2 + 1
    BY <1>1, PassSteps, Zenon
  <2>2. pc # "boot" /\ Paced(dev2, step2, uiLightCmd, away2)
    BY <1>1 DEF OnceInv, Down
  <2>3. /\ Paced(P!Pass(dev2, zone), step2, uiLightCmd, away2 + 1)
        /\ ChannelStep(P!Ripe(dev2), OfferOf(dev2, step2, uiLightCmd), executed2,
                       P!Ripe(P!Pass(dev2, zone)), OfferOf(P!Pass(dev2, zone), step2, uiLightCmd), executed2)
    BY <2>1, <2>2, PassPaced
  <2> QED BY <2>1, <2>2, <2>3, SameOffers DEF ChannelStep
<1>2. CASE Down
  <2>1. pc = "boot" /\ step2 = "away"
    BY <1>2 DEF OnceInv, Down, LampInv, Sensor2Inv
  <2>2. dev2' = P!Pass(dev2, "none") /\ UNCHANGED <<step2, away2, executed2, uiLightCmd>>
    BY <1>2, SamePass DEF Pass2, Undisturbed
  <2>3. Resting(dev2) /\ Resting(dev2')
    BY <2>1, <2>2, RestingPass DEF OnceInv
  <2>4. OfferOf(dev2, step2, uiLightCmd) = 0 /\ OfferOf(dev2', step2', uiLightCmd') = 0
    BY <2>1, <2>2, <2>3 DEF Resting, OfferOf
  <2> QED BY <2>1, <2>2, <2>3, <2>4, SameOffers, RestingRipe DEF ChannelStep
<1> QED BY <1>1, <1>2

(* A visit to one sensor, seen by both. *)
LEMMA VisitOnce1 ==
  ASSUME Undisturbed, OnceInv, ReadDistance1
  PROVE  /\ Paced(dev1', step1', uiLightCmd', away1') /\ Paced(dev2', step2', uiLightCmd', away2')
         /\ Channelled /\ pc' \in {"sensor1", "sensor2"}
<1>1. /\ pc = "sensor1" /\ pc' \in {"sensor1", "sensor2"} /\ UNCHANGED sensor2 /\ step2 = "away"
      /\ uiLightCmd' \in 0 .. 2 /\ executed1 \in {0, 1}
  <2>1. pc = "sensor1" /\ pc' \in {"sensor1", "sensor2"} /\ UNCHANGED sensor2
    BY VisitMoves1
  <2>2. [Next]_vars
    BY DEF Next, Controller
  <2>3. uiLightCmd' \in 0 .. 2
    BY <2>2, SensorsStep DEF OnceInv, LampInv, Sensor1Inv, Typed
  <2> QED BY <2>1, <2>3 DEF OnceInv, LampInv, Sensor1Inv, Sensor2Inv
<1>2. Paced(dev1, step1, uiLightCmd, away1) /\ Paced(dev2, step2, uiLightCmd, away2)
  BY <1>1 DEF OnceInv
<1>3. Paced(dev2', step2', uiLightCmd', away2') /\ OfferOf(dev2', step2', uiLightCmd') = OfferOf(dev2, step2, uiLightCmd)
  BY <1>1, <1>2, AwayPaced DEF sensor2
<1>4. CASE /\ Moves(dev1, step1, uiLightCmd, away1, dev1', step1', uiLightCmd', away1')
           /\ Whole(step1, step1')
           /\ executed1' = IF Executes(step1, uiLightCmd) THEN 1 - executed1 ELSE executed1
  <2>1. /\ Paced(dev1', step1', uiLightCmd', away1') /\ P!Ripe(dev1') = P!Ripe(dev1)
        /\ Executes(step1, uiLightCmd) => OfferOf(dev1, step1, uiLightCmd) # 0 /\ OfferOf(dev1', step1', uiLightCmd') = 0
        /\ ~Executes(step1, uiLightCmd) => OfferOf(dev1', step1', uiLightCmd') = OfferOf(dev1, step1, uiLightCmd)
    BY <1>2, <1>4, MovesPaced
  <2> QED BY <1>1, <1>3, <1>4, <2>1, SameOffers DEF Channelled, ChannelStep, sensor2
<1>5. CASE step1 = "away" /\ UNCHANGED <<sensor1, uiLightCmd>>
  BY <1>1, <1>2, <1>3, <1>5, SameOffers DEF Channelled, ChannelStep, sensor1, sensor2
<1> QED BY <1>4, <1>5, WholeVisit1

LEMMA VisitOnce2 ==
  ASSUME Undisturbed, OnceInv, ReadDistance2
  PROVE  /\ Paced(dev1', step1', uiLightCmd', away1') /\ Paced(dev2', step2', uiLightCmd', away2')
         /\ Channelled /\ pc' \in {"sensor2", "ir"}
<1>1. /\ pc = "sensor2" /\ pc' \in {"sensor2", "ir"} /\ UNCHANGED sensor1 /\ step1 = "away"
      /\ uiLightCmd' \in 0 .. 2 /\ executed2 \in {0, 1}
  <2>1. pc = "sensor2" /\ pc' \in {"sensor2", "ir"} /\ UNCHANGED sensor1
    BY VisitMoves2
  <2>2. [Next]_vars
    BY DEF Next, Controller
  <2>3. uiLightCmd' \in 0 .. 2
    BY <2>2, SensorsStep DEF OnceInv, LampInv, Sensor2Inv, Typed
  <2> QED BY <2>1, <2>3 DEF OnceInv, LampInv, Sensor1Inv, Sensor2Inv
<1>2. Paced(dev1, step1, uiLightCmd, away1) /\ Paced(dev2, step2, uiLightCmd, away2)
  BY <1>1 DEF OnceInv
<1>3. Paced(dev1', step1', uiLightCmd', away1') /\ OfferOf(dev1', step1', uiLightCmd') = OfferOf(dev1, step1, uiLightCmd)
  BY <1>1, <1>2, AwayPaced DEF sensor1
<1>4. CASE /\ Moves(dev2, step2, uiLightCmd, away2, dev2', step2', uiLightCmd', away2')
           /\ Whole(step2, step2')
           /\ executed2' = IF Executes(step2, uiLightCmd) THEN 1 - executed2 ELSE executed2
  <2>1. /\ Paced(dev2', step2', uiLightCmd', away2') /\ P!Ripe(dev2') = P!Ripe(dev2)
        /\ Executes(step2, uiLightCmd) => OfferOf(dev2, step2, uiLightCmd) # 0 /\ OfferOf(dev2', step2', uiLightCmd') = 0
        /\ ~Executes(step2, uiLightCmd) => OfferOf(dev2', step2', uiLightCmd') = OfferOf(dev2, step2, uiLightCmd)
    BY <1>2, <1>4, MovesPaced
  <2> QED BY <1>1, <1>3, <1>4, <2>1, SameOffers DEF Channelled, ChannelStep, sensor1
<1>5. CASE step2 = "away" /\ UNCHANGED <<sensor2, uiLightCmd>>
  BY <1>1, <1>2, <1>3, <1>5, SameOffers DEF Channelled, ChannelStep, sensor1, sensor2
<1> QED BY <1>4, <1>5, WholeVisit2

LEMMA OnceStep == Undisturbed /\ OnceInv /\ [Next]_vars => OnceInv' /\ Channelled
<1> SUFFICES ASSUME Undisturbed, OnceInv, [Next]_vars PROVE OnceInv' /\ Channelled
  OBVIOUS
<1>1. /\ LampInv' /\ CountInv' /\ silences' <= faults' /\ faults' <= MaxFaults
  BY LampStep, CountStep, SilencesAreFaults DEF OnceInv, LampInv
<1>2. pc' # "blink"
  BY <1>1, FaultAssumption DEF LampInv, ControlInv, CountInv, Undisturbed
<1>3. ~BootFails /\ ~Watchdog /\ ~Reset
  BY DEF BootFails, Watchdog, Reset, Fault, Undisturbed, OnceInv, Down
<1>4. SUFFICES /\ pc' # "noclock" /\ Channelled
               /\ IF pc' = "boot" THEN Resting(dev1') /\ Resting(dev2')
                  ELSE Paced(dev1', step1', uiLightCmd', away1') /\ Paced(dev2', step2', uiLightCmd', away2')
  BY <1>1, <1>2 DEF OnceInv
<1>5. CASE Pass1
  <2>1. pc' = pc /\ UNCHANGED sensor2 /\ uiLightCmd' = uiLightCmd
    BY <1>5, PassSteps, Zenon
  <2>2. (S2!Offer)' = S2!Offer
    BY <2>1, SameOffers DEF sensor2
  <2> QED BY <1>5, <2>1, <2>2, PassOnce1 DEF OnceInv, Channelled, ChannelStep, sensor2
<1>6. CASE Pass2
  <2>1. pc' = pc /\ UNCHANGED sensor1 /\ uiLightCmd' = uiLightCmd
    BY <1>6, PassSteps, Zenon
  <2>2. (S1!Offer)' = S1!Offer
    BY <2>1, SameOffers DEF sensor1
  <2> QED BY <1>6, <2>1, <2>2, PassOnce2 DEF OnceInv, Channelled, ChannelStep, sensor1
<1>7. CASE ReadDistance1
  BY <1>7, VisitOnce1
<1>8. CASE ReadDistance2
  BY <1>8, VisitOnce2
<1>9. CASE Boot
  <2>1. /\ pc = "boot" /\ pc' = "loop" /\ UNCHANGED <<sensor1, sensor2>> /\ uiLightCmd' = 0
        /\ step1 = "away" /\ step2 = "away" /\ away1 \in 0 .. MaxAway /\ away2 \in 0 .. MaxAway
    BY <1>9 DEF Boot, At, Locals, OnceInv, LampInv, Sensor1Inv, Sensor2Inv, Typed
  <2>2. /\ Resting(dev1) /\ Paced(dev1, "away", 0, away1) /\ OfferOf(dev1, "away", 0) = 0
        /\ Resting(dev2) /\ Paced(dev2, "away", 0, away2) /\ OfferOf(dev2, "away", 0) = 0
    BY <2>1, RestingPaced DEF OnceInv
  <2>3. OfferOf(dev1, "away", uiLightCmd) = 0 /\ OfferOf(dev2, "away", uiLightCmd) = 0
    BY <2>2 DEF Resting, OfferOf
  <2> QED BY <2>1, <2>2, <2>3, SameOffers DEF Channelled, ChannelStep, sensor1, sensor2
<1>10. CASE LoopStart \/ Save \/ LoopEnd \/ ReadIr \/ Receiver \/ UNCHANGED vars
  <2>1. UNCHANGED <<sensor1, sensor2, uiLightCmd>>
    BY <1>10, OtherSteps
  <2>2. pc' \notin {"noclock"} /\ (pc' = "boot" <=> pc = "boot")
    <3>1. LoopStart \/ LoopEnd => pc # "boot" /\ pc' \in {"sensor1", "blink", "loop"}
      BY DEF LoopStart, LoopEnd, At
    <3>2. Save \/ Receiver \/ UNCHANGED vars => pc' = pc
      BY DEF Save, Receiver, vars
    <3>3. ReadIr => pc = "ir" /\ pc' \in {"ir", "show"}
      BY DEF ReadIr, At, Stays, ReadIrByte, Goes, ObeyKey, Fails
    <3> QED BY <1>10, <3>1, <3>2, <3>3 DEF OnceInv
  <2> QED BY <2>1, <2>2, SameOffers DEF OnceInv, Channelled, ChannelStep, sensor1, sensor2
<1> QED BY <1>3, <1>5, <1>6, <1>7, <1>8, <1>9, <1>10 DEF Next, Controller

LEMMA RipeNow ==
  /\ S1!Ripe(dev1) = P!Ripe(dev1) /\ S1!Ripe(dev1)' = P!Ripe(dev1')
  /\ S2!Ripe(dev2) = P!Ripe(dev2) /\ S2!Ripe(dev2)' = P!Ripe(dev2')
BY DEF S1!Ripe, S2!Ripe, P!Ripe, S1!LightOff, S2!LightOff, P!LightOff, S1!LightOn, S2!LightOn, P!LightOn

(* The commands of the two sensors are executed exactly once each, for any
   timeout, pace, hands, keys and number of silences that does not make the
   controller give up. *)
THEOREM ExecutesOnce ==
  ASSUME Undisturbed
  PROVE  FaultsSpec => CommandsOnce
<1> DEFINE Now == case = "missed" => OnceInv
           Steps1 == [Channel1!Next]_<<In(S1!Ripe(dev1)), In(S1!Offer), In(executed1)>>
           Steps2 == [Channel2!Next]_<<In(S2!Ripe(dev2)), In(S2!Offer), In(executed2)>>
<1>1. FaultsInit => Now /\ Channel1!Init /\ Channel2!Init
  <2> SUFFICES ASSUME FaultsInit PROVE Now /\ Channel1!Init /\ Channel2!Init
    OBVIOUS
  <2>1. OnceInv
    BY OnceInitially DEF FaultsInit
  <2>2. /\ S1!Offer = 0 /\ S2!Offer = 0 /\ executed1 = 0 /\ executed2 = 0
        /\ S1!Ripe(dev1) = 0 /\ S2!Ripe(dev2) = 0
    <3>1. pc = "boot" /\ step1 = "away" /\ step2 = "away" /\ executed1 = 0 /\ executed2 = 0
      BY DEF FaultsInit, Init, S1!Init, S2!Init
    <3> QED BY <2>1, <3>1, SameOffers, SameRipe, RestingRipe DEF OnceInv, Resting, OfferOf
  <2> QED BY <2>1, <2>2 DEF Channel1!Init, Channel2!Init, In
<1>2. Now /\ [MCNext]_<<vars, case>> => Now' /\ Steps1 /\ Steps2
  <2> SUFFICES ASSUME Now, [MCNext]_<<vars, case>> PROVE Now' /\ Steps1 /\ Steps2
    OBVIOUS
  <2>1. case' = case
    BY DEF MCNext
  <2>2. CASE case = "missed"
    <3>1. [Next]_vars
      BY <2>2 DEF MCNext
    <3>2. OnceInv' /\ Channelled
      BY <2>2, <3>1, OnceStep
    <3>3. /\ In(S1!Offer) = S1!Offer /\ In(S1!Offer)' = (S1!Offer)' /\ In(executed1) = executed1 /\ In(executed1)' = executed1'
          /\ In(S2!Offer) = S2!Offer /\ In(S2!Offer)' = (S2!Offer)' /\ In(executed2) = executed2 /\ In(executed2)' = executed2'
      BY <2>1, <2>2 DEF In
    <3>4. /\ In(S1!Ripe(dev1)) = P!Ripe(dev1) /\ In(S1!Ripe(dev1))' = P!Ripe(dev1')
          /\ In(S2!Ripe(dev2)) = P!Ripe(dev2) /\ In(S2!Ripe(dev2))' = P!Ripe(dev2')
      BY <2>1, <2>2, RipeNow DEF In
    <3>5. Steps1
      BY <3>2, <3>3, <3>4 DEF Channelled, ChannelStep, Channel1!Next, Channel1!Gesture, Channel1!Raise, Channel1!Execute
    <3>6. Steps2
      BY <3>2, <3>3, <3>4 DEF Channelled, ChannelStep, Channel2!Next, Channel2!Gesture, Channel2!Raise, Channel2!Execute
    <3> QED BY <3>2, <3>5, <3>6
  <2>3. CASE case # "missed"
    <3>1. /\ In(S1!Offer)' = In(S1!Offer) /\ In(executed1)' = In(executed1)
          /\ In(S2!Offer)' = In(S2!Offer) /\ In(executed2)' = In(executed2)
          /\ In(S1!Ripe(dev1))' = In(S1!Ripe(dev1)) /\ In(S2!Ripe(dev2))' = In(S2!Ripe(dev2))
      BY <2>1, <2>3 DEF In
    <3> QED BY <2>1, <2>3, <3>1
  <2> QED BY <2>2, <2>3
<1> QED BY <1>1, <1>2, PTL DEF FaultsSpec, CommandsOnce, Channel1!Spec, Channel2!Spec, Channel1!vars, Channel2!vars
=============================================================================
