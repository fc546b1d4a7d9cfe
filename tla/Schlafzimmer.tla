---------------------------- MODULE Schlafzimmer ----------------------------
(***************************************************************************)
(* The bedroom lamp: main of Schlafzimmer/main.c with everything on its    *)
(* I2C bus.  The endless loop visits two distance sensors and the infrared *)
(* receiver, carries out what they ask for, saves it in the RAM of the     *)
(* clock, shows it, and counts the loops in which a device was silent;     *)
(* after too many in a row it waits for the watchdog.                      *)
(*                                                                         *)
(* The visits are the actions of SensorLink and IrLink.  A controller      *)
(* action is one I2C transaction part, so that the devices run and a reset *)
(* strikes between any two of them.                                        *)
(***************************************************************************)
EXTENDS LampSettings, Sequences

CONSTANTS TimeoutLimit, MaxAway, Hand1, Hand2,     \* see SensorLink
          HandDown,      \* where hands may be while the controller is down
          Keys, SleepVisits,                       \* see IrLink
          ErrorLimit,    \* 10 in the code
          Dead,          \* devices that never answer
          Faults,        \* what may happen besides, MaxFaults times
          MaxFaults

Devices == {"sensor1", "sensor2", "ir"}

ASSUME LinkAssumption ==
  /\ TimeoutLimit \in Nat \ {0} /\ MaxAway \in Nat \ {0}
  /\ 2 * MaxAway <= TimeoutLimit + 3
  /\ \A hand \in {Hand1, Hand2, HandDown} : hand \subseteq {"far", "near", "none"}
  /\ Keys \subseteq [1 .. 4 -> 0 .. 255] /\ <<0, 0, 0, 0>> \notin Keys
  /\ SleepVisits \in Nat \ {0}

ASSUME FaultAssumption ==
  /\ ErrorLimit \in Nat /\ MaxFaults \in Nat
  /\ Dead \subseteq Devices
  /\ Faults \subseteq {"silent", "broken", "sram", "reset"}

VARIABLES
  dev1, step1, away1, dev2, step2, away2,          \* the sensors and their visits
  ir, step, got, visits, began, served,            \* the receiver and its visits
  uiLightCmd, uiTempLight, settings, bHasError, uiErrorCount,
  pc,          \* the part of the program the controller is in
  queue,       \* the settings it has still to save, in this order
  sram,        \* the RAM of the clock
  lamp,
  \* history
  executed1, executed2,  \* see SensorLink
  faults,      \* how many faults have happened
  before,      \* what was kept when the last command came
  unsaved,     \* the cells whose last transfer to or from the clock failed
  silences     \* silent devices since the last loop without one

sensor1 == <<dev1, step1, away1, executed1>>
sensor2 == <<dev2, step2, away2, executed2>>
remote == <<ir, step, got, visits, began, served>>
flags == <<uiTempLight, bHasError, uiErrorCount>>
store == <<settings, queue, sram, before, unsaved>>
vars == <<sensor1, sensor2, remote, uiLightCmd, flags, store, pc, lamp, faults, silences>>

S1 == INSTANCE SensorLink WITH dev <- dev1, step <- step1, away <- away1,
                             executed <- executed1, Hand <- Hand1
S2 == INSTANCE SensorLink WITH dev <- dev2, step <- step2, away <- away2,
                             executed <- executed2, Hand <- Hand2
Link == INSTANCE IrLink

Places == {"boot", "loop", "sensor1", "sensor2", "ir", "show", "blink", "noclock"}

Kept(s) == [c \in Cells |-> s[c]]
Memories == [Cells -> 0 .. 255]

TypeOK ==
  /\ S1!TypeOK /\ S2!TypeOK /\ Link!TypeOK
  /\ settings \in Settings /\ Kept(settings) \in Memories /\ sram \in Memories
  /\ before \in Memories /\ unsaved \subseteq Cells
  /\ uiTempLight \in 0 .. 2 /\ bHasError \in {0, 1} /\ uiErrorCount \in 0 .. ErrorLimit + 1
  /\ pc \in Places /\ queue \in Seq(Cells) /\ Len(queue) <= 5
  /\ faults \in 0 .. MaxFaults /\ silences \in 0 .. ErrorLimit + 1

Init ==
  /\ S1!Init /\ S2!Init /\ Link!Init
  /\ uiTempLight = 0 /\ bHasError = 0 /\ uiErrorCount = 0
  /\ settings = Default /\ sram = Kept(Default) /\ before = sram
  /\ pc = "boot" /\ queue = << >> /\ lamp = Black
  /\ faults = 0 /\ unsaved = {} /\ silences = 0

-----------------------------------------------------------------------------
\* The controller starts or waits for the watchdog: no visits for seconds.
Down == pc \in {"boot", "blink", "noclock"}

\* The devices.  While the controller is down the sensors make as many
\* passes as they like, and the receiver wakes without having been visited.
Pass1 ==
  /\ \/ ~Down /\ S1!SensorPass
     \/ /\ Down /\ \E zone \in HandDown : dev1' = S1!Pass(dev1, zone)
        /\ UNCHANGED <<step1, away1, executed1, uiLightCmd>>
  /\ UNCHANGED <<sensor2, remote, flags, store, pc, lamp, faults, silences>>

Pass2 ==
  /\ \/ ~Down /\ S2!SensorPass
     \/ /\ Down /\ \E zone \in HandDown : dev2' = S2!Pass(dev2, zone)
        /\ UNCHANGED <<step2, away2, executed2, uiLightCmd>>
  /\ UNCHANGED <<sensor1, remote, flags, store, pc, lamp, faults, silences>>

Receiver ==
  /\ \/ Link!Receiver
     \/ /\ Down /\ ir.at = "asleep" /\ ir' = Link!Wake(ir)
        /\ UNCHANGED <<step, got, visits, began, served>>
  /\ UNCHANGED <<sensor1, sensor2, uiLightCmd, flags, store, pc, lamp, faults, silences>>

-----------------------------------------------------------------------------
Fault(kind) == kind \in Faults /\ faults < MaxFaults /\ faults' = faults + 1

Answers(device) == device \notin Dead /\ UNCHANGED faults
Silent(device) ==
  \/ device \in Dead /\ UNCHANGED faults
  \/ device \notin Dead /\ Fault("silent")

At(place) == pc = place /\ queue = << >>

\* A controller that tries until the device answers.
Fails_Retries(next) ==
  /\ bHasError' = 1
  /\ silences' = IF silences > ErrorLimit THEN silences ELSE silences + 1
  /\ UNCHANGED <<uiTempLight, uiErrorCount, store, lamp, pc>>

\* A visit that found the device silent: bHasError.
Fails(next) ==
  /\ pc' = next
  /\ bHasError' = 1
  /\ silences' = IF silences > ErrorLimit THEN silences ELSE silences + 1
  /\ UNCHANGED <<uiTempLight, uiErrorCount, store, lamp>>

Goes(next) == pc' = next /\ UNCHANGED <<flags, lamp, silences>>

Stays == UNCHANGED <<flags, store, pc, lamp, silences>>

\* Keeping new settings s: the cells are saved one by one afterwards.
Change(s, cells) ==
  /\ settings' = s
  /\ before' = Kept(settings)
  /\ queue' = cells
  /\ UNCHANGED <<sram, unsaved>>

\* The light is switched and not saved.
SwitchLight_Unsaved(next) ==
  /\ Goes(next)
  /\ IF uiLightCmd \in {1, 2} THEN Change([settings EXCEPT !.light = uiLightCmd - 1], << >>)
     ELSE UNCHANGED store

\* On and off are mixed up.
SwitchLight_Swapped(next) ==
  /\ Goes(next)
  /\ IF uiLightCmd \in {1, 2}
     THEN Change([settings EXCEPT !.light = 2 - uiLightCmd], <<"light">>)
     ELSE UNCHANGED store

\* The switch over uiLightCmd behind each read_distance.
SwitchLight(next) ==
  /\ Goes(next)
  /\ IF uiLightCmd \in {1, 2}
     THEN Change([settings EXCEPT !.light = uiLightCmd - 1], <<"light">>)
     ELSE UNCHANGED store

\* The second byte read counts when no sensor has asked for a light yet.
TempLight(dev) ==
  /\ uiTempLight' = IF uiTempLight = 0 THEN dev.tx.temp ELSE uiTempLight
  /\ UNCHANGED <<bHasError, uiErrorCount, store, pc, lamp, silences>>

LoopStart ==
  /\ At("loop")
  /\ pc' = "sensor1" /\ bHasError' = 0 /\ uiTempLight' = 0
  /\ UNCHANGED <<uiErrorCount, uiLightCmd, sensor1, sensor2, remote, store, lamp, faults, silences>>

Flip(executed) == IF uiLightCmd = 0 THEN executed ELSE 1 - executed

\* A visit that breaks after the address passes for a good one, and the
\* switch executes the command of an earlier visit.
ReadDistance1 ==
  /\ At("sensor1")
  /\ \/ S1!Address /\ Answers("sensor1") /\ Stays
     \/ (S1!ReadCmd \/ S1!Acknowledge) /\ Stays /\ UNCHANGED faults
     \/ S1!ReadTemp /\ TempLight(dev1) /\ UNCHANGED faults
     \/ S1!Execute /\ SwitchLight("sensor2") /\ UNCHANGED faults
     \/ /\ step1 = "addressed" /\ step1' = "away" /\ executed1' = Flip(executed1)
        /\ SwitchLight("sensor2") /\ Fault("broken") /\ UNCHANGED <<dev1, away1, uiLightCmd>>
     \/ S1!NotAcknowledged /\ Fails("sensor2") /\ Fault("silent")
     \/ /\ step1 = "away" /\ Fails("sensor2") /\ Silent("sensor1")
        /\ UNCHANGED <<sensor1, uiLightCmd>>
  /\ UNCHANGED <<sensor2, remote>>

ReadDistance2 ==
  /\ At("sensor2")
  /\ \/ S2!Address /\ Answers("sensor2") /\ Stays
     \/ (S2!ReadCmd \/ S2!Acknowledge) /\ Stays /\ UNCHANGED faults
     \/ S2!ReadTemp /\ TempLight(dev2) /\ UNCHANGED faults
     \/ S2!Execute /\ SwitchLight("ir") /\ UNCHANGED faults
     \/ /\ step2 = "addressed" /\ step2' = "away" /\ executed2' = Flip(executed2)
        /\ SwitchLight("ir") /\ Fault("broken") /\ UNCHANGED <<dev2, away2, uiLightCmd>>
     \/ S2!NotAcknowledged /\ Fails("ir") /\ Fault("silent")
     \/ /\ step2 = "away" /\ Fails("ir") /\ Silent("sensor2")
        /\ UNCHANGED <<sensor2, uiLightCmd>>
  /\ UNCHANGED <<sensor1, remote>>

\* A controller that saves the colour and no more.
ObeyKey_SavesColour ==
  /\ Goes("show")
  /\ Change(Obey(Link!Command(got), settings), <<"r", "g", "b">>)

ObeyKey ==
  /\ Goes("show")
  /\ Change(Obey(Link!Command(got), settings), <<"r", "g", "b", "percent", "light">>)

\* Another remote's key, or none: the last byte ends the visit.
ReadIrByte ==
  /\ \E i \in 1 .. 4 : Link!ReadByte(i)
  /\ IF step' = "away" THEN Goes("show") /\ UNCHANGED store ELSE Stays

ReadIr ==
  /\ At("ir")
  /\ \/ Link!Address /\ Answers("ir") /\ Stays
     \/ (ReadIrByte \/ (Link!Acknowledge /\ Stays)) /\ UNCHANGED faults
     \/ Link!Execute /\ ObeyKey /\ UNCHANGED faults
     \/ Link!ReadFails /\ Goes("show") /\ Fault("broken") /\ UNCHANGED store
     \/ Link!NotAcknowledged /\ Fails("show") /\ Fault("silent")
     \/ /\ step = "away" /\ Fails("show") /\ Silent("ir") /\ UNCHANGED remote
  /\ UNCHANGED <<sensor1, sensor2, uiLightCmd>>

\* One i2c_rtc_sram_write; its result is not looked at.  One that fails may
\* have stored the value: its high byte, always zero, can be what failed.
Save ==
  /\ queue # << >>
  /\ queue' = Tail(queue)
  /\ LET c == Head(queue)
     IN  \/ /\ sram' = [sram EXCEPT ![c] = settings[c]]
            /\ unsaved' = unsaved \ {c} /\ UNCHANGED faults
         \/ /\ sram' \in {sram, [sram EXCEPT ![c] = settings[c]]}
            /\ unsaved' = unsaved \cup {c} /\ Fault("sram")
  /\ UNCHANGED <<sensor1, sensor2, remote, uiLightCmd, flags, settings, before, pc, lamp, silences>>

\* The end of the loop: the lamp is set, the errors are counted.
Show_LitOnly ==
  IF settings.light = 1 THEN \E pass \in {0, 1} : lamp' = Colour(uiTempLight, settings, pass)
  ELSE UNCHANGED lamp

Show == \E pass \in {0, 1} : lamp' = Colour(uiTempLight, settings, pass)

\* Errors are counted and never counted anew.
Count_Forever == uiErrorCount' = uiErrorCount + bHasError

Count == uiErrorCount' = IF bHasError = 1 THEN uiErrorCount + 1 ELSE 0

\* The controller that gives up blinks and no longer feeds the watchdog.
Alarm == <<34, 0, 0>>

LoopEnd ==
  /\ At("show")
  /\ Count
  /\ IF uiErrorCount' > ErrorLimit THEN pc' = "blink" /\ lamp' = Alarm
     ELSE pc' = "loop" /\ Show
  /\ silences' = IF bHasError = 1 THEN silences ELSE 0
  /\ UNCHANGED <<uiTempLight, bHasError, uiLightCmd, sensor1, sensor2, remote, store, faults>>

-----------------------------------------------------------------------------
\* A count that survives the restart.
Locals_KeepCount ==
  uiLightCmd' = 0 /\ uiTempLight' = 0 /\ silences' = 0 /\ UNCHANGED uiErrorCount

Locals ==
  uiLightCmd' = 0 /\ uiTempLight' = 0 /\ silences' = 0 /\ uiErrorCount' = 0

\* The start fades the lamp in for 2.5 s first, in which every sensor makes
\* a pass and takes an acknowledgement left by a visit before the restart.
Faded == dev1.mark = 0 /\ dev2.mark = 0

\* The clock is configured and the settings are read back; a cell that
\* cannot be read keeps its default.
Boot ==
  /\ At("boot") /\ Faded
  /\ \E lost \in SUBSET Cells :
       /\ IF lost = {} THEN UNCHANGED faults ELSE Fault("sram")
       /\ settings' = [Default EXCEPT !.r = IF "r" \in lost THEN @ ELSE sram.r,
                         !.g = IF "g" \in lost THEN @ ELSE sram.g,
                         !.b = IF "b" \in lost THEN @ ELSE sram.b,
                         !.percent = IF "percent" \in lost THEN @ ELSE sram.percent,
                         !.light = IF "light" \in lost THEN @ ELSE sram.light]
       /\ unsaved' = lost
  /\ before' = Kept(settings')
  /\ pc' = "loop" /\ lamp' = Black
  /\ Locals
  /\ UNCHANGED <<sensor1, sensor2, remote, bHasError, queue, sram>>

\* i2c_rtc_init fails: the controller waits for the watchdog.
BootFails ==
  /\ At("boot") /\ Faded
  /\ pc' = "noclock" /\ Fault("sram")
  /\ UNCHANGED <<sensor1, sensor2, remote, uiLightCmd, flags, store, lamp, silences>>

Restart ==
  /\ pc' = "boot" /\ queue' = << >>
  /\ step1' = "away" /\ step2' = "away" /\ step' = "away"
  /\ UNCHANGED <<dev1, away1, executed1, dev2, away2, executed2, ir, got, visits, began, served>>
  /\ UNCHANGED <<uiLightCmd, flags, settings, sram, before, unsaved, lamp, silences>>

Watchdog == Down /\ pc # "boot" /\ Restart /\ UNCHANGED faults

Reset == pc # "boot" /\ Restart /\ Fault("reset")

Controller == LoopStart \/ ReadDistance1 \/ ReadDistance2 \/ ReadIr \/ Save \/ LoopEnd
              \/ Boot \/ BootFails \/ Watchdog

Next == Pass1 \/ Pass2 \/ Receiver \/ Controller \/ Reset

Spec == Init /\ [][Next]_vars

\* All programs run.
FairSpec == Spec /\ WF_vars(Pass1) /\ WF_vars(Pass2) /\ WF_vars(Controller)

-----------------------------------------------------------------------------
Done1 == S1!Offer # 0 /\ (S1!Offer)' = 0
Done2 == S2!Offer # 0 /\ (S2!Offer)' = 0

\* A visit broke and the command of an earlier one was executed again.
Repeated == faults' # faults /\ uiLightCmd # 0 /\ settings'.light = uiLightCmd - 1

(* While the controller runs the light is switched when a gesture's command
   is executed, to what it says, or by a key, and by nothing else but a
   broken visit. *)
SwitchedByOrder ==
  [][ ~Down /\ pc' # "boot" =>
      /\ Done1 => settings'.light = S1!Offer - 1
      /\ Done2 => settings'.light = S2!Offer - 1
      /\ settings'.light # settings.light =>
           \/ Done1 \/ Done2 \/ Repeated
           \/ (step = "execute" /\ Link!Command(got) \in {2, 3}) ]_vars

(* Wherever a reset strikes, every setting kept in the clock is the one
   before or the one after the last command, and between commands nothing
   is left unsaved, except for the cells the clock refused. *)
OneCommandBehind ==
  ~Down =>
  \A c \in Cells \ unsaved :
    /\ sram[c] \in {before[c], settings[c]}
    /\ queue = << >> => sram[c] = settings[c]

(* The controller gives up only after ErrorLimit + 1 silences without a
   good loop in between. *)
ResetsForCause == pc = "blink" => silences > ErrorLimit

(* However often the controller restarts because a device is dead, no key
   of our remote stays on display without being obeyed. *)
NoKeyWaits ==
  \A key \in Link!OwnKeys : ir.tx = key ~> ir.tx # key \/ served = 1

(* A lamp that is switched off gets dark, unless a hand is waved. *)
GetsDark ==
  settings.light = 0 ~>
    lamp = Black \/ settings.light = 1 \/ dev1.tx.temp # 0 \/ dev2.tx.temp # 0
=============================================================================
