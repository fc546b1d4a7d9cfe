------------------------------ MODULE WordClock ------------------------------
(***************************************************************************)
(* The main program of wordclock/main.c: the command loop, the settings it *)
(* keeps in the RAM of the clock chip, the adjusting of the clock, the     *)
(* automatic colour, and the watchdog.  Commands come through the mailbox  *)
(* (LineMail, implemented by UartMailbox).  One action is one transfer to  *)
(* or from the chip or one part of the loop without any, so that a reset   *)
(* may strike between two transfers of one command.                        *)
(***************************************************************************)
EXTENDS Integers, Sequences, SequencesExt

CONSTANTS
  Colours,        \* values of a colour channel that are ordered
  Night, Twilight, Day,   \* values of the automatic colour; all of a sunrise or sunset is one
  Furthest,       \* the zone furthest from universal time, east or west, in hours: 12
  Zone,           \* the zone ordered at first
  Commands,       \* the commands there are
  Sessions,       \* the commands used in one behaviour: one of these sets
  Hours,          \* hours in a day; the date is left out
  MaxFaults       \* bound on refused transfers and resets from outside

Nothing == "nothing"
Letters == {"b+", "b-", "b", "o", "c", "z+", "z-"}      \* the commands for the settings other than colours

ASSUME ClockAssumption ==
  /\ Hours \in Nat \ {0} /\ Furthest \in Nat \ {0} /\ Zone \in (-Furthest) .. Furthest
  /\ MaxFaults \in Nat
  /\ Colours \cap Letters = {}

Zones == (-Furthest) .. Furthest
Shades == Colours \cup {Night, Twilight, Day}
Cells == {"bright", "R", "G", "B", "mode", "zone"}
Channels == {"R", "G", "B"}

VARIABLES
  pc,       \* "loop", "saving", "reading", "mode" (party, light, test), "hung"
  session,  \* the commands and buttons in use
  box,      \* the mailbox: a command, "nonsense" or Nothing
  set,      \* uiBrightControl, uiR, uiG, uiB, uiRGB and rtc_offset
  saves,    \* the cells of the clock's RAM the command has still to write
  ram,      \* the clock's RAM
  rtc,      \* by how many hours the clock is set wrong
  time,     \* the same of the date and time in the program's variable
  sun,      \* time.sunrise: "down" (0), "up" (100), or in between
  \* history
  faults,   \* how many faults have happened
  due,      \* each setting as last ordered by a command
  lost,     \* the cells of which a transfer has failed since they were last saved
  auto      \* the settings the automatic has changed since they were ordered

memory == <<ram, due, lost>>
vars == <<session, pc, box, set, saves, ram, rtc, time, sun, faults, due, lost, auto>>

Bright == {-1, 0, 1}
Settings == [bright : Bright, R : Shades, G : Shades, B : Shades, mode : {0, 1}, zone : Zones]

TypeOK ==
  /\ pc \in {"loop", "saving", "reading", "mode", "hung"}
  /\ box \in Commands \cup {"nonsense", Nothing} /\ set \in Settings /\ ram \in Settings
  /\ saves \in Seq(Cells) /\ due \in Settings /\ lost \subseteq Cells
  /\ rtc \in 0 .. Hours - 1 /\ time \in 0 .. Hours - 1 /\ auto \subseteq Cells
  /\ sun \in {"down", "between", "up"} /\ faults \in 0 .. MaxFaults

Ahead == set.zone % Hours
Local == (rtc + Ahead) % Hours

Init ==
  /\ session \in Sessions
  /\ pc = "loop" /\ box = Nothing /\ saves = << >> /\ rtc = 0
  /\ \E c \in Colours : set = [bright |-> 1, R |-> c, G |-> c, B |-> c, mode |-> 0, zone |-> Zone]
  /\ time = Local
  /\ ram = set /\ due = set /\ lost = {} /\ auto = {}
  /\ sun = "down" /\ faults = 0

Refused(n) == faults + n <= MaxFaults /\ faults' = faults + n
Fault == Refused(1)

-----------------------------------------------------------------------------
(* Around the program. *)
Receive ==
  /\ box = Nothing /\ box' \in (Commands \cap session) \cup {"nonsense"}
  /\ UNCHANGED <<pc, set, saves, memory, rtc, time, sun, faults, auto>>

SunMoves ==
  /\ sun' \in (IF sun = "between" THEN {"down", "up"} ELSE {"between"})
  /\ UNCHANGED <<pc, box, set, saves, memory, rtc, time, faults, auto>>

-----------------------------------------------------------------------------
(* What a command makes of the settings, and the cells it then saves. *)
Toggled(x) == IF x # 0 THEN 0 ELSE 1
East(zone) == IF zone = Furthest THEN -Furthest ELSE zone + 1
West(zone) == IF zone = -Furthest THEN Furthest ELSE zone - 1

Obey(command) ==
  CASE command = "b+" -> [set EXCEPT !.bright = 1]
    [] command = "b-" -> [set EXCEPT !.bright = 0]
    [] command = "b"  -> [set EXCEPT !.bright = Toggled(@)]
    [] command = "o"  -> [set EXCEPT !.bright = -1]
    [] command = "c"  -> [set EXCEPT !.mode = Toggled(@)]
    [] command = "z+" -> [set EXCEPT !.zone = East(@)]
    [] command = "z-" -> [set EXCEPT !.zone = West(@)]
    [] command \in Colours -> [set EXCEPT !.R = command, !.G = command, !.B = command, !.mode = 0]
    [] OTHER -> set

Saved_NoMode(command) ==
  CASE command \in {"b+", "b-", "b", "o"} -> <<"bright">>
    [] command = "c" -> <<"mode">>
    [] command \in {"z+", "z-"} -> <<"zone">>
    [] command \in Colours -> <<"R", "G", "B">>
    [] OTHER -> << >>

Saved(command) ==
  CASE command \in {"b+", "b-", "b", "o"} -> <<"bright">>
    [] command = "c" -> <<"mode">>
    [] command \in {"z+", "z-"} -> <<"zone">>
    [] command \in Colours -> <<"R", "G", "B", "mode">>
    [] OTHER -> << >>

Waits == {"p", "l", "q"}          \* party, light, test: until the next line
Adjusts == {"h+", "h-"}           \* one of the adjusting commands each way
Plain == (Commands \cup {"nonsense"}) \ (Waits \cup Adjusts \cup {"r", "u"})

(* A command for the settings, or one that only answers. *)
ServePlain ==
  /\ pc = "loop" /\ box \in Plain
  /\ set' = Obey(box) /\ saves' = Saved(box)
  /\ pc' = IF saves' = << >> THEN "reading" ELSE "saving"
  /\ due' = [cell \in Cells |-> IF Contains(saves', cell) THEN set'[cell] ELSE due[cell]]
  /\ auto' = auto \ ToSet(saves')
  /\ UNCHANGED <<box, ram, lost, rtc, time, sun, faults>>

Rest_GivesUp == IF faults' > faults THEN << >> ELSE Tail(saves)

Rest == Tail(saves)

(* save_byte looks at no result; the address, though, is waited for without
   end, until the watchdog bites. *)
Save ==
  /\ pc = "saving"
  /\ LET cell == Head(saves)
     IN  \/ /\ ram' = [ram EXCEPT ![cell] = set[cell]] /\ lost' = lost \ {cell}
            /\ UNCHANGED faults
         \/ /\ Fault /\ lost' = lost \cup {cell} /\ UNCHANGED ram
  /\ saves' = Rest
  /\ pc' = IF saves' = << >> THEN "reading" ELSE "saving"
  /\ UNCHANGED <<box, set, rtc, time, sun, due, auto>>

(* 'r' reboots by the watchdog. *)
ServeReboot ==
  /\ pc = "loop" /\ box = "r"
  /\ pc' = "hung"
  /\ UNCHANGED <<box, set, saves, memory, rtc, time, sun, faults, auto>>

(* The waiting modes free the mailbox; the line that ends them is not obeyed. *)
ServeWait ==
  /\ pc = "loop" /\ box \in Waits
  /\ pc' = "mode" /\ box' = Nothing
  /\ UNCHANGED <<set, saves, memory, rtc, time, sun, faults, auto>>

EndMode ==
  /\ pc = "mode" /\ box # Nothing
  /\ pc' = "reading"
  /\ UNCHANGED <<box, set, saves, memory, rtc, time, sun, faults, auto>>

Stepped(command, skew) == (skew + (IF command = "h+" THEN 1 ELSE Hours - 1)) % Hours

Universal_Local == Local

Universal == rtc

(* The chip is written byte after byte: a refused write may have set the hour
   already and leaves the rest of the date as it was. *)
Write(refused) ==
  \/ rtc' = time'
  \/ refused = 1 /\ UNCHANGED rtc

(* The adjusting commands read universal time, step and write it back, and
   look at neither result: a refused read leaves in the variable what it
   held, usually local time. *)
ServeAdjust ==
  /\ pc = "loop" /\ box \in Adjusts
  /\ \E read, write \in {0, 1} :       \* refused (1) or not
       /\ Refused(read + write)
       /\ time' = Stepped(box, IF read = 1 THEN time ELSE Universal)
       /\ Write(write)
  /\ pc' = "reading"
  /\ UNCHANGED <<box, set, saves, memory, sun, auto>>

\* 'u' sets the clock.
ServeSet ==
  /\ pc = "loop" /\ box = "u"
  /\ time' = 0
  /\ \E write \in {0, 1} : Refused(write) /\ Write(write)
  /\ pc' = "reading"
  /\ UNCHANGED <<box, set, saves, memory, sun, auto>>

Frees_Never == box

\* The mailbox is freed when all is done.
Frees == Nothing

(* After every line the clock is read; failing that the program blinks and
   waits for the watchdog. *)
EndServe ==
  /\ pc = "reading"
  /\ \/ pc' = "loop" /\ time' = Local /\ box' = Frees /\ UNCHANGED faults
     \/ Fault /\ pc' = "hung" /\ UNCHANGED <<time, box>>
  /\ UNCHANGED <<set, saves, memory, rtc, sun, auto>>

(* Once a second: read the clock; in automatic mode the sun sets the colour,
   and by day brings back a light that is off.  Neither is saved.  At the very
   middle of a sunrise or sunset the colour stays as it is. *)
Shown == [down |-> Night, between |-> Twilight, up |-> Day][sun]

Automatic ==
  IF set.mode = 1
  THEN {[set EXCEPT !.R = Shown, !.G = Shown, !.B = Shown,
                    !.bright = IF @ = -1 /\ sun = "up" THEN 1 ELSE @]}
         \cup (IF sun = "between" THEN {set} ELSE {})
  ELSE {set}

Second ==
  /\ pc = "loop"
  /\ \/ Fault /\ pc' = "hung" /\ UNCHANGED <<time, set, auto>>
     \/ /\ time' = Local
        /\ set' \in Automatic
        /\ auto' = auto \cup {cell \in Cells : set'[cell] # set[cell]}
        /\ UNCHANGED <<pc, faults>>
  /\ UNCHANGED <<box, saves, memory, rtc, sun>>

(* The buttons adjust the clock, too, but give up when it does not answer. *)
Button ==
  /\ pc = "loop" /\ "button" \in session
  /\ \/ \E write \in {0, 1} :
          /\ Refused(write)
          /\ time' = Stepped("h+", Universal)
          /\ Write(write) /\ UNCHANGED pc
     \/ Fault /\ pc' = "hung" /\ UNCHANGED <<rtc, time>>
  /\ UNCHANGED <<box, set, saves, memory, sun, auto>>

(* A transfer whose address is never acknowledged holds the program until the
   watchdog bites; and the power may fail at any moment. *)
Starve ==
  /\ pc # "hung" /\ Fault
  /\ pc' = "hung"
  /\ UNCHANGED <<box, set, saves, memory, rtc, time, sun, auto>>

Unset(cell) ==
  CASE cell = "bright" -> {1}
    [] cell = "zone" -> {0}
    [] cell = "mode" -> {0, 1}
    [] OTHER -> Shades

(* The watchdog, or the power coming back: main begins again.  A cell that
   cannot be read keeps what the variable held, which only for brightness and
   zone is initialised; the same for the time. *)
Boot ==
  /\ pc = "hung"
  /\ pc' = "loop" /\ box' = Nothing /\ saves' = << >> /\ auto' = {}
  /\ UNCHANGED <<ram, rtc, sun, due>>
  /\ \/ set' = ram /\ time' = Local' /\ lost' = lost \cup ToSet(saves)
        /\ UNCHANGED faults
     \/ /\ Fault
        /\ \E cell \in Cells :
             /\ \E value \in Unset(cell) : set' = [ram EXCEPT ![cell] = value]
             /\ lost' = lost \cup ToSet(saves) \cup {cell}
        /\ time' = Local'
     \/ /\ Fault /\ set' = ram /\ time' \in 0 .. Hours - 1
        /\ lost' = lost \cup ToSet(saves)

Serve == ServePlain \/ Save \/ ServeReboot \/ ServeWait \/ EndMode \/ ServeAdjust \/ ServeSet \/ EndServe

Next == (Receive \/ SunMoves \/ Serve \/ Second \/ Button \/ Starve \/ Boot) /\ UNCHANGED session

\* The loop runs and the watchdog bites; lines need not come.
Spec ==
  /\ Init /\ [][Next]_vars
  /\ WF_vars(Serve /\ UNCHANGED session) /\ WF_vars(Boot /\ UNCHANGED session)

-----------------------------------------------------------------------------
(* What the chip keeps is what was last ordered, cell by cell, but for cells
   whose saving was refused or cut, or is still under way; what the automatic
   shows is never kept. *)
KeptAsOrdered ==
  \A cell \in Cells \ lost : ram[cell] = due[cell] \/ Contains(saves, cell)

(* The clock shows what was last ordered, through restarts, too; only the
   automatic departs from it, which never puts the light out, leaves its
   mode or moves the zone.  No colour is shown that was never ordered nor belongs to the
   automatic: a mixture takes a fault in the middle of a saving. *)
ShownAsOrdered ==
  /\ TypeOK
  /\ pc # "hung" =>
       /\ \A cell \in Cells \ (lost \cup auto) : set[cell] = due[cell]
       /\ "bright" \in auto => set.bright = 1
       /\ "mode" \notin auto /\ "zone" \notin auto
  /\ lost = {} /\ pc = "loop" => set.R = set.G /\ set.G = set.B

(* The hour moves only as ordered, one at a time; one refused transfer moves
   it by the zone at most, when local time is taken for universal.  (A refused
   write may leave the day behind the hour; the date is left out.) *)
ClockMovesByOrder ==
  [][ LET moved == (rtc' - rtc) % Hours
      IN  \/ moved \in {0, 1, Hours - 1}
          \/ box = "u" /\ rtc' = 0
          \/ faults' > faults /\ (faults' > 1 \/ moved \in {Ahead + 1, Ahead - 1}) ]_vars

(* Every line is dealt with, the one that ends a party and the one that makes
   the clock reboot among them, unless the clock waits in a mode without one. *)
LinesServed == box # Nothing ~> box = Nothing
=============================================================================
