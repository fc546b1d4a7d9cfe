--------------------------- MODULE WordClockProofs ---------------------------
(***************************************************************************)
(* What the clock chip keeps of the word clock's settings and what the     *)
(* clock shows of them, for any number of refused transfers, resets and    *)
(* power failures at any moment, any colours and any commands; and how the *)
(* clock's time moves, for any number of hours and any zone.               *)
(***************************************************************************)
EXTENDS WordClock, TLAPS

Alike(s) == s.R = s.G /\ s.G = s.B

(* A command has saved all it has to when the next one begins, and until a
   cell is saved it is shown as ordered. *)
SavesInv ==
  /\ pc = "saving" => saves # << >>
  /\ pc \notin {"saving", "hung"} => saves = << >>
  /\ pc = "saving" => \A cell \in Cells : Contains(saves, cell) => set[cell] = due[cell]

ShownInv ==
  pc # "hung" =>
    /\ \A cell \in Cells \ (lost \cup auto) : set[cell] = due[cell]
    /\ "bright" \in auto => set.bright = 1
    /\ "mode" \notin auto /\ "zone" \notin auto

(* The three channels are ordered together, and by the automatic set
   together; they can differ only when one was not saved or not read. *)
AlikeInv ==
  /\ Alike(due)
  /\ pc # "hung" => Alike(set) \/ \E cell \in Channels : cell \in lost
  /\ pc = "saving" /\ (\E cell \in Channels : Contains(saves, cell)) => Alike(set)

IInv == TypeOK /\ SavesInv /\ KeptAsOrdered /\ ShownInv /\ AlikeInv

-----------------------------------------------------------------------------
LEMMA ZoneTurns ==
  /\ \A zone \in Zones : East(zone) \in Zones /\ West(zone) \in Zones
  /\ 0 \in Zones /\ Zone \in Zones
BY ClockAssumption DEF East, West, Zones

LEMMA LocalInDay ==
  ASSUME NEW zone \in Zones, NEW r \in 0 .. Hours - 1
  PROVE  zone % Hours \in 0 .. Hours - 1 /\ (r + (zone % Hours)) % Hours \in 0 .. Hours - 1
<1>1. Hours \in Nat \ {0} /\ zone \in Int
  BY ClockAssumption DEF Zones
<1>2. zone % Hours \in 0 .. Hours - 1
  BY <1>1
<1>3. PICK z : z = zone % Hours
  OBVIOUS
<1> QED BY <1>1, <1>2, <1>3

LEMMA TailContains ==
  ASSUME NEW s \in Seq(Cells), s # << >>, NEW cell
  PROVE  /\ Head(s) \in Cells /\ Tail(s) \in Seq(Cells)
         /\ Contains(s, cell) => cell = Head(s) \/ Contains(Tail(s), cell)
         /\ Contains(Tail(s), cell) => Contains(s, cell)
<1>1. Head(s) \in Cells /\ Tail(s) \in Seq(Cells)
  OBVIOUS
<1>2. Len(Tail(s)) = Len(s) - 1 /\ \A i \in 1 .. Len(s) - 1 : Tail(s)[i] = s[i + 1]
  OBVIOUS
<1>3. Contains(s, cell) => cell = Head(s) \/ Contains(Tail(s), cell)
  <2> SUFFICES ASSUME NEW i \in 1 .. Len(s), s[i] = cell, cell # Head(s)
               PROVE  \E j \in 1 .. Len(Tail(s)) : Tail(s)[j] = cell
    BY DEF Contains
  <2>1. i # 1
    OBVIOUS
  <2>2. i - 1 \in 1 .. Len(Tail(s)) /\ Tail(s)[i - 1] = cell
    BY <1>2, <2>1
  <2> QED BY <2>2
<1>4. Contains(Tail(s), cell) => Contains(s, cell)
  <2> SUFFICES ASSUME NEW i \in 1 .. Len(Tail(s)), Tail(s)[i] = cell
               PROVE  \E j \in 1 .. Len(s) : s[j] = cell
    BY DEF Contains
  <2>1. i + 1 \in 1 .. Len(s) /\ s[i + 1] = cell
    BY <1>2
  <2> QED BY <2>1
<1> QED BY <1>1, <1>3, <1>4

LEMMA ToSetContains ==
  ASSUME NEW s \in Seq(Cells), NEW cell
  PROVE  cell \in ToSet(s) <=> Contains(s, cell)
BY DEF ToSet, Contains

(* What a command changes is what it saves, and it saves all channels or none. *)
LEMMA CommandSaves ==
  ASSUME set \in Settings, NEW command
  PROVE  /\ Obey(command) \in Settings /\ Saved(command) \in Seq(Cells)
         /\ \A cell \in Cells : Obey(command)[cell] = set[cell] \/ Contains(Saved(command), cell)
         /\ \/ Alike(Obey(command)) /\ \A cell \in Channels : Contains(Saved(command), cell)
            \/ \A cell \in Channels : ~Contains(Saved(command), cell)
<1> DEFINE Goal(s, v) ==
      /\ s \in Settings /\ v \in Seq(Cells)
      /\ \A cell \in Cells : s[cell] = set[cell] \/ Contains(v, cell)
      /\ \/ Alike(s) /\ \A cell \in Channels : Contains(v, cell)
         \/ \A cell \in Channels : ~Contains(v, cell)
<1>1. ASSUME NEW b \in Bright
      PROVE  Goal([set EXCEPT !.bright = b], <<"bright">>)
  <2> DEFINE s == [set EXCEPT !.bright = b]
             v == <<"bright">>
  <2>1. v \in Seq(Cells) /\ \A cell : Contains(v, cell) <=> cell = "bright"
    BY DEF Contains, Cells
  <2>2. s \in Settings /\ \A cell \in Cells : s[cell] = set[cell] \/ cell = "bright"
    BY DEF Settings, Cells
  <2> QED BY <2>1, <2>2 DEF Channels
<1>2. ASSUME NEW m \in {0, 1}
      PROVE  Goal([set EXCEPT !.mode = m], <<"mode">>)
  <2> DEFINE s == [set EXCEPT !.mode = m]
             v == <<"mode">>
  <2>1. v \in Seq(Cells) /\ \A cell : Contains(v, cell) <=> cell = "mode"
    BY DEF Contains, Cells
  <2>2. s \in Settings /\ \A cell \in Cells : s[cell] = set[cell] \/ cell = "mode"
    BY DEF Settings, Cells
  <2> QED BY <2>1, <2>2 DEF Channels
<1>3. ASSUME NEW c \in Colours
      PROVE  Goal([set EXCEPT !.R = c, !.G = c, !.B = c, !.mode = 0], <<"R", "G", "B", "mode">>)
  <2> DEFINE s == [set EXCEPT !.R = c, !.G = c, !.B = c, !.mode = 0]
             v == <<"R", "G", "B", "mode">>
  <2>1. v \in Seq(Cells) /\ Len(v) = 4
    BY DEF Cells
  <2>2. v[1] = "R" /\ v[2] = "G" /\ v[3] = "B" /\ v[4] = "mode"
    OBVIOUS
  <2>3. Contains(v, "R") /\ Contains(v, "G") /\ Contains(v, "B") /\ Contains(v, "mode")
    BY <2>1, <2>2 DEF Contains
  <2>4. s \in Settings /\ Alike(s) /\ s["bright"] = set["bright"]
    BY DEF Settings, Shades, Alike
  <2> QED BY <2>1, <2>3, <2>4 DEF Channels, Cells
<1>4. ASSUME NEW z \in Zones
      PROVE  Goal([set EXCEPT !.zone = z], <<"zone">>)
  <2> DEFINE s == [set EXCEPT !.zone = z]
             v == <<"zone">>
  <2>1. v \in Seq(Cells) /\ \A cell : Contains(v, cell) <=> cell = "zone"
    BY DEF Contains, Cells
  <2>2. s \in Settings /\ \A cell \in Cells : s[cell] = set[cell] \/ cell = "zone"
    BY DEF Settings, Cells
  <2> QED BY <2>1, <2>2 DEF Channels
<1>5. Goal(set, << >>)
  BY DEF Contains
<1>6. Goal(Obey(command), Saved(command))
  <2>1. CASE command \in Letters
    <3>1. command \notin Colours
      BY <2>1, ClockAssumption
    <3>2. CASE command = "b+"
      <4>1. Obey(command) = [set EXCEPT !.bright = 1] /\ Saved(command) = <<"bright">>
        BY <3>1, <3>2 DEF Obey, Saved
      <4> QED BY <1>1, <4>1 DEF Bright
    <3>3. CASE command = "b-"
      <4>1. Obey(command) = [set EXCEPT !.bright = 0] /\ Saved(command) = <<"bright">>
        BY <3>1, <3>3 DEF Obey, Saved
      <4> QED BY <1>1, <4>1 DEF Bright
    <3>4. CASE command = "b"
      <4>1. Obey(command) = [set EXCEPT !.bright = Toggled(set.bright)] /\ Saved(command) = <<"bright">>
        BY <3>1, <3>4 DEF Obey, Saved
      <4>2. Toggled(set.bright) \in Bright
        BY DEF Toggled, Bright
      <4> QED BY <1>1, <4>1, <4>2
    <3>5. CASE command = "o"
      <4>1. Obey(command) = [set EXCEPT !.bright = -1] /\ Saved(command) = <<"bright">>
        BY <3>1, <3>5 DEF Obey, Saved
      <4> QED BY <1>1, <4>1 DEF Bright
    <3>6. CASE command = "c"
      <4>1. Obey(command) = [set EXCEPT !.mode = Toggled(set.mode)] /\ Saved(command) = <<"mode">>
        BY <3>1, <3>6 DEF Obey, Saved
      <4>2. Toggled(set.mode) \in {0, 1}
        BY DEF Toggled
      <4> QED BY <1>2, <4>1, <4>2
    <3>7. CASE command = "z+"
      <4>1. Obey(command) = [set EXCEPT !.zone = East(set.zone)] /\ Saved(command) = <<"zone">>
        BY <3>1, <3>7 DEF Obey, Saved
      <4>2. East(set.zone) \in Zones
        BY ZoneTurns DEF Settings
      <4> QED BY <1>4, <4>1, <4>2
    <3>8. CASE command = "z-"
      <4>1. Obey(command) = [set EXCEPT !.zone = West(set.zone)] /\ Saved(command) = <<"zone">>
        BY <3>1, <3>8 DEF Obey, Saved
      <4>2. West(set.zone) \in Zones
        BY ZoneTurns DEF Settings
      <4> QED BY <1>4, <4>1, <4>2
    <3> QED BY <2>1, <3>2, <3>3, <3>4, <3>5, <3>6, <3>7, <3>8 DEF Letters
  <2>2. CASE command \in Colours
    <3>1. command \notin Letters
      BY <2>2, ClockAssumption
    <3>2. /\ Obey(command) = [set EXCEPT !.R = command, !.G = command, !.B = command, !.mode = 0]
          /\ Saved(command) = <<"R", "G", "B", "mode">>
      BY <2>2, <3>1 DEF Obey, Saved, Letters
    <3> QED BY <1>3, <2>2, <3>2
  <2>3. CASE command \notin Letters /\ command \notin Colours
    <3>1. Obey(command) = set /\ Saved(command) = << >>
      BY <2>3 DEF Obey, Saved, Letters
    <3> QED BY <1>5, <3>1
  <2> QED BY <2>1, <2>2, <2>3
<1> QED BY <1>6

-----------------------------------------------------------------------------
LEMMA InitInv == Init => IInv
<1> SUFFICES ASSUME Init PROVE IInv
  OBVIOUS
<1>1. TypeOK
  <2>1. set \in Settings
    BY ZoneTurns DEF Init, Settings, Shades, Bright
  <2>2. rtc \in 0 .. Hours - 1 /\ Local \in 0 .. Hours - 1
    BY <2>1, LocalInDay, ClockAssumption DEF Init, Local, Ahead, Settings
  <2> QED BY <2>1, <2>2, ClockAssumption DEF Init, TypeOK
<1>2. SavesInv /\ KeptAsOrdered /\ ShownInv /\ AlikeInv
  BY DEF Init, SavesInv, KeptAsOrdered, ShownInv, AlikeInv, Alike, Cells
<1> QED BY <1>1, <1>2 DEF IInv

(* The steps that leave the settings and their copy alone: they may end in
   "hung", and elsewhere begin and end where nothing is to be saved. *)
LEMMA SettingsStay ==
  ASSUME IInv, TypeOK', UNCHANGED <<set, saves, memory, auto>>,
         pc' = pc \/ pc' = "hung" \/ (pc \notin {"saving", "hung"} /\ pc' \notin {"saving", "hung"})
  PROVE  IInv'
BY DEF IInv, SavesInv, KeptAsOrdered, ShownInv, AlikeInv, Alike, memory, Contains

LEMMA PlainKeeps ==
  ASSUME IInv, ServePlain
  PROVE  IInv'
<1>1. /\ set \in Settings /\ due \in Settings /\ saves = << >> /\ pc = "loop"
      /\ set' = Obey(box) /\ saves' = Saved(box) /\ ram' = ram /\ lost' = lost
      /\ auto' = auto \ ToSet(saves') /\ pc' = IF saves' = << >> THEN "reading" ELSE "saving"
      /\ due' = [cell \in Cells |-> IF Contains(saves', cell) THEN set'[cell] ELSE due[cell]]
  BY DEF IInv, TypeOK, SavesInv, ServePlain
<1>2. /\ set' \in Settings /\ saves' \in Seq(Cells)
      /\ \A cell \in Cells : set'[cell] = set[cell] \/ Contains(saves', cell)
      /\ \/ Alike(set') /\ \A cell \in Channels : Contains(saves', cell)
         \/ \A cell \in Channels : ~Contains(saves', cell)
  BY <1>1, CommandSaves
<1>3. \A cell \in Cells : cell \in ToSet(saves') <=> Contains(saves', cell)
  BY <1>2, ToSetContains
<1>4. \A cell \in Cells : ~Contains(saves, cell)
  BY <1>1 DEF Contains
<1>5. TypeOK'
  <2>1. due' \in Settings
    BY <1>1, <1>2 DEF Settings, Cells
  <2> QED BY <1>1, <1>2, <2>1 DEF IInv, TypeOK, ServePlain
<1>6. SavesInv'
  BY <1>1 DEF SavesInv
<1>7. KeptAsOrdered'
  BY <1>1, <1>4 DEF IInv, KeptAsOrdered
<1>8. ShownInv'
  <2>1. \A cell \in Cells \ (lost' \cup auto') : set'[cell] = due'[cell]
    BY <1>1, <1>2, <1>3 DEF IInv, ShownInv
  <2>2. "bright" \in auto' => set'.bright = 1
    BY <1>1, <1>2, <1>3 DEF IInv, ShownInv, Cells
  <2>3. "mode" \notin auto' /\ "zone" \notin auto'
    BY <1>1 DEF IInv, ShownInv
  <2> QED BY <2>1, <2>2, <2>3 DEF ShownInv
<1>9. AlikeInv'
  <2>1. CASE Alike(set') /\ \A cell \in Channels : Contains(saves', cell)
    <3>1. Alike(due')
      BY <1>1, <2>1 DEF Alike, Channels, Cells
    <3> QED BY <2>1, <3>1 DEF AlikeInv, Alike
  <2>2. CASE \A cell \in Channels : ~Contains(saves', cell)
    <3>1. \A cell \in Channels : set'[cell] = set[cell] /\ due'[cell] = due[cell]
      BY <1>1, <1>2, <2>2 DEF Channels, Cells
    <3>2. Alike(due') /\ (Alike(set) => Alike(set'))
      BY <3>1 DEF IInv, AlikeInv, Alike, Channels
    <3> QED BY <1>1, <2>2, <3>2 DEF IInv, AlikeInv, Alike
  <2> QED BY <1>2, <2>1, <2>2
<1> QED BY <1>5, <1>6, <1>7, <1>8, <1>9 DEF IInv

LEMMA SaveKeeps ==
  ASSUME IInv, Save
  PROVE  IInv'
<1> DEFINE cell == Head(saves)
<1>1. /\ saves \in Seq(Cells) /\ saves # << >> /\ pc = "saving"
      /\ set' = set /\ due' = due /\ auto' = auto /\ saves' = Tail(saves)
      /\ pc' = IF saves' = << >> THEN "reading" ELSE "saving"
      /\ \/ ram' = [ram EXCEPT ![cell] = set[cell]] /\ lost' = lost \ {cell}
         \/ lost' = lost \cup {cell} /\ ram' = ram
  BY DEF IInv, TypeOK, SavesInv, Save, Rest
<1>2. cell \in Cells /\ saves' \in Seq(Cells)
  BY <1>1, TailContains
<1>3. \A c \in Cells : /\ Contains(saves, c) => c = cell \/ Contains(saves', c)
                       /\ Contains(saves', c) => Contains(saves, c)
  BY <1>1, TailContains
<1>4. Contains(saves, cell)
  BY <1>1 DEF Contains
<1>5. TypeOK'
  <2>1. [ram EXCEPT ![cell] = set[cell]] \in Settings
    BY <1>2 DEF IInv, TypeOK, Settings, Cells
  <2>2. faults' \in 0 .. MaxFaults
    BY ClockAssumption DEF IInv, TypeOK, Save, Fault, Refused
  <2> QED BY <1>1, <1>2, <2>1, <2>2 DEF IInv, TypeOK, Save
<1>6. SavesInv'
  BY <1>1, <1>3 DEF IInv, SavesInv
<1>7. KeptAsOrdered'
  <2>1. set[cell] = due[cell]
    BY <1>1, <1>2, <1>4 DEF IInv, SavesInv
  <2>2. DOMAIN ram = Cells
    BY DEF IInv, TypeOK, Settings, Cells
  <2> QED BY <1>1, <1>2, <1>3, <2>1, <2>2 DEF IInv, KeptAsOrdered
<1>8. ShownInv'
  <2>1. set[cell] = due[cell]
    BY <1>1, <1>2, <1>4 DEF IInv, SavesInv
  <2> QED BY <1>1, <2>1 DEF IInv, ShownInv
<1>9. AlikeInv'
  <2>1. Channels \subseteq Cells
    BY DEF Channels, Cells
  <2>2. cell \in Channels => Alike(set)
    BY <1>1, <1>4 DEF IInv, AlikeInv
  <2>3. Alike(set) \/ \E c \in Channels : c \in lost'
    BY <1>1, <2>2 DEF IInv, AlikeInv
  <2>4. (\E c \in Channels : Contains(saves', c)) => Alike(set)
    BY <1>1, <1>3, <2>1 DEF IInv, AlikeInv
  <2> QED BY <1>1, <2>3, <2>4 DEF IInv, AlikeInv, Alike
<1> QED BY <1>5, <1>6, <1>7, <1>8, <1>9 DEF IInv

LEMMA SecondKeeps ==
  ASSUME IInv, Second
  PROVE  IInv'
<1>1. CASE pc' = "hung" /\ UNCHANGED <<time, set, auto>>
  <2>1. TypeOK'
    BY <1>1, ClockAssumption DEF IInv, TypeOK, Second, Fault, Refused, memory
  <2> QED BY <1>1, <2>1, SettingsStay DEF Second
<1>2. CASE /\ time' = Local /\ set' \in Automatic /\ UNCHANGED <<pc, faults>>
           /\ auto' = auto \cup {cell \in Cells : set'[cell] # set[cell]}
  <2>1. /\ pc = "loop" /\ pc' = "loop" /\ saves = << >> /\ set \in Settings
        /\ UNCHANGED <<saves, ram, due, lost>>
    BY <1>2 DEF IInv, SavesInv, TypeOK, Second, memory
  <2>2. Local \in 0 .. Hours - 1
    BY LocalInDay DEF IInv, TypeOK, Local, Ahead, Settings
  <2>3. /\ set' \in Settings /\ set'.mode = set.mode /\ set'.zone = set.zone
        /\ set'.bright = set.bright \/ set'.bright = 1
        /\ set' = set \/ Alike(set')
    <3>1. CASE set' = set
      BY <2>1, <3>1
    <3>2. CASE set' # set
      <4> DEFINE b == IF set.bright = -1 /\ sun = "up" THEN 1 ELSE set.bright
      <4>1. set' = [set EXCEPT !.R = Shown, !.G = Shown, !.B = Shown, !.bright = b]
        BY <1>2, <3>2 DEF Automatic
      <4>2. Shown \in Shades /\ b \in Bright
        BY <2>1 DEF IInv, TypeOK, Shown, Shades, Settings, Bright
      <4> HIDE DEF b
      <4>3. /\ set' \in Settings /\ set'.mode = set.mode /\ set'.zone = set.zone
            /\ Alike(set') /\ set'.bright = b
        BY <2>1, <4>1, <4>2 DEF Settings, Alike
      <4> QED BY <4>3 DEF b
    <3> QED BY <3>1, <3>2
  <2>4. TypeOK'
    BY <1>2, <2>1, <2>2, <2>3 DEF IInv, TypeOK, Second
  <2>5. SavesInv' /\ KeptAsOrdered'
    BY <2>1 DEF IInv, SavesInv, KeptAsOrdered
  <2>6. ShownInv'
    <3>1. \A cell \in Cells \ (lost' \cup auto') : set'[cell] = due'[cell]
      BY <1>2, <2>1 DEF IInv, ShownInv
    <3>2. "bright" \in auto' => set'.bright = 1
      BY <1>2, <2>1, <2>3 DEF IInv, ShownInv
    <3>3. "mode" \notin auto' /\ "zone" \notin auto'
      BY <1>2, <2>1, <2>3 DEF IInv, ShownInv
    <3> QED BY <3>1, <3>2, <3>3 DEF ShownInv
  <2>7. AlikeInv'
    BY <2>1, <2>3 DEF IInv, AlikeInv, Alike
  <2> QED BY <2>4, <2>5, <2>6, <2>7 DEF IInv
<1> QED BY <1>1, <1>2 DEF Second

LEMMA BootKeeps ==
  ASSUME IInv, Boot
  PROVE  IInv'
<1>1. /\ pc' = "loop" /\ box' = Nothing /\ saves' = << >> /\ auto' = {}
      /\ UNCHANGED <<ram, rtc, sun, due>> /\ faults' \in 0 .. MaxFaults
  BY ClockAssumption DEF IInv, TypeOK, Boot, Fault, Refused
<1>3. /\ lost' \subseteq Cells /\ set' \in Settings
      /\ lost \cup ToSet(saves) \subseteq lost'
      /\ \A cell \in Cells \ lost' : set'[cell] = ram[cell]
  <2>1. ToSet(saves) \subseteq Cells /\ lost \subseteq Cells /\ ram \in Settings
    BY DEF IInv, TypeOK, ToSet
  <2>2. CASE set' = ram /\ lost' = lost \cup ToSet(saves)
    BY <2>1, <2>2
  <2>3. ASSUME NEW cell \in Cells, NEW value \in Unset(cell),
               set' = [ram EXCEPT ![cell] = value], lost' = lost \cup ToSet(saves) \cup {cell}
        PROVE  /\ lost' \subseteq Cells /\ set' \in Settings
               /\ lost \cup ToSet(saves) \subseteq lost'
               /\ \A c \in Cells \ lost' : set'[c] = ram[c]
    <3>1. set' \in Settings
      BY <2>1, <2>3, ZoneTurns DEF Unset, Settings, Cells, Bright
    <3>2. \A c \in Cells : c # cell => set'[c] = ram[c]
      BY <2>1, <2>3 DEF Settings, Cells
    <3> QED BY <2>1, <2>3, <3>1, <3>2
  <2> QED BY <2>2, <2>3 DEF Boot
<1>4. TypeOK'
  <2>1. rtc' \in 0 .. Hours - 1 /\ set'.zone \in Zones
    BY <1>1, <1>3 DEF IInv, TypeOK, Settings
  <2>2. time' \in 0 .. Hours - 1
    BY <2>1, LocalInDay DEF Boot, Local, Ahead
  <2> QED BY <1>1, <1>3, <2>2 DEF IInv, TypeOK
<1>5. \A cell \in Cells \ lost' : ram[cell] = due[cell]
  <2>1. \A cell \in Cells : cell \in ToSet(saves) <=> Contains(saves, cell)
    BY ToSetContains DEF IInv, TypeOK
  <2> QED BY <1>3, <2>1 DEF IInv, KeptAsOrdered
<1>6. SavesInv' /\ KeptAsOrdered' /\ ShownInv'
  BY <1>1, <1>3, <1>5 DEF SavesInv, KeptAsOrdered, ShownInv
<1>7. AlikeInv'
  <2>1. Alike(due')
    BY <1>1 DEF IInv, AlikeInv, Alike
  <2>2. ASSUME \A cell \in Channels : cell \notin lost'
        PROVE  Alike(set')
    BY <1>3, <1>5, <2>2 DEF IInv, AlikeInv, Alike, Channels, Cells
  <2>3. \A cell \in Channels : ~Contains(saves', cell)
    BY <1>1 DEF Contains
  <2> QED BY <1>1, <2>1, <2>2, <2>3 DEF AlikeInv
<1> QED BY <1>4, <1>6, <1>7 DEF IInv

LEMMA NextInv == IInv /\ [Next]_vars => IInv'
<1> SUFFICES ASSUME IInv, [Next]_vars
             PROVE  IInv'
  OBVIOUS
<1>0. \A command : \A skew \in 0 .. Hours - 1 : Stepped(command, skew) \in 0 .. Hours - 1
  BY ClockAssumption DEF Stepped
<1>1. Local \in 0 .. Hours - 1 /\ Universal \in 0 .. Hours - 1
  BY LocalInDay DEF IInv, TypeOK, Local, Ahead, Settings, Universal
<1> USE DEF memory
<1>2. CASE Receive
  <2>1. TypeOK'
    BY <1>2 DEF IInv, TypeOK, Receive
  <2> QED BY <1>2, <2>1, SettingsStay DEF Receive
<1>3. CASE SunMoves
  <2>1. TypeOK'
    BY <1>3 DEF IInv, TypeOK, SunMoves
  <2> QED BY <1>3, <2>1, SettingsStay DEF SunMoves
<1>4. CASE ServePlain
  BY <1>4, PlainKeeps
<1>5. CASE Save
  BY <1>5, SaveKeeps
<1>6. CASE ServeReboot
  <2>1. TypeOK'
    BY <1>6 DEF IInv, TypeOK, ServeReboot
  <2> QED BY <1>6, <2>1, SettingsStay DEF ServeReboot
<1>7. CASE ServeWait
  <2>1. TypeOK'
    BY <1>7 DEF IInv, TypeOK, ServeWait
  <2> QED BY <1>7, <2>1, SettingsStay DEF ServeWait
<1>8. CASE EndMode
  <2>1. TypeOK'
    BY <1>8 DEF IInv, TypeOK, EndMode
  <2> QED BY <1>8, <2>1, SettingsStay DEF EndMode
<1>9. CASE ServeAdjust
  <2>1. time' \in 0 .. Hours - 1 /\ rtc' \in 0 .. Hours - 1 /\ faults' \in 0 .. MaxFaults
    BY <1>0, <1>1, <1>9, ClockAssumption DEF IInv, TypeOK, ServeAdjust, Refused, Write
  <2>2. TypeOK'
    BY <1>9, <2>1 DEF IInv, TypeOK, ServeAdjust
  <2> QED BY <1>9, <2>2, SettingsStay DEF ServeAdjust
<1>10. CASE ServeSet
  <2>1. TypeOK'
    BY <1>10, ClockAssumption DEF IInv, TypeOK, ServeSet, Refused, Write
  <2> QED BY <1>10, <2>1, SettingsStay DEF ServeSet
<1>11. CASE EndServe
  <2>1. TypeOK'
    BY <1>1, <1>11, ClockAssumption DEF IInv, TypeOK, EndServe, Fault, Refused, Frees
  <2> QED BY <1>11, <2>1, SettingsStay DEF EndServe
<1>12. CASE Second
  BY <1>12, SecondKeeps
<1>13. CASE Button
  <2>1. time' \in 0 .. Hours - 1 \/ time' = time
    BY <1>0, <1>1, <1>13 DEF Button
  <2>2. time' \in 0 .. Hours - 1 /\ rtc' \in 0 .. Hours - 1 /\ faults' \in 0 .. MaxFaults
    BY <1>0, <1>1, <1>13, <2>1, ClockAssumption DEF IInv, TypeOK, Button, Fault, Refused, Write
  <2>3. TypeOK'
    BY <1>13, <2>2 DEF IInv, TypeOK, Button
  <2> QED BY <1>13, <2>3, SettingsStay DEF Button
<1>14. CASE Starve
  <2>1. TypeOK'
    BY <1>14, ClockAssumption DEF IInv, TypeOK, Starve, Fault, Refused
  <2> QED BY <1>14, <2>1, SettingsStay DEF Starve
<1>15. CASE Boot
  BY <1>15, BootKeeps
<1>16. CASE UNCHANGED vars
  <2>1. TypeOK'
    BY <1>16 DEF IInv, TypeOK, vars
  <2> QED BY <1>16, <2>1, SettingsStay DEF vars
<1> QED
  BY <1>2, <1>3, <1>4, <1>5, <1>6, <1>7, <1>8, <1>9, <1>10, <1>11, <1>12, <1>13,
     <1>14, <1>15, <1>16 DEF Next, Serve

(* The inductive invariant of the word clock: what the chip keeps, what is
   shown and what is still to be saved belong together in every reachable
   state. *)
THEOREM Invariant == Spec => []IInv
<1> QED BY InitInv, NextInv, PTL DEF Spec

(* What save_byte has written to the chip is what the commands ordered, but
   for cells whose transfer failed: whatever fails and whenever the watchdog
   bites. *)
THEOREM Kept == Spec => []KeptAsOrdered
<1>1. IInv => KeptAsOrdered
  BY DEF IInv
<1> QED BY <1>1, Invariant, PTL

(* What the clock shows, after any number of restarts too, is what the
   commands ordered or what the automatic has made of it, and the channels of
   a colour are mixed only after a fault. *)
THEOREM Shows == Spec => []ShownAsOrdered
<1>1. IInv => ShownAsOrdered
  BY DEF IInv, ShownInv, AlikeInv, Alike, ShownAsOrdered
<1> QED BY <1>1, Invariant, PTL
-----------------------------------------------------------------------------
(* The clock moves by order: arithmetic of a day of any number of hours. *)
LEMMA Remainder ==
  ASSUME NEW n \in Nat \ {0}
  PROVE  /\ \A a \in 0 .. n - 1 : a % n = a
         /\ \A a \in n .. 2 * n - 1 : a % n = a - n
         /\ \A a \in (-n) .. -1 : a % n = a + n
<1>1. \A a \in 0 .. n - 1 : a % n = a
  BY SMT
<1>2. \A a \in n .. 2 * n - 1 : a % n = a - n
  BY SMT
<1>3. \A a \in (-n) .. -1 : a % n = a + n
  BY SMT
<1> QED BY <1>1, <1>2, <1>3

LEMMA Turned ==
  ASSUME NEW a \in Int, -Hours <= a, a < 2 * Hours
  PROVE  a % Hours = IF a < 0 THEN a + Hours ELSE IF a < Hours THEN a ELSE a - Hours
<1>1. Hours \in Nat \ {0}
  BY ClockAssumption
<1>2. CASE a < 0
  <2>1. a \in (-Hours) .. -1
    BY <1>1, <1>2
  <2> QED BY <1>1, <1>2, <2>1, Remainder
<1>3. CASE 0 <= a /\ a < Hours
  <2>1. a \in 0 .. Hours - 1
    BY <1>1, <1>3
  <2> QED BY <1>1, <1>3, <2>1, Remainder
<1>4. CASE Hours <= a
  <2>1. a \in Hours .. 2 * Hours - 1 /\ ~(a < 0) /\ ~(a < Hours)
    BY <1>1, <1>4
  <2> QED BY <1>1, <2>1, Remainder
<1> QED BY <1>1, <1>2, <1>3, <1>4

LEMMA StepTurns ==
  ASSUME NEW r \in 0 .. Hours - 1, NEW command
  PROVE  \E step \in {1, Hours - 1} :
           Stepped(command, r) = IF r + step < Hours THEN r + step ELSE r + step - Hours
<1> DEFINE step == IF command = "h+" THEN 1 ELSE Hours - 1
<1>1. Hours \in Nat \ {0} /\ step \in {1, Hours - 1} /\ Stepped(command, r) = (r + step) % Hours
  BY ClockAssumption DEF Stepped
<1> HIDE DEF step
<1>2. (r + step) % Hours = IF r + step < Hours THEN r + step ELSE r + step - Hours
  BY <1>1, Turned
<1> QED BY <1>1, <1>2

LEMMA StepMoves ==
  ASSUME NEW r \in 0 .. Hours - 1, NEW command
  PROVE  (Stepped(command, r) - r) % Hours \in {0, 1, Hours - 1}
<1>1. PICK step \in {1, Hours - 1} :
           Stepped(command, r) = IF r + step < Hours THEN r + step ELSE r + step - Hours
  BY StepTurns
<1>2. PICK d : d = Stepped(command, r) - r
  OBVIOUS
<1>3. Hours \in Nat \ {0} /\ (d = step \/ d = step - Hours)
  BY <1>1, <1>2, ClockAssumption
<1>4. d \in Int /\ -Hours <= d /\ d < 2 * Hours
  BY <1>3
<1>5. d % Hours = IF d < 0 THEN d + Hours ELSE IF d < Hours THEN d ELSE d - Hours
  BY <1>4, Turned
<1>6. PICK m : m = d % Hours
  OBVIOUS
<1>7. m \in {0, 1, Hours - 1}
  BY <1>3, <1>5, <1>6
<1> QED BY <1>2, <1>6, <1>7

LEMMA StepFromLocalMoves ==
  ASSUME NEW r \in 0 .. Hours - 1, NEW a \in 0 .. Hours - 1, NEW l, l = (r + a) % Hours, NEW command
  PROVE  (Stepped(command, l) - r) % Hours \in {0, 1, Hours - 1, a + 1, a - 1}
<1>1. Hours \in Nat \ {0}
  BY ClockAssumption
<1>2. (r + a) % Hours = IF r + a < Hours THEN r + a ELSE r + a - Hours
  BY <1>1, Turned
<1>3. l \in 0 .. Hours - 1 /\ (l = r + a \/ l = r + a - Hours)
  BY <1>1, <1>2
<1>4. PICK step \in {1, Hours - 1} :
           Stepped(command, l) = IF l + step < Hours THEN l + step ELSE l + step - Hours
  BY <1>3, StepTurns
<1>5. PICK d : d = Stepped(command, l) - r
  OBVIOUS
<1>6. d \in Int /\ -Hours <= d /\ d < Hours
  BY <1>1, <1>3, <1>4, <1>5
<1>7. d % Hours = IF d < 0 THEN d + Hours ELSE d
  BY <1>1, <1>6, Turned
<1>8. PICK m : m = d % Hours
  OBVIOUS
<1>9. m \in Int /\ 0 <= m /\ m < Hours /\ (m = d \/ m = d + Hours)
  BY <1>1, <1>6, <1>7, <1>8
<1>10. CASE step = 1
  <2>1. d \in {a + 1, a + 1 - Hours, a + 1 - 2 * Hours}
    BY <1>1, <1>3, <1>4, <1>5, <1>10
  <2>2. m \in {0, a + 1}
    BY <1>1, <1>9, <2>1
  <2> QED BY <1>5, <1>8, <2>2
<1>11. CASE step = Hours - 1
  <2>1. d \in {a - 1 + Hours, a - 1, a - 1 - Hours}
    BY <1>1, <1>3, <1>4, <1>5, <1>11
  <2>2. m \in {Hours - 1, a - 1}
    BY <1>1, <1>9, <2>1
  <2> QED BY <1>5, <1>8, <2>2
<1> QED BY <1>4, <1>10, <1>11

(* Until the first fault the program holds local time when it takes a command,
   or, after a button, the universal time it has just written. *)
HeldInv == faults = 0 /\ pc = "loop" => time \in {rtc, Local}

LEMMA InitHeld == Init => HeldInv
<1> SUFFICES ASSUME Init PROVE HeldInv
  OBVIOUS
<1> QED BY DEF Init, HeldInv

LEMMA NextHeld == TypeOK /\ HeldInv /\ [Next]_vars => HeldInv'
<1> SUFFICES ASSUME TypeOK, HeldInv, [Next]_vars, faults' = 0, pc' = "loop"
             PROVE  time' \in {rtc', (rtc' + (set.zone' % Hours)) % Hours}
  BY DEF HeldInv, Local, Ahead
<1>1. faults \in Nat /\ ~Fault
  BY ClockAssumption DEF TypeOK, Fault, Refused
<1>2. CASE time' = Local /\ rtc' = rtc /\ set'.zone = set.zone
  BY <1>2 DEF Local, Ahead
<1>3. CASE pc = "loop" /\ time' = time /\ rtc' = rtc /\ faults' = faults /\ set'.zone = set.zone
  BY <1>3 DEF HeldInv, Local, Ahead
<1>4. CASE Receive \/ SunMoves \/ UNCHANGED vars
  BY <1>3, <1>4 DEF Receive, SunMoves, vars
<1>5. CASE ServePlain \/ Save \/ ServeReboot \/ ServeWait \/ EndMode \/ ServeAdjust \/ ServeSet
  BY <1>5 DEF ServePlain, Save, ServeReboot, ServeWait, EndMode, ServeAdjust, ServeSet
<1>6. CASE EndServe
  BY <1>1, <1>2, <1>6 DEF EndServe
<1>7. CASE Second
  <2>1. set' \in Automatic => set'.zone = set.zone
    BY DEF TypeOK, Settings, Automatic
  <2> QED BY <1>1, <1>2, <1>7, <2>1 DEF Second
<1>8. CASE Button
  <2>1. pc' # "hung" => \E write \in {0, 1} : Refused(write) /\ Write(write) /\ time' = Stepped("h+", Universal)
    BY <1>8 DEF Button
  <2>2. PICK write \in {0, 1} : Refused(write) /\ Write(write)
    BY <2>1
  <2>3. write = 0
    BY <1>1, <2>2 DEF Refused
  <2> QED BY <2>2, <2>3 DEF Write
<1>9. CASE Starve
  BY <1>9 DEF Starve
<1>10. CASE Boot
  BY <1>1, <1>10 DEF Boot, Local, Ahead
<1> QED BY <1>4, <1>5, <1>6, <1>7, <1>8, <1>9, <1>10 DEF Next, Serve

Orderly ==
  LET moved == (rtc' - rtc) % Hours
  IN  \/ moved \in {0, 1, Hours - 1}
      \/ box = "u" /\ rtc' = 0
      \/ faults' > faults /\ (faults' > 1 \/ moved \in {Ahead + 1, Ahead - 1})

LEMMA StepIsOrderly == TypeOK /\ HeldInv /\ [Next]_vars => Orderly
<1> SUFFICES ASSUME TypeOK, HeldInv, [Next]_vars PROVE Orderly
  OBVIOUS
<1>1. rtc \in 0 .. Hours - 1 /\ Ahead \in 0 .. Hours - 1 /\ Hours \in Nat \ {0} /\ faults \in Nat
  BY LocalInDay, ClockAssumption DEF TypeOK, Ahead, Settings
<1>2. CASE rtc' = rtc
  <2>1. (rtc' - rtc) % Hours = 0
    BY <1>1, <1>2, Remainder
  <2> QED BY <2>1 DEF Orderly
<1>3. ASSUME NEW command, rtc' = Stepped(command, rtc)
      PROVE  Orderly
  BY <1>1, <1>3, StepMoves DEF Orderly
<1>4. ASSUME NEW command, rtc' = Stepped(command, time), pc = "loop",
             NEW n \in {1, 2}, faults' = faults + n
      PROVE  Orderly
  <2>1. CASE faults > 0
    BY <1>1, <1>4, <2>1 DEF Orderly
  <2>2. CASE time = rtc
    BY <1>3, <1>4, <2>2
  <2>3. CASE time = Local
    <3>1. (rtc' - rtc) % Hours \in {0, 1, Hours - 1, Ahead + 1, Ahead - 1}
      BY <1>1, <1>4, <2>3, StepFromLocalMoves DEF Local
    <3> QED BY <1>1, <1>4, <3>1 DEF Orderly
  <2> QED BY <1>1, <1>4, <2>1, <2>2, <2>3 DEF HeldInv
<1>5. CASE ServeAdjust
  <2>1. PICK read \in {0, 1}, write \in {0, 1} :
             /\ Refused(read + write) /\ Write(write)
             /\ time' = Stepped(box, IF read = 1 THEN time ELSE Universal)
    BY <1>5 DEF ServeAdjust
  <2>2. CASE rtc' = time' /\ read = 0
    BY <1>3, <2>1, <2>2 DEF Universal
  <2>3. CASE rtc' = time' /\ read = 1
    <3>1. pc = "loop" /\ rtc' = Stepped(box, time)
      BY <1>5, <2>1, <2>3 DEF ServeAdjust
    <3>2. faults' = faults + 1 \/ faults' = faults + 2
      BY <1>1, <2>1, <2>3 DEF Refused
    <3> QED BY <1>4, <3>1, <3>2
  <2> QED BY <1>2, <2>1, <2>2, <2>3 DEF Write
<1>6. CASE ServeSet
  BY <1>2, <1>6 DEF ServeSet, Write, Orderly
<1>7. CASE Button
  BY <1>2, <1>3, <1>7 DEF Button, Write, Universal
<1>8. CASE ~ServeAdjust /\ ~ServeSet /\ ~Button
  <2>1. rtc' = rtc
    BY <1>8 DEF Next, Serve, Receive, SunMoves, ServePlain, Save, ServeReboot, ServeWait, EndMode,
                EndServe, Second, Starve, Boot, vars
  <2> QED BY <1>2, <2>1
<1> QED BY <1>5, <1>6, <1>7, <1>8

(* No command, button, restart or sequence of them moves the clock by more
   than the hour it is ordered to move; the first refused transfer costs the
   zone at most, for a day and a zone of any number of hours. *)
THEOREM MovesByOrder == Spec => ClockMovesByOrder
<1>1. Init => HeldInv
  BY InitHeld
<1>2. IInv => TypeOK
  BY DEF IInv
<1>3. TypeOK /\ HeldInv /\ [Next]_vars => HeldInv'
  BY NextHeld
<1>4. Spec => []HeldInv
  BY <1>1, <1>2, <1>3, Invariant, PTL DEF Spec
<1>5. TypeOK /\ HeldInv /\ [Next]_vars => [Orderly]_vars
  BY StepIsOrderly
<1>6. Spec => [][Orderly]_vars
  BY <1>2, <1>4, <1>5, Invariant, PTL DEF Spec
<1> QED BY <1>6 DEF ClockMovesByOrder, Orderly
=============================================================================
