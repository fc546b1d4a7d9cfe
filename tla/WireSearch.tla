----------------------------- MODULE WireSearch -----------------------------
(***************************************************************************)
(* One measurement of a radio temperature node (rfm12-tiny2313): the       *)
(* search for the devices on the 1-wire bus, which finds one of them per   *)
(* pass, and a frame for each temperature sensor found.  A device is its   *)
(* address, a sequence of bits, sent lowest bit first.  Devices may come   *)
(* and go at any moment.                                                   *)
(***************************************************************************)
EXTENDS Integers, Sequences, FiniteSets, Functions

CONSTANTS
  Bits,        \* the length of an address, 64 in fact
  Sensors,     \* the addresses of temperature sensors
  MaxChanges   \* how often devices come and go in a measurement

Addresses == [1 .. Bits -> {0, 1}]
LAST_DEVICE == 0
SEARCH_FIRST == 255
PRESENCE_ERR == 255
DATA_ERR == 254

VARIABLES
  bus,               \* the devices on the bus
  i, active,         \* of a pass: the bits still to come, the devices that still answer
  id, diff, next_diff,
  searching,
  frames,            \* what has been sent
  stayed, changes    \* history: the devices that were there all the time

pass == <<i, active, id, next_diff>>
vars == <<bus, pass, diff, searching, frames, stayed, changes>>

Init ==
  /\ bus \in SUBSET Addresses /\ stayed = bus /\ changes = 0
  /\ i = 0 /\ active = {} /\ next_diff = LAST_DEVICE
  /\ id = [k \in 1 .. Bits |-> 1]   \* not initialised, and not used by a first pass
  /\ diff = SEARCH_FIRST /\ searching = TRUE /\ frames = << >>

Abort(error) ==
  /\ diff' = error /\ searching' = FALSE /\ frames' = Append(frames, error)

(* w1_rom_search *)
Begin ==
  /\ searching /\ i = 0
  /\ IF bus = {} THEN Abort(PRESENCE_ERR) /\ UNCHANGED pass
     ELSE /\ i' = Bits /\ active' = bus /\ next_diff' = LAST_DEVICE
          /\ UNCHANGED <<id, diff, searching, frames>>
  /\ UNCHANGED <<bus, stayed, changes>>

Branch_AllOnes(last) == diff > i \/ last = 1
Branch_Forgets(last) == diff > i

\* The bit chosen where devices differ, given the last pass's.
Branch(last) == diff > i \/ (last = 1 /\ diff # i)

\* A temperature is read from the device found.  The second condition of send's loop, a count of
\* devices, never fails.
Found(device, next) ==
  /\ diff' = next /\ searching' = (next # LAST_DEVICE)
  /\ frames' = IF device \in Sensors THEN Append(frames, device) ELSE frames

Bit ==
  /\ searching /\ i > 0
  /\ LET k == Bits - i + 1
         answers == {d[k] : d \in active}
         b == IF answers = {0, 1} THEN (IF Branch(id[k]) THEN 1 ELSE 0) ELSE CHOOSE a \in answers : TRUE
     IN  IF answers = {} THEN Abort(DATA_ERR) /\ i' = 0 /\ active' = {} /\ UNCHANGED <<id, next_diff>>
         ELSE /\ i' = i - 1 /\ id' = [id EXCEPT ![k] = b]
              /\ active' = IF i = 1 THEN {} ELSE {d \in active : d[k] = b}
              /\ next_diff' = IF answers = {0, 1} /\ b = 1 THEN i ELSE next_diff
              /\ IF i = 1 THEN Found(id', next_diff') ELSE UNCHANGED <<diff, searching, frames>>
  /\ UNCHANGED <<bus, stayed, changes>>

\* A device that comes has not heard the search command.
Come ==
  /\ searching /\ changes < MaxChanges /\ changes' = changes + 1
  /\ \E d \in Addresses \ bus : bus' = bus \cup {d}
  /\ UNCHANGED <<pass, diff, searching, frames, stayed>>

Go ==
  /\ searching /\ changes < MaxChanges /\ changes' = changes + 1
  /\ \E d \in bus : bus' = bus \ {d} /\ active' = active \ {d} /\ stayed' = stayed \ {d}
  /\ UNCHANGED <<i, id, diff, next_diff, searching, frames>>

\* The next measurement, WDTcounter having counted up.
Again ==
  /\ ~searching /\ searching' = TRUE
  /\ diff' = SEARCH_FIRST /\ frames' = << >>
  /\ stayed' = bus /\ changes' = 0
  /\ UNCHANGED <<bus, pass>>

Next == Begin \/ Bit \/ Come \/ Go \/ Again

Spec == Init /\ [][Next]_vars /\ WF_vars(Begin \/ Bit)

-----------------------------------------------------------------------------
Reported == {frames[n] : n \in 1 .. Len(frames)}

(* A measurement that ends without an error has reported every sensor that
   was there all the time, also when one device has come or gone meanwhile;
   when none has, each sensor exactly once. *)
AllFound ==
  ~searching /\ diff = LAST_DEVICE =>
    /\ changes <= 1 => stayed \cap Sensors \subseteq Reported
    /\ changes = 0 => IsInjective(frames) /\ Reported = bus \cap Sensors

(* A measurement comes to an end although the loop's count of devices never
   does: devices that come and go a few times cannot keep the search going. *)
MeasurementEnds == searching ~> ~searching
=============================================================================
