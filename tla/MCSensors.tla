------------------------------ MODULE MCSensors ------------------------------
(***************************************************************************)
(* What measures: the distance sensor and its visitor; the sensor alone    *)
(* under a hand that moves as it likes; and a radio node's search for its  *)
(* temperature sensors.  These share no state: a behaviour is one of them. *)
(***************************************************************************)
EXTENDS SensorLink, Functions

CONSTANTS
  MaxVisits, GestureTimeout,   \* MaxVisits and TimeoutLimit of Gesture
  Bits, Thermometers, MaxChanges   \* Bits, Sensors and MaxChanges of WireSearch

ASSUME AloneAssumption == MaxVisits \in Nat /\ MaxVisits >= 4 /\ GestureTimeout \in Nat \ {0}

\* No address is as long as SEARCH_FIRST or an error says.
ASSUME AddressAssumption == Bits \in Nat \ {0} /\ Bits < 254

\* The addresses of temperature sensors; the two others are other devices'.
MCAddresses == [1 .. Bits -> {0, 1}] \ {[k \in 1 .. Bits |-> 0], [k \in 1 .. Bits |-> IF k = 2 THEN 1 ELSE 0]}

VARIABLES
  part,
  gesture, hand, visits,
  bus, i, active, id, diff, next_diff, searching, frames, stayed, changes

alone == <<gesture, hand, visits>>
search == <<bus, i, active, id, diff, next_diff, searching, frames, stayed, changes>>

G == INSTANCE Gesture WITH dev <- gesture, TimeoutLimit <- GestureTimeout
S == INSTANCE WireSearch WITH Sensors <- Thermometers

MCInit ==
  /\ part \in {"link", "gesture", "search"}
  /\ Init /\ G!Init
  /\ S!Init /\ (part # "search" => bus = {})

LinkStep == part = "link" /\ Next /\ UNCHANGED <<part, alone, search>>
GestureStep == part = "gesture" /\ G!Next /\ UNCHANGED <<part, vars, search>>
SearchStep == part = "search" /\ S!Next /\ UNCHANGED <<part, vars, alone>>

MCSpec ==
  /\ MCInit
  /\ [][LinkStep \/ GestureStep \/ SearchStep]_<<part, vars, alone, search>>
  /\ WF_vars(part = "link" /\ SensorPass)
  /\ WF_vars(part = "link" /\ Visit) /\ SF_vars(part = "link" /\ Acknowledge)
  /\ WF_alone(part = "gesture" /\ G!SensorPass)
  /\ WF_search(part = "search" /\ (S!Begin \/ S!Bit))

StateIsHistory == G!TypeOK /\ G!StateIsHistory
CommandMeansWave == G!CommandMeansWave
LightGoesOut == G!LightGoesOut

\* Every temperature sensor is found; a search of a part that does not run rests.
SearchFindsAll == S!AllFound

\* A measurement comes to an end.
MeasurementEnds == part = "search" => S!MeasurementEnds
=============================================================================
