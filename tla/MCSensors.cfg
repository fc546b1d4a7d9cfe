\* One sensor and its visits, with exactly-once light commands; the gesture
\* automaton under every movement of the hand; three address bits and one
\* change of the bus per measurement.
SPECIFICATION MCSpec
CONSTANTS
  TimeoutLimit = 5
  MaxAway = 4
  Hand = {"far", "near", "none"}
  MaxVisits = 4
  GestureTimeout = 3
  Bits = 3
  Thermometers <- MCAddresses
  MaxChanges = 1
INVARIANTS LinkInv StateIsHistory SearchFindsAll
PROPERTIES ExactlyOnce CommandsServed CommandMeansWave LightGoesOut MeasurementEnds
