\* The lamp with broken visits, silent devices, resets and a clock that refuses.
SPECIFICATION FaultsSpec
CONSTANTS
  TimeoutLimit = 1
  MaxAway = 2
  Hand1 = {"none"}
  Hand2 = {"far", "near", "none"}
  HandDown = {"none"}
  Keys <- NoKeys
  SleepVisits = 1
  ErrorLimit = 1
  Dead = {}
  Faults = {"silent"}
  MaxFaults = 1
INVARIANTS OneCommandBehind ResetsForCause
PROPERTIES SwitchedByOrder CommandsOnce
