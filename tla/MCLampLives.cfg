\* The lamp that serves its keys beside a dead sensor, and gets dark.
SPECIFICATION LivesSpec
CONSTANTS
  TimeoutLimit = 1
  MaxAway = 2
  Hand1 = {"near", "none"}
  Hand2 = {"none"}
  HandDown = {"none"}
  Keys <- OnOff
  SleepVisits = 1
  ErrorLimit = 1
  Dead = {"sensor2"}
  Faults = {}
  MaxFaults = 0
INVARIANT TypeOK
PROPERTIES NoKeyWaits GetsDark
