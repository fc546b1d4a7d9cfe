\* Two sessions with two faults at any moment: commands for the settings, and
\* commands and buttons that set the clock.
SPECIFICATION Spec
CONSTANTS
  Colours = {"red", "green"}
  Night = "night"
  Twilight = "twilight"
  Day = "day"
  Furthest = 2
  Zone = 2
  Hours = 5
  Commands = {"green", "c", "o", "b", "b+", "h+", "h-", "u", "p", "r", "z+", "z-"}
  Sessions = {{"green", "c", "o", "b", "p", "r"}, {"h+", "h-", "u", "p", "z+", "z-", "button"}}
  MaxFaults = 2
INVARIANTS KeptAsOrdered ShownAsOrdered
PROPERTIES LinesServed ClockMovesByOrder
