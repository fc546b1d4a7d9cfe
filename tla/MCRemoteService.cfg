\* Five threads: overlapping attempts, incoming connections, losses, and the
\* end of the activity at any moment.
SPECIFICATION Spec
CONSTANTS
  N = 5
  Null = Null
INVARIANTS ConnectedHasThread OneConnection WholeCommands
PROPERTIES KnownLasts AttemptsEnd
CHECK_DEADLOCK FALSE
