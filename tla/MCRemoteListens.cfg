\* Whether the state LISTEN means listening.
SPECIFICATION Spec
CONSTANTS
  N = 4
  Null = Null
INVARIANT ListensInListen
CHECK_DEADLOCK FALSE
