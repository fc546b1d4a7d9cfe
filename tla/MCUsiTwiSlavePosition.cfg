\* usiTwiSlave.c: the check of a received position.
SPECIFICATION Spec
CONSTANTS
  BufferSize = 2
  Bytes = {0, 1, 2, 3}
PROPERTY PositionIsChecked
CHECK_DEADLOCK FALSE
