\* The driver with buffers of two bytes; limits of up to four ticks counted
\* in halves of two; seven files of up to three pages; two frames of one node,
\* one of them damaged or cut.
SPECIFICATION MCSpec
CONSTANTS
  BufferSize = 2
  Bytes = {0, 1, 2, 3}
  Byte = 2
  Times <- MCTimes
  DefaultOn = 4
  DefaultOff = 1
  MaxTicks = 3
  PageSize = 4
  LastPage = 2
  Files <- MCFiles
  Garbled = {1, 4}
  Measurements <- MCMeasurements
  MaxFrames = 2
  MaxNodes = 1
  MaxDamaged = 1
  Changes = {1}
  FreeConns = 1
INVARIANTS LoadsOrStops AnswersAreMeasured
PROPERTIES ActsLikeEeprom TimesAsOrdered
