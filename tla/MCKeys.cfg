\* The infrared receiver and its visits; the settings under every sequence
\* of keys.
SPECIFICATION MCSpec
CONSTANTS
  Keys <- MCKeys
  Commands <- MCCommands
  SleepVisits = 1
INVARIANTS ObeysDisplay SettingsExact
PROPERTIES NoKeyLost KeysServed
