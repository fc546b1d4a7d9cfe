\* The hour of sunrise on the first of each month, in universal time.
SPECIFICATION Spec
CONSTANTS
  LastYear = 0
  Zones = {0}
INVARIANT SunriseAsTabulated
