SPECIFICATION Spec
CONSTANTS
  UINT32_MAX = 99
  haversine_m <- MCHaversine
  Directories <- MCDirectories
  Missing = Missing
  MaxRows = 2
  Clock = {1, 8}
INVARIANT TimedTripsFilled
CHECK_DEADLOCK FALSE
