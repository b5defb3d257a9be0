SPECIFICATION Spec
CONSTANTS
  UINT32_MAX = 99
  haversine_m <- MCHaversine
  Directories <- MCDirectories
  Missing = Missing
  MaxRows = 4
  Clock = {1, 8}
INVARIANTS ReferencesHold IndexNamesStop RowsAccounted
PROPERTIES BlanksExplained TimesInOrder
CHECK_DEADLOCK FALSE
