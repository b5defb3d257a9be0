SPECIFICATION GateSpec
CONSTANTS
  NumStops = 4
  UINT32_MAX = 99
  kMaxComponentDegree = 9
  synthetic_crowd_weight <- MCWeights
  Feeds <- MCFeeds
  Objectives = {"TransferCount", "CrowdExposure"}
  Timetables <- MCTimetables
  Departures = {0, 1}
  max_rounds = 2
  MaxQueries = 2
  MaxTrips = 3
  MaxRecords = 4
INVARIANTS ScratchClean LayersExact MarksAreImprovements EngineAgrees
CHECK_DEADLOCK FALSE
