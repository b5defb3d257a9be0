SPECIFICATION StudySpec
CONSTANTS
  NumStops = 5
  UINT32_MAX = 99
  kMaxComponentDegree = 4
  synthetic_crowd_weight <- MCWeights
  Feeds <- MCFeeds
  Objectives = {"TransferCount", "CrowdExposure"}
  route_of_trip <- MCRouteOfTrip
  WINDOW_START = 1
  WINDOW_END = 4
  haversine_m <- MCHaversine
  stop_name <- MCStopName
  HOURS_PER_DAY = 3
  SECONDS_PER_HOUR = 4
  ridership_name <- MCRidershipName
  aliases <- MCAliases
  CrowdFeeds <- MCCrowdFeeds
  RidershipFiles <- MCRidershipFiles
  CrowdConfigs <- MCCrowdConfigs
  SearchedFeeds <- MCSearchedFeeds
  SearchConfigs <- MCSearchConfigs
  MaxTrips = 3
  MaxRecords = 3
  MaxWalks = 5
INVARIANTS SameNetwork TripsNeverOvertake ClosureEstablished ClosedMeansShortest
INVARIANTS TopologyDescribesGraph StationsAreComponents CyclomaticCountsCycles
INVARIANTS SteepestFallIsAdjacent InterpolationKeepsFIFO AddedWalkNeverHurts ReachMatchesGraph
CHECK_DEADLOCK FALSE
