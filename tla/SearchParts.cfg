SPECIFICATION PartsSpec
CONSTANTS
  Capacity = 3
  Node = {n1, n2}
  Time = {1, 2}
  Cost = {0, 1, 2}
  Destinations <- MCDestinations
  Graphs <- MCGraphs
  Configs <- MCConfigs
  Origin = 0
  Target = 1
  Horizon = 4
  MaxDepartures = 3
  Times = {1, 2, 4}
  Rides = {1, 4}
  Weights = {0, 2}
  Budgets = {1, 2}
  Windows = {1, 4}
  Lambdas = {0, 1}
INVARIANTS EachSlotOnce ThrowsOnlyWhenFull LiveSlotsAreLabels
PROPERTIES BumpIsHighWater ImplementsFrontier SelectionStable FIFOWithoutOvertaking
CHECK_DEADLOCK FALSE
