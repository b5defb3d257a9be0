SPECIFICATION Spec
CONSTANTS
  NumNodes = 3
  Graphs <- MCGraphs
  Configs <- MCConfigs
  Departures = {0}
  Capacity = 9
  MaxRuns = 1
  Objectives = {"CrowdExposure", "TransferCount"}
  Budgets = {1, 2}
  Windows = {1, 4}
  Lambdas = {0, 1}
  Wide <- MCWide
  MaxEdges = 4
  MaxWalks = 1
INVARIANTS SettledIsFinal NothingForgotten PredecessorExplains FixpointReached
INVARIANTS ExactFrontier RouteFrontier
PROPERTY SettledInOrder
CHECK_DEADLOCK FALSE
