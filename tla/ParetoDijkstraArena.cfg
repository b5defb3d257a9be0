SPECIFICATION Spec
CONSTANTS
  NumNodes = 3
  Graphs <- MCGraphs
  Configs <- MCConfigs
  Departures = {0}
  Capacity = 3
  MaxRuns = 2
  Objectives = {"CrowdExposure"}
  Budgets = {1}
  Windows = {4}
  Lambdas = {0}
  Wide = {}
  MaxEdges = 3
  MaxWalks = 1
INVARIANT ArenaBalanced
PROPERTY RunEnds
CHECK_DEADLOCK FALSE
