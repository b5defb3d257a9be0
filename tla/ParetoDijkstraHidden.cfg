SPECIFICATION Spec
CONSTANTS
  NumNodes = 3
  Graphs <- MCGraphs
  Configs <- MCConfigs
  Departures = {0}
  Capacity = 9
  MaxRuns = 1
  Objectives = {"TransferCount"}
  Budgets = {2}
  Windows = {2}
  Lambdas = {0}
  Wide = {}
  MaxEdges = 4
  MaxWalks = 1
INVARIANT NothingHidden
CHECK_DEADLOCK FALSE
