SPECIFICATION Spec
CONSTANTS
  Instances <- MCInstances
  Rules <- MCRules
  LegBounds = {2}
  Disruptions = {0}
  NumDraws = 2
INVARIANT StatewiseAlwaysSafe
CHECK_DEADLOCK FALSE
