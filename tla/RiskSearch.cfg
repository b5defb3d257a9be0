SPECIFICATION Spec
CONSTANTS
  Instances <- MCInstances
  Rules <- MCRules
  LegBounds = {2, 4}
  Disruptions = {0, 3, 6}
  NumDraws = 3
INVARIANTS PrunedIsCovered JourneysReplay ExactWhereSupported SeparatingLegReverses
CHECK_DEADLOCK FALSE
