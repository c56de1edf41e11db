SPECIFICATION FairSpec
CONSTANTS
  HealthyThreshold = 2
  UnhealthyThreshold = 3
  Escapes = TRUE
  CanStop = TRUE
INVARIANTS ShareSignaled
PROPERTIES FollowsHysteresis ShareFollowsEndpoint StoppedEnds
