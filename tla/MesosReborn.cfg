SPECIFICATION MesosFairSpec
CONSTANTS
  e1 = e1
  e2 = e2
  Absent = Absent
  Nodes = {1}
  Endpoints = {e1, e2}
  MayServe <- OneEndpoint
  Accepted = {1}
  MaxPaths = 2
  MaxErrors = 0
  CanDelete = TRUE
  CanStop = FALSE
INVARIANTS LeaderServed
CHECK_DEADLOCK FALSE
