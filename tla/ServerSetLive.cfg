SPECIFICATION MesosFairSpec
CONSTANTS
  e1 = e1
  e2 = e2
  Absent = Absent
  Nodes = {1, 2}
  Endpoints = {e1, e2}
  MayServe <- AnyEndpoint
  Accepted = {1, 2}
  MaxPaths = 1
  MaxErrors = 1
  CanDelete = TRUE
  CanStop = TRUE
INVARIANTS LeaderServed
PROPERTIES LiveNodeServed DepartedUnlessDeleted LeaderElected
CHECK_DEADLOCK FALSE
