SPECIFICATION FairSpec
CONSTANTS
  n1 = n1
  n2 = n2
  e1 = e1
  e2 = e2
  Absent = Absent
  Nodes = {n1}
  Endpoints = {e1}
  MayServe <- OneEndpoint
  Accepted = {n1}
  MaxPaths = 1
  MaxErrors = 0
  CanDelete = TRUE
  CanStop = FALSE
PROPERTIES DepartedMemberDropped
CHECK_DEADLOCK FALSE
