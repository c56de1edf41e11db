SPECIFICATION FairSpec
CONSTANTS
  n1 = n1
  n2 = n2
  e1 = e1
  e2 = e2
  Absent = Absent
  Malformed = Malformed
  Nodes = {n1, n2}
  Endpoints = {e1, e2}
  MayServe <- OwnOrMalformed
  Accepted = {n1, n2}
  MaxPaths = 1
  MaxJoins = 1
  MayFail = FALSE
PROPERTIES DepartedDropped
CHECK_DEADLOCK FALSE
