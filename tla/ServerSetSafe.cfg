SPECIFICATION Spec
CONSTANTS
  n1 = n1
  n2 = n2
  e1 = e1
  e2 = e2
  Absent = Absent
  Nodes = {n1}
  Endpoints = {e1, e2}
  MayServe <- ReusedName
  Accepted = {n1}
  MaxPaths = 2
  MaxErrors = 1
  CanDelete = TRUE
  CanStop = TRUE
INVARIANTS NoOrphanMember MemberServed
PROPERTIES StartUndisturbed MembersFollowSnapshots
CHECK_DEADLOCK FALSE
