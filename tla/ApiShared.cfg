SPECIFICATION ManagedSpec
CONSTANTS
  a = a
  b = b
  r2 = r2
  r1 = r1
  e1 = e1
  Names = {a, b}
  Requests = {r1}
  MaxSources = 2
  NoSource = NoSource
  MayFail = FALSE
  Endpoints = {e1}
INVARIANTS EndpointsReadable
CHECK_DEADLOCK FALSE
