SPECIFICATION ManagedSpec
CONSTANTS
  a = a
  b = b
  e1 = e1
  r1 = r1
  r2 = r2
  Names = {a}
  Requests = {r1, r2}
  MaxSources = 3
  NoSource = NoSource
  MayFail = FALSE
  Endpoints = {e1}
INVARIANTS AddedCanBeRemoved
