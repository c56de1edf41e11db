SPECIFICATION ManagedFairSpec
CONSTANTS
  a = a
  b = b
  r1 = r1
  r2 = r2
  e1 = e1
  Names = {a, b}
  Requests = {r1, r2}
  MaxSources = 2
  NoSource = NoSource
  MayFail = TRUE
  Endpoints = {e1}
INVARIANTS OneStopper NoLostSource UnsharedCalculated
PROPERTIES ExpiresItself ExpiredUnlisted
