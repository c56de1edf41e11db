SPECIFICATION Spec
CONSTANTS
  p = p
  o = o
  e1 = e1
  q = q
  Primary = {p}
  Overflow = {o}
  Endpoints = {e1}
  NoCalc = NoCalc
  Unit = 2
  ThresholdPct = 80
  MaxCalcs = 2
  BuildFails = FALSE
  StartFails = FALSE
INVARIANTS OverflowUsed
CHECK_DEADLOCK FALSE
