SPECIFICATION FairSpec
CONSTANTS
  p = p
  o = o
  e1 = e1
  q = q
  Primary = {p, q}
  Overflow = {o}
  Endpoints = {e1}
  NoCalc = NoCalc
  Unit = 2
  ThresholdPct = 80
  MaxCalcs = 2
  BuildFails = TRUE
  StartFails = TRUE
INVARIANTS NoLeakedCalculator ChangesSignaled WeightsFollowShares
PROPERTIES LateChecksInvisible ViewRendered
CHECK_DEADLOCK FALSE
