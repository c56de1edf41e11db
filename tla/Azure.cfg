SPECIFICATION AzureFairSpec
CONSTANTS
  gatewayJob = gatewayJob
  lbJob = lbJob
  g1 = g1
  g2 = g2
  lb = lb
  p1 = p1
  p2 = p2
  q = q
  Jobs = {gatewayJob, lbJob}
  Balancers = {g1, g2, lb}
  Pools = {p1, p2, q}
  PoolsOf <- TwoJobsPools
  FirstPool <- TwoJobsFirst
  Configured <- TwoJobsConfigured
  Lbs <- TwoJobsLbs
  PerformCheck = {gatewayJob}
INVARIANTS RegisteredUnlessDisturbed
PROPERTIES LostIsNoticed
