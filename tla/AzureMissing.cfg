SPECIFICATION AzureFairSpec
CONSTANTS
  gatewayJob = gatewayJob
  lbJob = lbJob
  g1 = g1
  g2 = g2
  lb = lb
  p1 = p1
  p2 = p2
  q = q
  Jobs = {gatewayJob}
  Balancers = {g1, g2, lb}
  Pools = {p1, p2, q}
  PoolsOf <- TwoJobsPools
  FirstPool <- TwoJobsFirst
  Configured <- GatewaysConfigured
  Lbs <- OneGatewayLbs
  PerformCheck = {gatewayJob}
PROPERTIES LostIsNoticed
