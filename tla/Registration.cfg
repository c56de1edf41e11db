SPECIFICATION FairSpec
CONSTANTS
  h1 = h1
  h2 = h2
  Hosts = {h1, h2}
  MaxNames = 2
  Kinds = {"elb", "elbv2", "route53"}
  MaxStarts = 2
  MaxFaults = 1
INVARIANTS RegisteredUnlessBlamed RemovedOnce
PROPERTIES SafetyNet
CHECK_DEADLOCK FALSE
