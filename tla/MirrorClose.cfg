SPECIFICATION FairSpec
CONSTANTS
  c1 = c1
  c2 = c2
  fallback = fallback
  Commands = {c1, c2, fallback}
  Fallback = fallback
  NoFile = NoFile
  Truncated = Truncated
  Faults = {"close"}
  MaxFaults = 1
PROPERTIES SettlesAnyway
