SPECIFICATION FairSpec
CONSTANTS
  c1 = c1
  c2 = c2
  c3 = c3
  Configs = {c1, c2}
  NoFile = NoFile
  Truncated = Truncated
  Faults = {"render"}
  MaxFaults = 1
PROPERTIES SettlesAnyway
