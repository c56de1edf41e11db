SPECIFICATION FairSpec
CONSTANTS
  c1 = c1
  c2 = c2
  fallback = fallback
  Commands = {c1, c2, fallback}
  Fallback = fallback
  NoFile = NoFile
  Truncated = Truncated
  Faults = {"template", "open", "write", "close", "kill", "gor", "crash"}
  MaxFaults = 4
INVARIANTS NothingForgotten OneKillPerChange
PROPERTIES SettlesOnWanted
