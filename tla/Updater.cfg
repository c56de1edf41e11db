SPECIFICATION FairSpec
CONSTANTS
  c1 = c1
  c2 = c2
  c3 = c3
  Configs = {c1, c2, c3}
  NoFile = NoFile
  Truncated = Truncated
  Faults = {"render", "backup", "revert", "open", "write", "restart", "setup", "nginx", "crash"}
  MaxFaults = 3
INVARIANTS NothingForgotten CompleteCopyKept
PROPERTIES AllOrNothing SettlesOnWanted
