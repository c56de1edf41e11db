SPECIFICATION TimedFairSpec
CONSTANTS
  Kinds = {"delay", "ramp"}
  Seconds = 3
  RampDelay = 2
  RampSeconds = 4
  Frequency = 2
  StartedAt = 2
  MaxSetBacks = 2
PROPERTIES NeverFalls FullInTheEnd
CHECK_DEADLOCK FALSE
