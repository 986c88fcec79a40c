SPECIFICATION FairSpec
CONSTANTS
  p1 = p1
  p2 = p2
  Replayers = {p1}
  MaxReplays = 2
  MaxConns = 1
  Faults = {"stream"}
  MaxFaults = 1
  SlowSetup = FALSE
CHECK_DEADLOCK FALSE
PROPERTY ReplaysEnd
