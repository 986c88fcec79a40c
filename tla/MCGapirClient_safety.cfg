SPECIFICATION FairSpec
CONSTANTS
  p1 = p1
  p2 = p2
  Replayers = {p1, p2}
  MaxReplays = 2
  MaxConns = 3
  Faults = {"connect", "open", "stream", "crash", "ping"}
  MaxFaults = 2
  SlowSetup = FALSE
CHECK_DEADLOCK FALSE
INVARIANTS TypeOK OneConnection OneHeartbeat NoCrossTalk
 
