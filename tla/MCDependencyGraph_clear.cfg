CONSTANTS
  Configs <- fragments
  Pools <- pools
  Bytes <- bytes
  Spans <- spans
  ObsLists <- observations
  DepIDs = {d1}
  Records = {r1}
  Frags = {f1, f2}
  Complete = complete
  MaxDepth = 0
  MaxCmds = 3
  MaxNodes = 3
  MaxEvents = 3
  MaxRequests = 1
SPECIFICATION Spec
INVARIANT WholeWritesSeen
CHECK_DEADLOCK FALSE
