CONSTANTS
  Configs <- fragments
  Pools <- pools
  Bytes <- bytes
  Spans <- spans
  ObsLists <- observations
  DepIDs = {d1}
  Records = {r1}
  Frags = {f1, f2}
  Complete = complete
  MaxDepth = 0
  MaxCmds = 5
  MaxNodes = 5
  MaxEvents = 5
  MaxRequests = 1
SPECIFICATION Spec
INVARIANT ObjectDepsSound
CHECK_DEADLOCK FALSE
