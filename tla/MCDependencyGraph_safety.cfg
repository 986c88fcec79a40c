CONSTANTS
  Configs <- mixed
  Pools <- pools
  Bytes <- bytes
  Spans <- spans
  ObsLists <- observations
  DepIDs = {d1, d2}
  Records = {r1}
  Frags = {f1, f2}
  Complete = complete
  MaxDepth = 1
  MaxCmds = 3
  MaxNodes = 5
  MaxEvents = 4
  MaxRequests = 1
SPECIFICATION Spec
INVARIANTS TypeOK ListsExact MemoryDepsSound FieldDepsSound ForwardDepsSound LiveFaithful
CHECK_DEADLOCK FALSE
