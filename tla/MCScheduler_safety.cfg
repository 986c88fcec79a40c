SPECIFICATION Spec
CONSTANTS
  j1 = j1
  j2 = j2
  j3 = j3
  urgent = urgent
  slow = slow
  slow2 = slow2
  gated = gated
  gate = gate
  None = None
  Jobs = {j1, j2, j3}
  Batches = {gated, slow}
  Gates = {gate}
  BatchOf <- MCMixed
  Kind <- MCKind
  Priority <- MCPriority
  PendingCap = 2
  ReadyCap = 2
  Failure = "late"
  Again = {j2}
  CanCancel = TRUE
  CanStop = TRUE
CHECK_DEADLOCK FALSE
INVARIANTS TypeOK QueueLenCounts NoJobLost FirstAnswerFits NeverEarly
