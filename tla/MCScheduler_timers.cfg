SPECIFICATION FairSpec
CONSTANTS
  j1 = j1
  j2 = j2
  j3 = j3
  urgent = urgent
  slow = slow
  slow2 = slow2
  gated = gated
  gate = gate
  None = None
  Jobs = {j1, j2, j3}
  Batches = {slow, slow2}
  Gates = {}
  BatchOf <- MCTimers
  Kind <- MCKind
  Priority <- MCPriority
  PendingCap = 1
  ReadyCap = 2
  Failure = "early"
  Again = {}
  CanCancel = FALSE
  CanStop = FALSE
CHECK_DEADLOCK FALSE
INVARIANTS NeverEarly WakeupArmed
PROPERTY CallsAnswered
