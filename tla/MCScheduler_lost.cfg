SPECIFICATION FairSpec
CONSTANTS
  j1 = j1
  j2 = j2
  j3 = j3
  urgent = urgent
  slow = slow
  slow2 = slow2
  gated = gated
  gate = gate
  None = None
  Jobs = {j1, j2}
  Batches = {urgent, slow}
  Gates = {}
  BatchOf <- MCPair
  Kind <- MCKind
  Priority <- MCPriority
  PendingCap = 2
  ReadyCap = 4
  Failure = "never"
  Again = {}
  CanCancel = FALSE
  CanStop = FALSE
CHECK_DEADLOCK FALSE
PROPERTY CallsAnswered
