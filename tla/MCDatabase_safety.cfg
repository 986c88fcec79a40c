SPECIFICATION Spec
CONSTANTS
  c1 = c1
  c2 = c2
  k1 = k1
  k2 = k2
  k3 = k3
  k4 = k4
  top = top
  leaf = leaf
  blob = blob
  Nil = Nil
  Ids = {top, leaf}
  Callers = {c1, c2}
  Builds = {k1, k2, k3, k4}
  Resolvables <- MCResolvables
  BlobFuncs = {}
  Deps <- MCDeps
  MayFail = {leaf}
  MaxAbandoned = 1
SYMMETRY MCSymmetry
INVARIANTS TypeOK WaitingCounts NoOrphanBuild CancelNotRemembered AnswersFinal
PROPERTIES ImplementsMemo ReplacedByAbandoned
