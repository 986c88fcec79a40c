SPECIFICATION FairSpec
CONSTANTS
  c1 = c1
  c2 = c2
  k1 = k1
  k2 = k2
  k3 = k3
  k4 = k4
  top = top
  leaf = leaf
  blob = blob
  Nil = Nil
  Ids = {top, blob}
  Callers = {c1}
  Builds = {k1, k2, k3, k4}
  Resolvables <- MCTop
  BlobFuncs = {blob}
  Deps <- MCDeps
  MayFail = {blob}
  MaxAbandoned = 1

PROPERTIES CallsReturn AbandonedBuildsEnd
