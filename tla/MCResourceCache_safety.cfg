SPECIFICATION Spec
CONSTANTS
  ra = ra
  rb = rb
  rc = rc
  huge = huge
  Purged = Purged
  Junk = Junk
  VolatileTag = VolatileTag
  None = None
  Resources = {ra, rb, rc, huge}
  Size <- MCSize
  Lists <- MCLists
  HeapSize = 7
  Word = 32
  PrefetchPart = 2
  VolatileSizes = {1, 3, 5, 9}
  NDebugs = {TRUE, FALSE}
  CanClear = TRUE
CHECK_DEADLOCK FALSE
INVARIANTS TypeOK HandlesIntact BooksAgree MissServed
PROPERTIES OverlapOnlyByGrowth VolatileKept
