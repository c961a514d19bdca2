SPECIFICATION Spec
CONSTANTS
  s1 = s1
  s2 = s2
  file = file
  rule = rule
  None = None
  Scale = 2
  Memory <- MCMemory
  Snapshot <- MCSnapshot
  Request <- MCRequest
CHECK_DEADLOCK FALSE
INVARIANTS
  TypeOK
  MandatoryWhole
  VersionsResolved
  NoSpuriousError
  NothingFromTheFuture
  GreedyPacking
  WindowContiguous
