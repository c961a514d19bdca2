SPECIFICATION Spec
CONSTANTS
  a = a
  b = b
  empty = empty
  x = x
  k1 = k1
  k2 = k2
  None = None
  Counter = {a, b}
  Persistent = {a, b}
  Runner = {a}
  Model = {"small", "large"}
  Text = {empty, x}
  Empty = empty
  Config = {k1, k2}
  Size <- MCSize
  CacheSize = 1
  MaxRetries = 1
INVARIANTS
  TypeOK
  CountsAreRight
  AttemptsAccounted
PROPERTY IsolationSealed
