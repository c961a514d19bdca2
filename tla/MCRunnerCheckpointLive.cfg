SPECIFICATION LiveSpec
CONSTANTS
  i1 = i1
  i2 = i2
  a = a
  b = b
  c = c
  Runner = {r1}
  Reader = {q1}
  Identity = {i1}
  Run = {a, b, c}
  Plan <- OnePlan
  Interval = 2
  None = None
PROPERTIES
  LockReturned
  EventuallySummarised
