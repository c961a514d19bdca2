SPECIFICATION Spec
CONSTANTS
  i1 = i1
  i2 = i2
  a = a
  b = b
  c = c
  Runner = {r1, r2}
  Reader = {q1}
  Identity = {i1, i2}
  Run = {a, b, c}
  Plan <- MCPlan
  Interval = 2
  None = None
PROPERTY RefusedByRunner
