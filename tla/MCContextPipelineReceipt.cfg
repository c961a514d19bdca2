SPECIFICATION Spec
CONSTANTS
  m1 = m1
  m2 = m2
  bad = bad
  granted = granted
  None = None
  Message <- MCMessage
  Malformed = {bad}
  Name = {granted}
  Grants <- NumberGrant
  Memory <- MCMemory
  Task <- MCTask
  Call <- MCCall
  Tokens <- MCTokens
  StartTurn = 1
  MaxSteps = 3
INVARIANT ReceiptIsNoPermission
