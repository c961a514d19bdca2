SPECIFICATION FairSpec
CONSTANTS
  m1 = m1
  m2 = m2
  bad = bad
  granted = granted
  None = None
  Message <- MCMessage
  Malformed = {bad}
  Name = {granted}
  Grants <- OneGrant
  Memory <- MCMemory
  Task <- MCTask
  Call <- MCCall
  Tokens <- MCTokens
  StartTurn = 1
  MaxSteps = 3
INVARIANTS
  TypeOK
  PromptComplete
  OneActionPerStep
  OverflowReported
  EvaluatorAgrees
PROPERTY EveryRunEnds
