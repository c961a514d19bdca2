SPECIFICATION BothSpec
CONSTANTS
  Tolerance = 1
  Longest = 16
  Factor = 2
  Shortest = 2
  Rounds = 4
  MaxCalls = 3
  Rejected = Rejected
  None = None
  Counter <- MCCounter
  Target <- MCTarget
  Call <- MCCall
  Scenario <- MCScenario
  Tried <- MCTried
  End <- MCEnd
INVARIANTS
  MatchingExact
  VerdictExplained
  FitIsRight
CHECK_DEADLOCK FALSE
