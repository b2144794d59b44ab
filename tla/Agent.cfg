SPECIFICATION Spec
CONSTANTS
  Processors = {p1, p2}
  MaxChallenges = 2
  MaxConns = 2
  DegradedAt = 3
  UnhealthyAt = 5
  MaxTokens = 3
  HasNode = TRUE
  Tries = 2
  Scenarios <- MCScenarios
CHECK_DEADLOCK FALSE
INVARIANTS SignaturesMatch AuthenticatedBacked TokenIsOurs
PROPERTIES AuthenticatesAgain StatusFollows
