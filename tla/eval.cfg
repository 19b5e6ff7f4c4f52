SPECIFICATION FairSpec
CONSTANTS
  Scorers = {s1, s2}
  MaxConcurrency = 2
  MaxCases = 3
  MaxCalls = 2
CHECK_DEADLOCK FALSE
INVARIANTS SummaryComplete PassedIsHonest
PROPERTIES EvalReturns
