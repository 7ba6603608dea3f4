CONSTANTS
  N = 3
  BlockMaxClsLim = 3
  BlockOccLim = 3
  Sessions <- AllSessions
SPECIFICATION SpecSat
INVARIANTS ValuesFresh ReplyRight
PROPERTIES Implements SolveReturns
CHECK_DEADLOCK FALSE
