CONSTANTS
  N = 4
  ElimBound = 0
  ElimClsLim = 100
  ElimOccLim = 100
  ElimBackward = TRUE
  BlockMaxClsLim = 100
  BlockOccLim = 100
  Sessions <- AllSessions
SPECIFICATION Spec
INVARIANTS TypeOK Reconstructs OriginalImplies VariablesRight
CHECK_DEADLOCK FALSE
