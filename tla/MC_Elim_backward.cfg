CONSTANTS
  N = 10
  ElimBound = 0
  ElimClsLim = 100
  ElimOccLim = 100
  ElimBackward = TRUE
  BlockMaxClsLim = 100
  BlockOccLim = 100
  Sessions <- Elimination
SPECIFICATION Spec
INVARIANTS Reconstructs
CHECK_DEADLOCK FALSE
