CONSTANTS
  N = 5
  Chrono = 0
  Otfs = FALSE
  LuckyFormulas <- ForLuck
  Assumable <- AssumeSets
  Constraints <- ConstraintSets
  ProbeFormulas <- ForProbing
  MaxRounds = 2
  VivifyFormulas <- ForVivifying
  VivifyInst = TRUE
SPECIFICATION FairSpec
INVARIANTS LuckyHarmless FormulaKept RootPropagated ProbingJustified VivifyTrailRight
PROPERTY RoundEnds
CHECK_DEADLOCK FALSE
