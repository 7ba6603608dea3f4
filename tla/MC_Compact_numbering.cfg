CONSTANTS
  N = 3
  ScoreLimit = 3
  ScoreUnit = 2
  ExtMax = 3
  Setups <- AllSetups
SPECIFICATION CSpec
INVARIANTS MeaningKept ReferencesKept DecidesBestVariable
CHECK_DEADLOCK FALSE
