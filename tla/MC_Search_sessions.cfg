CONSTANTS
  N = 5
  Chrono = 1
  Otfs = TRUE
  Sessions <- AllSessions
  Ilb = TRUE
  IlbAssumptions = TRUE
SPECIFICATION FairSpec
INVARIANTS TypeOK ClausesRight PropagationComplete ReasonsJustify AnswersRight
PROPERTY Terminates
CHECK_DEADLOCK FALSE
