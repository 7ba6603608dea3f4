CONSTANTS
  NumArgs = 4
  Frameworks <- FourArgFrameworks
  Queries <- QueryOne
  MaxTasks = 8
  Threads = {th1, th2}
  NoThread = NoThread
  ByReference = TRUE
SPECIFICATION Spec
INVARIANT AnswerCorrect
