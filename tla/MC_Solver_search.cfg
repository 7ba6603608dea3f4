CONSTANTS
  NumArgs = 4
  Frameworks <- SearchFrameworks
  Queries <- QueryOne
  MaxTasks = 8
  Threads = {th1, th2}
  NoThread = NoThread
  ByReference = FALSE
SPECIFICATION FairSpec
INVARIANTS TypeOK AnswerCorrect RejectionSound SearchInvariant RefutationCovered
PROPERTIES EnumerationAdvances KeepsPromise
