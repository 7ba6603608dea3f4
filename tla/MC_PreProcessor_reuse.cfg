CONSTANTS
  NumArgs = 3
  Frameworks <- AllFrameworks
  Queries <- Args
  MaxCalls <- Twice
  UIntWidth = 8
SPECIFICATION SolveSpec
INVARIANT AnswerPreserved
