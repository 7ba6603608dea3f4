CONSTANTS
  NumArgs = 4
  Frameworks <- SomeFrameworks
  Queries <- Args
  MaxCalls <- TwiceIfThree
  UIntWidth = 8
SPECIFICATION SolveSpec
INVARIANTS TypeOK LoopsExact PriorityInRange DeliversContract ReductIsClosedForm
PROPERTIES PathsEnd ExtensionGrows
