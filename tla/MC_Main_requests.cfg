CONSTANTS
  Files <- AllFiles
  MaxNumber = 3
  CommandLines <- AllCommandLines
  Undef = Undef
SPECIFICATION MCSpec
INVARIANTS FrameworkRead AnswerDescribesFile RequestHonoured
