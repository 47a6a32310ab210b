SPECIFICATION Spec
CONSTANTS
  Messages <- ThreeMessages
  Opening = 100
  Minutes = 4
  DayLength = 2
  MonthStart = 3
  LogMax = 2
  MaxRows = 2
  Apart = TRUE
  Overtaken = FALSE
INVARIANTS ShownIsBank DiffIsMissing
PROPERTY AnswersSettle
CHECK_DEADLOCK FALSE
